----------------------------- MODULE ServingProofs -----------------------------
(***************************************************************************)
(* Proofs about the components that serve requests: the tasks of the       *)
(* scheduler, the requests to other sites and what is recorded of them,    *)
(* the mirrors of a client, the sessions of a browser and the limits on    *)
(* rates; and about all of them together, that every variable keeps its    *)
(* type.                                                                   *)
(***************************************************************************)
EXTENDS MCServing, StreamingProofs, StreamingKeysProofs,
        TLAPS, FiniteSetTheorems, FunctionTheorems, SequenceTheorems, WellFoundedInduction
--------------------------------------------------------------------------------
(* Scheduler. The map of the scheduler names the records that nobody       *)
(* cancelled, so a task that runs beside itself is one that was cancelled; *)
(* a signal cancels all the others.                                        *)
ScheduledTaskRecord ==
    [name : TaskNames, state : {"running", "waiting", "over"}, cancelled : BOOLEAN]

(* The records are numbered as they are made, and each is a record.        *)
RecordsNumbered ==
    /\ \E k \in Nat : Records = 1..k
    /\ \A r \in Records : records[r] \in ScheduledTaskRecord
    /\ phase = "configuring" => Records = {}

(* The map of the scheduler names exactly the records that nobody          *)
(* cancelled: that a task does not overlap itself follows.                 *)
MapNamesTheWanted ==
    /\ \A n \in TaskNames : tasks[n] # NoRecord =>
          records[tasks[n]].name = n /\ ~records[tasks[n]].cancelled
    /\ \A r \in Records : Live(r) /\ ~records[r].cancelled => tasks[records[r].name] = r

(* A record that was cancelled does not wait for its timer, and after the  *)
(* signal there is no other kind.                                          *)
CancelledRunOut ==
    /\ \A r \in Records : records[r].state = "waiting" => ~records[r].cancelled
    /\ phase \in {"stopping", "closed", "exited"} =>
          \A r \in Records : Live(r) => records[r].cancelled /\ r \in straggler

SchInv == SchTypeOK /\ RecordsNumbered /\ MapNamesTheWanted /\ CancelledRunOut

(* Cancelling a record keeps its name and clears its timer.                *)
LEMMA CancelledIs ==
    ASSUME NEW rec \in ScheduledTaskRecord
    PROVE  /\ Cancelled(rec) \in ScheduledTaskRecord
           /\ Cancelled(rec).name = rec.name
           /\ Cancelled(rec).cancelled
           /\ Cancelled(rec).state \in {rec.state, "over"}
           /\ Cancelled(rec).state # "waiting"
  BY DEF Cancelled, ScheduledTaskRecord

(* Setting the state of one record.                                        *)
LEMMA SettlesIs ==
    ASSUME NEW r \in Records, NEW st \in {"running", "waiting", "over"},
           \A x \in Records : records[x] \in ScheduledTaskRecord,
           Settles(r, st)
    PROVE  /\ Records' = Records
           /\ \A x \in Records : /\ records'[x] \in ScheduledTaskRecord
                                 /\ records'[x].name = records[x].name
                                 /\ records'[x].cancelled = records[x].cancelled
                                 /\ records'[x].state = IF x = r THEN st ELSE records[x].state
  BY DEF Settles, Records, ScheduledTaskRecord

(* SchInv implies what the run checks.                                     *)
LEMMA MapForbidsOverlap == SchInv => OnlyStragglersWork
<1>1. ASSUME SchInv, NEW r \in Records, NEW q \in Records, r # q,
             records[r].name = records[q].name, Live(r), Live(q)
      PROVE  records[r].cancelled \/ records[q].cancelled
  BY <1>1 DEF SchInv, MapNamesTheWanted
<1>2. ASSUME SchInv, phase \in {"stopping", "closed", "exited"}, NEW r \in Records, Live(r)
      PROVE  r \in straggler /\ records[r].state = "running"
  BY <1>2 DEF SchInv, CancelledRunOut, Live
<1>. QED
  BY <1>1, <1>2 DEF OnlyStragglersWork

LEMMA SchInvInit == SchInit => SchInv
<1>1. SchInit => Records = {} /\ 1..0 = {}
  BY DEF SchInit, Records
<1>. QED
  BY <1>1 DEF SchInit, SchInv, SchTypeOK, RecordsNumbered, MapNamesTheWanted,
              CancelledRunOut, NoRecord

LEMMA SchInvStep == SchInv /\ [SchNext]_schedulerVars => SchInv'
<1>. SUFFICES ASSUME SchInv, [SchNext]_schedulerVars
              PROVE  SchInv'
  OBVIOUS
<1>a. \A r \in Records : records[r] \in ScheduledTaskRecord
  BY DEF SchInv, RecordsNumbered
<1>b. NoRecord \notin Records
  BY DEF SchInv, RecordsNumbered, NoRecord
<1>. USE DEF SchInv, SchTypeOK, RecordsNumbered, MapNamesTheWanted, CancelledRunOut, Live
<1>1. CASE Boot \/ Listen \/ CloseDatabase \/ Exit
  BY <1>1 DEF Boot, Listen, CloseDatabase, Exit, Records
<1>2. ASSUME NEW n \in TaskNames, ScheduleTask(n)
      PROVE  SchInv'
  <2>1. CASE tasks[n] # NoRecord
    BY <1>2, <2>1 DEF ScheduleTask, Records
  <2>2. CASE tasks[n] = NoRecord
    <3>1. PICK k \in Nat : Records = 1..k
      OBVIOUS
    <3>1a. \A j \in Nat : (IF 1 > j THEN 0 ELSE j - 1 + 1) = j
      OBVIOUS
    <3>1b. Cardinality(1..k) = k
      BY <3>1a, FS_Interval
    <3>2. Cardinality(Records) = k
      BY <3>1, <3>1b, Zenon
    <3> DEFINE r == k + 1
               new == [name |-> n, state |-> "running", cancelled |-> FALSE]
    <3>3. /\ records' = [x \in Records \cup {r} |-> IF x = r THEN new ELSE records[x]]
          /\ tasks' = [tasks EXCEPT ![n] = r]
          /\ phase = "scheduling" /\ UNCHANGED <<phase, straggler>>
      BY <1>2, <2>2, <3>2 DEF ScheduleTask
    <3>4. r \notin Records /\ Records' = 1..(k + 1) /\ k + 1 \in Nat /\ r # NoRecord
      BY <3>1, <3>3 DEF Records, NoRecord
    <3>4a. r \in Records' /\ Records \subseteq Records'
           /\ \A x \in Records' : x # r => x \in Records
      BY <3>3 DEF Records
    <3>5. new \in ScheduledTaskRecord /\ ~new.cancelled /\ new.name = n /\ new.state = "running"
      BY DEF ScheduledTaskRecord
    <3>6. /\ records'[r] = new
          /\ \A x \in Records : records'[x] = records[x]
      BY <3>3, <3>4
    <3>. HIDE DEF new, r
    <3>7. SchTypeOK'
      BY <3>3, <3>4a, <3>5, <3>6, <1>a DEF ScheduledTaskRecord
    <3>8. RecordsNumbered'
      BY <3>3, <3>4, <3>4a, <3>5, <3>6, <1>a
    <3>9. MapNamesTheWanted'
      <4>1. ASSUME NEW m \in TaskNames, tasks'[m] # NoRecord
            PROVE  records'[tasks'[m]].name = m /\ ~records'[tasks'[m]].cancelled
        <5>1. CASE m = n
          BY <5>1, <3>3, <3>5, <3>6
        <5>2. CASE m # n
          <6>1. tasks'[m] = tasks[m] /\ tasks[m] # NoRecord /\ tasks[m] \in Records
            BY <5>2, <4>1, <3>3
          <6>2. records[tasks[m]].name = m /\ ~records[tasks[m]].cancelled
            BY <6>1
          <6>. QED
            BY <6>1, <6>2, <3>6
        <5>. QED
          BY <5>1, <5>2
      <4>2. ASSUME NEW x \in Records', Live(x)', ~records'[x].cancelled
            PROVE  tasks'[records'[x].name] = x
        <5>1. CASE x = r
          BY <5>1, <3>3, <3>5, <3>6
        <5>2. CASE x # r
          <6>1. x \in Records /\ records'[x] = records[x]
            BY <5>2, <3>4a, <3>6
          <6>2. tasks[records[x].name] = x /\ records[x].name \in TaskNames
            BY <6>1, <4>2
          <6>3. records[x].name # n
            BY <6>1, <6>2, <2>2, <1>b
          <6>. QED
            BY <6>1, <6>2, <6>3, <3>3
        <5>. QED
          BY <5>1, <5>2
      <4>. QED
        BY <4>1, <4>2, <3>4a
    <3>10. CancelledRunOut'
      BY <3>3, <3>4, <3>4a, <3>5, <3>6
    <3>. QED
      BY <3>7, <3>8, <3>9, <3>10
  <2>. QED
    BY <2>1, <2>2
<1>3. ASSUME NEW n \in TaskNames, CancelTask(n)
      PROVE  SchInv'
  <2> DEFINE c == tasks[n]
  <2>1. /\ c \in Records
        /\ Records' = Records
        /\ records'[c] = Cancelled(records[c])
        /\ \A x \in Records : x # c => records'[x] = records[x]
        /\ tasks' = [tasks EXCEPT ![n] = NoRecord]
        /\ phase \in {"scheduling", "serving"} /\ UNCHANGED <<phase, straggler>>
    BY <1>3 DEF CancelTask, Records
  <2>2. /\ records'[c] \in ScheduledTaskRecord
        /\ records'[c].name = records[c].name
        /\ records'[c].cancelled
        /\ records'[c].state \in {records[c].state, "over"}
        /\ records'[c].state # "waiting"
    BY <2>1, <1>a, CancelledIs
  <2>3. c # NoRecord /\ records[c].name = n
    BY <2>1, <1>b
  <2>. HIDE DEF c
  <2>4. SchTypeOK'
    BY <2>1, <2>2, <1>a DEF ScheduledTaskRecord
  <2>5. RecordsNumbered'
    BY <2>1, <2>2, <1>a
  <2>6. MapNamesTheWanted'
    BY <2>1, <2>2, <2>3, <1>a, <1>b, SMTT(30) DEF ScheduledTaskRecord, c
  <2>7. CancelledRunOut'
    BY <2>1, <2>2
  <2>. QED
    BY <2>4, <2>5, <2>6, <2>7
<1>4. ASSUME NEW r \in Records, TaskSettles(r)
      PROVE  SchInv'
  <2>1. PICK st \in {"waiting", "over"} : Settles(r, st) /\ (st = "waiting" <=> ~records[r].cancelled)
    BY <1>4 DEF TaskSettles
  <2>2. UNCHANGED <<phase, tasks, straggler>> /\ records[r].state = "running"
    BY <1>4 DEF TaskSettles
  <2>3. /\ Records' = Records
        /\ \A x \in Records : /\ records'[x] \in ScheduledTaskRecord
                              /\ records'[x].name = records[x].name
                              /\ records'[x].cancelled = records[x].cancelled
                              /\ records'[x].state = IF x = r THEN st ELSE records[x].state
    BY <2>1, <1>a, SettlesIs
  <2>4. SchTypeOK'
    BY <2>2, <2>3, <1>a DEF ScheduledTaskRecord
  <2>5. RecordsNumbered'
    BY <2>2, <2>3
  <2>6. MapNamesTheWanted'
    BY <2>2, <2>3, <1>a
  <2>7. CancelledRunOut'
    BY <2>1, <2>2, <2>3
  <2>. QED
    BY <2>4, <2>5, <2>6, <2>7
<1>5. ASSUME NEW r \in Records, RunAgain(r)
      PROVE  SchInv'
  <2>1. Settles(r, "running") /\ records[r].state = "waiting"
    BY <1>5 DEF RunAgain
  <2>2. UNCHANGED <<phase, tasks, straggler>>
    BY <1>5 DEF RunAgain
  <2>3. /\ Records' = Records
        /\ \A x \in Records : /\ records'[x] \in ScheduledTaskRecord
                              /\ records'[x].name = records[x].name
                              /\ records'[x].cancelled = records[x].cancelled
                              /\ records'[x].state = IF x = r THEN "running" ELSE records[x].state
    BY <2>1, <1>a, SettlesIs
  <2>4. SchTypeOK'
    BY <2>2, <2>3, <1>a DEF ScheduledTaskRecord
  <2>5. RecordsNumbered'
    BY <2>2, <2>3
  <2>6. MapNamesTheWanted'
    BY <2>1, <2>2, <2>3, <1>a
  <2>7. CancelledRunOut'
    BY <2>1, <2>2, <2>3
  <2>. QED
    BY <2>4, <2>5, <2>6, <2>7
<1>6. CASE Signal
  <2>1. /\ phase \in {"serving", "stopping", "closed"}
        /\ phase' \in {"stopping", "closed"} /\ (phase' = phase \/ phase = "serving")
        /\ straggler' = IF phase = "serving" THEN {r \in Records : records[r].state = "running"}
                        ELSE straggler
        /\ Records' = Records
        /\ tasks' = [n \in TaskNames |-> NoRecord]
    BY <1>6 DEF Signal, Records
  <2>2. \A r \in Records :
           \/ records'[r] = Cancelled(records[r]) /\ \E n \in TaskNames : tasks[n] = r
           \/ records'[r] = records[r] /\ ~\E n \in TaskNames : tasks[n] = r
    BY <1>6 DEF Signal
  <2>3. \A r \in Records : /\ records'[r] \in ScheduledTaskRecord
                           /\ records'[r].name = records[r].name
                           /\ records'[r].state \in {records[r].state, "over"}
                           /\ Live(r)' => records'[r].cancelled /\ records[r].state = "running"
                           /\ records'[r].state = "waiting" => FALSE
    BY <2>2, <1>a, CancelledIs DEF ScheduledTaskRecord
  <2>4. SchTypeOK'
    BY <2>1, <2>3 DEF ScheduledTaskRecord
  <2>5. RecordsNumbered'
    BY <2>1, <2>3
  <2>6. MapNamesTheWanted'
    BY <2>1, <2>3
  <2>7. phase # "serving" => \A r \in Records : Live(r) => r \in straggler
    BY <2>1
  <2>8. CancelledRunOut'
    BY <2>1, <2>3, <2>7
  <2>. QED
    BY <2>4, <2>5, <2>6, <2>8
<1>7. CASE UNCHANGED schedulerVars
  BY <1>7 DEF schedulerVars, Records
<1>. QED
  BY <1>1, <1>2, <1>3, <1>4, <1>5, <1>6, <1>7 DEF SchNext

(***************************************************************************)
(* However tasks are scheduled, cancelled, settle and are run again, and   *)
(* whenever signals come, a task does not overlap itself but for a run     *)
(* that was cancelled, and after the signal only the runs that were then   *)
(* under way go on (scheduler.ts:54-87, app.ts:183-202).                   *)
(***************************************************************************)
THEOREM NothingStartsAfterTheSignal == SchSpec => []OnlyStragglersWork
<1>. QED
  BY SchInvInit, SchInvStep, MapForbidsOverlap, PTL DEF SchSpec
--------------------------------------------------------------------------------
(* HttpRequests. The measures of a request share one timeframe and are     *)
(* recorded with one verdict or not at all; the requests and the verdicts  *)
(* of a timeframe are then paired by a bijection.                          *)
Verdicts == {"request.success", "request.error"}
StatNames == Measures \cup {"request.flaresolverr", "request.solved"}
StatEntry(r, name, f) == [of |-> r, name |-> name, frame |-> f]
StatEntries == [of : HttpRequestIds, name : StatNames, frame : 0..MaxFrame]

\* The measures of a request among some entries.
MeasuresOf(S, r) == {x \in S : x.of = r /\ x.name \in Measures}

(* The books of one request: S is what is open, K what was recorded.  All  *)
(* its measures were started in one timeframe; until the verdict, which a  *)
(* request without an address never gets, the three are open or were       *)
(* dropped, afterwards none is; and what was recorded is the request with  *)
(* one verdict.                                                            *)
Books(S, K, stage, r) ==
    /\ \A x, y \in MeasuresOf(S, r) \cup MeasuresOf(K, r) : x.frame = y.frame
    /\ stage = "idle" => MeasuresOf(S, r) = {} /\ MeasuresOf(K, r) = {}
    /\ stage \in {"fetching", "solving", "unaddressed"} =>
          /\ MeasuresOf(K, r) = {}
          /\ \A x \in MeasuresOf(S, r) : \A n \in Measures : StatEntry(r, n, x.frame) \in S
    /\ stage \in {"reading", "over"} => MeasuresOf(S, r) = {}
    /\ \A x \in MeasuresOf(K, r) :
          IF x.name = "request"
          THEN \E n \in Verdicts :
                  /\ StatEntry(r, n, x.frame) \in K
                  /\ \A m \in Verdicts : StatEntry(r, m, x.frame) \in K => m = n
          ELSE StatEntry(r, "request", x.frame) \in K

HttpInv ==
    /\ frame \in 0..MaxFrame
    /\ DOMAIN reqs = HttpRequestIds
    /\ \A r \in HttpRequestIds : DOMAIN reqs[r] = DOMAIN NotSent
    /\ \A r \in HttpRequestIds : reqs[r].stage \in Stages
    /\ IsFiniteSet(starts) /\ starts \in SUBSET StatEntries
    /\ IsFiniteSet(kept) /\ kept \in SUBSET StatEntries
    /\ \A x \in starts : x.name \in Measures
    /\ \A r \in HttpRequestIds : Books(starts, kept, reqs[r].stage, r)

LEMMA EntryIs ==
    ASSUME NEW x \in StatEntries
    PROVE  x = StatEntry(x.of, x.name, x.frame)
  BY DEF StatEntries, StatEntry

LEMMA EntryHas ==
    ASSUME NEW r, NEW n, NEW f
    PROVE  /\ StatEntry(r, n, f).of = r
           /\ StatEntry(r, n, f).name = n
           /\ StatEntry(r, n, f).frame = f
  BY DEF StatEntry

(* The books depend on the measures alone.                                 *)
LEMMA BooksAreLocal ==
    ASSUME NEW S, NEW K, NEW S2, NEW K2, NEW stage, NEW r,
           MeasuresOf(S2, r) = MeasuresOf(S, r), MeasuresOf(K2, r) = MeasuresOf(K, r),
           Books(S, K, stage, r)
    PROVE  Books(S2, K2, stage, r)
<1>1. \A n \in Measures : \A f :
         /\ StatEntry(r, n, f) \in S2 <=> StatEntry(r, n, f) \in S
         /\ StatEntry(r, n, f) \in K2 <=> StatEntry(r, n, f) \in K
  <2>1. ASSUME NEW n \in Measures, NEW f
        PROVE  /\ StatEntry(r, n, f) \in S2 <=> StatEntry(r, n, f) \in S
               /\ StatEntry(r, n, f) \in K2 <=> StatEntry(r, n, f) \in K
    <3> DEFINE e == StatEntry(r, n, f)
    <3>1. e.of = r /\ e.name \in Measures
      BY EntryHas
    <3>. HIDE DEF e
    <3>2. /\ e \in S <=> e \in MeasuresOf(S, r)
          /\ e \in S2 <=> e \in MeasuresOf(S2, r)
          /\ e \in K <=> e \in MeasuresOf(K, r)
          /\ e \in K2 <=> e \in MeasuresOf(K2, r)
      BY <3>1 DEF MeasuresOf
    <3>. QED
      BY <3>2 DEF e
  <2>. QED
    BY <2>1
<1>2. Verdicts \subseteq Measures /\ "request" \in Measures
  BY DEF Verdicts, Measures
<1>. QED
  BY <1>1, <1>2 DEF Books

(* Dropping what is old drops all of a request or nothing.                 *)
LEMMA RetainedKeepsBooks ==
    ASSUME NEW S, NEW K, NEW stage, NEW r, Books(S, K, stage, r)
    PROVE  Books(Retained(S), Retained(K), stage, r)
<1>1. /\ MeasuresOf(Retained(S), r) \subseteq MeasuresOf(S, r)
      /\ MeasuresOf(Retained(K), r) \subseteq MeasuresOf(K, r)
  BY DEF MeasuresOf, Retained
<1>2. /\ \A x \in MeasuresOf(Retained(S), r) : x.frame >= frame - MaxFrames
      /\ \A x \in MeasuresOf(Retained(K), r) : x.frame >= frame - MaxFrames
  BY DEF MeasuresOf, Retained
<1>3. \A n, f : f >= frame - MaxFrames =>
         /\ StatEntry(r, n, f) \in S => StatEntry(r, n, f) \in Retained(S)
         /\ StatEntry(r, n, f) \in K => StatEntry(r, n, f) \in Retained(K)
  BY EntryHas DEF Retained
<1>4. \A e : e \in Retained(K) => e \in K
  BY DEF Retained
<1>. QED
  BY <1>1, <1>2, <1>3, <1>4 DEF Books

LEMMA RetainedIs ==
    ASSUME NEW S
    PROVE  Retained(S) \subseteq S
  BY DEF Retained

(* The books say what the run checks.                                      *)
LEMMA BooksGiveOneVerdict == HttpInv => OneVerdict
<1>. SUFFICES ASSUME HttpInv
              PROVE  OneVerdict
  OBVIOUS
<1>1. ASSUME NEW r \in HttpRequestIds, reqs[r].stage = "over"
      PROVE  /\ EntriesOf(starts, r) = {}
             /\ {x.name : x \in EntriesOf(kept, r)} \cap Measures
                   \in {{}, {"request", "request.success"}, {"request", "request.error"}}
  <2>1. Books(starts, kept, "over", r)
    BY <1>1 DEF HttpInv
  <2>2. EntriesOf(starts, r) = {}
    BY <2>1 DEF EntriesOf, Books, MeasuresOf, HttpInv
  <2> DEFINE names == {x.name : x \in EntriesOf(kept, r)} \cap Measures
  <2>3. names = {x.name : x \in MeasuresOf(kept, r)}
    BY DEF EntriesOf, MeasuresOf
  <2>4. CASE MeasuresOf(kept, r) = {}
    BY <2>2, <2>3, <2>4
  <2>5. CASE MeasuresOf(kept, r) # {}
    <3>1. PICK z \in MeasuresOf(kept, r) : TRUE
      BY <2>5
    <3> DEFINE f == z.frame
    <3>2. \A x \in MeasuresOf(kept, r) : x \in kept /\ x.frame = f /\ x = StatEntry(r, x.name, f)
                                         /\ x.name \in Measures
      BY <2>1, <3>1, EntryIs DEF Books, MeasuresOf, HttpInv
    <3>3. StatEntry(r, "request", f) \in kept
      <4>1. CASE z.name = "request"
        BY <4>1, <3>1, <3>2
      <4>2. CASE z.name # "request"
        BY <4>2, <3>1, <2>1 DEF Books
      <4>. QED
        BY <4>1, <4>2
    <3>4. StatEntry(r, "request", f) \in MeasuresOf(kept, r)
      BY <3>3, EntryHas DEF MeasuresOf, Measures
    <3>5. PICK n \in Verdicts : /\ StatEntry(r, n, f) \in kept
                                /\ \A m \in Verdicts : StatEntry(r, m, f) \in kept => m = n
      BY <3>4, <2>1, EntryHas DEF Books
    <3>6. StatEntry(r, n, f) \in MeasuresOf(kept, r)
      BY <3>5, EntryHas DEF MeasuresOf, Measures, Verdicts
    <3>7. ASSUME NEW x \in MeasuresOf(kept, r)
          PROVE  x.name \in {"request", n}
      BY <3>2, <3>5 DEF Measures, Verdicts
    <3>8. {x.name : x \in MeasuresOf(kept, r)} = {"request", n}
      BY <3>4, <3>6, <3>7, EntryHas
    <3>. QED
      BY <2>2, <2>3, <3>8 DEF Verdicts
  <2>. QED
    BY <2>4, <2>5
<1>2. ASSUME NEW f \in 0..MaxFrame
      PROVE  Reported("request", f) = Reported("request.success", f) + Reported("request.error", f)
  <2> DEFINE A == {x \in kept : x.name = "request" /\ x.frame = f}
             B == {x \in kept : x.name = "request.success" /\ x.frame = f}
             C == {x \in kept : x.name = "request.error" /\ x.frame = f}
             g == [y \in B \cup C |-> StatEntry(y.of, "request", f)]
  <2>1. IsFiniteSet(A) /\ IsFiniteSet(B) /\ IsFiniteSet(C)
    BY FS_Subset DEF HttpInv
  <2>2. \A x \in kept : /\ x.of \in HttpRequestIds /\ x = StatEntry(x.of, x.name, x.frame)
                        /\ Books(starts, kept, reqs[x.of].stage, x.of)
    BY EntryIs DEF HttpInv, StatEntries
  <2>3. ASSUME NEW y \in B \cup C
        PROVE  /\ g[y] \in A /\ g[y].of = y.of
               /\ y.name \in Verdicts /\ y = StatEntry(y.of, y.name, f)
    <3>1. y \in kept /\ y.name \in Verdicts /\ y.frame = f
      BY DEF Verdicts
    <3>2. y \in MeasuresOf(kept, y.of) /\ y.name # "request"
      BY <3>1 DEF MeasuresOf, Measures, Verdicts
    <3>3. StatEntry(y.of, "request", f) \in kept
      BY <3>1, <3>2, <2>2 DEF Books
    <3>. QED
      BY <3>1, <3>3, <2>2, EntryHas
  <2>4. ASSUME NEW x \in A
        PROVE  \E n \in Verdicts :
                  /\ StatEntry(x.of, n, f) \in kept
                  /\ \A m \in Verdicts : StatEntry(x.of, m, f) \in kept => m = n
    <3>1. x \in MeasuresOf(kept, x.of)
      BY DEF MeasuresOf, Measures
    <3>. QED
      BY <3>1, <2>2 DEF Books
  <2>5. g \in Injection(B \cup C, A)
    <3>1. ASSUME NEW y \in B \cup C, NEW z \in B \cup C, g[y] = g[z]
          PROVE  y = z
      <4>1. y.of = z.of /\ g[y] \in A /\ g[y].of = y.of
        BY <2>3, <3>1, ZenonT(40)
      <4>2. StatEntry(y.of, y.name, f) \in kept /\ StatEntry(y.of, z.name, f) \in kept
        BY <4>1, <2>3
      <4> DEFINE w == g[y]
      <4>3. /\ w \in A /\ w.of = y.of /\ y.name \in Verdicts /\ z.name \in Verdicts
            /\ y = StatEntry(y.of, y.name, f) /\ z = StatEntry(z.of, z.name, f)
        BY <2>3, <4>1
      <4>. HIDE DEF w, g, A, B, C
      <4>4. PICK n \in Verdicts :
               \A m \in Verdicts : StatEntry(w.of, m, f) \in kept => m = n
        BY <4>3, <2>4
      <4>5. y.name = z.name
        BY <4>2, <4>3, <4>4
      <4>. QED
        BY <4>1, <4>3, <4>5
    <3>2. g \in [B \cup C -> A]
      BY <2>3
    <3>. QED
      BY <3>1, <3>2, Fun_IsInj
  <2>6. g \in Surjection(B \cup C, A)
    <3>1. ASSUME NEW x \in A
          PROVE  \E y \in B \cup C : g[y] = x
      <4>1. PICK n \in Verdicts : StatEntry(x.of, n, f) \in kept
        BY <2>4
      <4>2. StatEntry(x.of, n, f) \in B \cup C
        BY <4>1, EntryHas DEF Verdicts
      <4>3. g[StatEntry(x.of, n, f)] = StatEntry(x.of, "request", f)
        BY <4>2, EntryHas
      <4>4. x = StatEntry(x.of, "request", f)
        BY <2>2
      <4>. QED
        BY <4>2, <4>3, <4>4
    <3>2. g \in [B \cup C -> A]
      BY <2>3
    <3>. QED
      BY <3>1, <3>2, Fun_IsSurj
  <2>. HIDE DEF g
  <2>7. ExistsBijection(B \cup C, A)
    BY <2>5, <2>6 DEF ExistsBijection, Bijection
  <2>8. B \cap C = {}
    OBVIOUS
  <2>9. /\ Reported("request", f) = Cardinality(A)
        /\ Reported("request.success", f) = Cardinality(B)
        /\ Reported("request.error", f) = Cardinality(C)
    BY DEF Reported
  <2>. HIDE DEF A, B, C
  <2>10. /\ IsFiniteSet(B \cup C)
         /\ Cardinality(B \cup C) = Cardinality(B) + Cardinality(C) - Cardinality(B \cap C)
    BY <2>1, FS_Union, Zenon
  <2>11. Cardinality(A) = Cardinality(B \cup C)
    BY <2>7, <2>10, FS_Bijection, Zenon
  <2>12. Cardinality(B \cap C) = 0 /\ Cardinality(B) \in Nat /\ Cardinality(C) \in Nat
    BY <2>1, <2>8, FS_EmptySet, FS_CardinalityType
  <2>. QED
    BY <2>9, <2>10, <2>11, <2>12
<1>3. ASSUME NEW r \in HttpRequestIds, reqs[r].stage = "unaddressed"
      PROVE  /\ {x.name : x \in EntriesOf(kept, r)} \cap Measures = {}
             /\ {x.name : x \in EntriesOf(starts, r)} \in {{}, Measures}
  <2>1. Books(starts, kept, "unaddressed", r)
    BY <1>3 DEF HttpInv
  <2>2. MeasuresOf(kept, r) = {}
    BY <2>1 DEF Books
  <2>3. {x.name : x \in EntriesOf(kept, r)} \cap Measures = {}
    BY <2>2 DEF EntriesOf, MeasuresOf
  <2>4. EntriesOf(starts, r) = MeasuresOf(starts, r)
    BY DEF EntriesOf, MeasuresOf, HttpInv
  <2>5. CASE MeasuresOf(starts, r) # {}
    <3>1. PICK z \in MeasuresOf(starts, r) : TRUE
      BY <2>5
    <3>2. \A n \in Measures : StatEntry(r, n, z.frame) \in EntriesOf(starts, r)
      BY <2>1, <3>1, EntryHas DEF Books, EntriesOf
    <3>3. \A x \in EntriesOf(starts, r) : x.name \in Measures
      BY <2>4 DEF MeasuresOf
    <3>4. {x.name : x \in EntriesOf(starts, r)} = Measures
      BY <3>2, <3>3, EntryHas
    <3>. QED
      BY <2>3, <3>4
  <2>. QED
    BY <2>3, <2>4, <2>5
<1>. QED
  BY <1>1, <1>2, <1>3 DEF OneVerdict

(* A request whose measures a step leaves alone keeps its books, whether   *)
(* old entries are dropped or not.                                         *)
LEMMA OthersKeepBooks ==
    ASSUME NEW S, NEW K, NEW S2, NEW K2, NEW stage, NEW r, Books(S, K, stage, r),
           MeasuresOf(S2, r) = MeasuresOf(S, r), MeasuresOf(K2, r) = MeasuresOf(K, r)
    PROVE  Books(S2, K2, stage, r) /\ Books(Retained(S2), Retained(K2), stage, r)
<1>1. Books(S2, K2, stage, r)
  BY BooksAreLocal
<1>. QED
  BY <1>1, RetainedKeepsBooks

(* Of one request, that its verdict closes the books as they should be.    *)
LEMMA VerdictClosesBooks ==
    ASSUME HttpInv, NEW r \in HttpRequestIds, NEW verdict \in Verdicts,
           reqs[r].stage \in {"fetching", "solving", "reading"},
           NEW events, \A x \in events : x.name \notin Measures,
           NEW stage \in {"reading", "over"},
           NEW X, X = starts \ OpenMeasures(r, Measures),
           NEW Y, Y = kept \cup OpenMeasures(r, {"request", verdict}) \cup events
    PROVE  Books(X, Y, stage, r)
<1> DEFINE ended == OpenMeasures(r, {"request", verdict})
<1>1. MeasuresOf(X, r) = {}
  BY DEF MeasuresOf, OpenMeasures
<1>2. MeasuresOf(Y, r) = MeasuresOf(kept, r) \cup ended
  BY DEF MeasuresOf, OpenMeasures, Measures, Verdicts
<1>3. ended \subseteq MeasuresOf(starts, r) /\ \A x \in ended : x.name \in {"request", verdict}
  BY DEF MeasuresOf, OpenMeasures, Measures, Verdicts
<1>4. Books(starts, kept, reqs[r].stage, r)
  BY DEF HttpInv
<1>5. \A x, y \in MeasuresOf(Y, r) : x.frame = y.frame
  BY <1>2, <1>3, <1>4 DEF Books
<1>6. ASSUME NEW x \in MeasuresOf(Y, r)
      PROVE  IF x.name = "request"
             THEN \E n \in Verdicts :
                     /\ StatEntry(r, n, x.frame) \in Y
                     /\ \A m \in Verdicts : StatEntry(r, m, x.frame) \in Y => m = n
             ELSE StatEntry(r, "request", x.frame) \in Y
  <2>0. \A n \in Measures : \A f : StatEntry(r, n, f) \in Y <=> StatEntry(r, n, f) \in kept \cup ended
    BY EntryHas
  <2>v. Verdicts \subseteq Measures /\ "request" \in Measures /\ "request" \notin Verdicts
    BY DEF Verdicts, Measures
  <2>1. CASE reqs[r].stage = "reading"
    <3>1. ended = {} /\ x \in MeasuresOf(kept, r)
      BY <1>2, <1>3, <1>4, <2>1 DEF Books
    <3>2. IF x.name = "request"
          THEN \E n \in Verdicts :
                  /\ StatEntry(r, n, x.frame) \in kept
                  /\ \A m \in Verdicts : StatEntry(r, m, x.frame) \in kept => m = n
          ELSE StatEntry(r, "request", x.frame) \in kept
      BY <3>1, <1>4 DEF Books
    <3>. QED
      BY <3>1, <3>2, <2>0, <2>v
  <2>2. CASE reqs[r].stage \in {"fetching", "solving"}
    <3>1. MeasuresOf(kept, r) = {} /\ x \in ended
      BY <1>2, <1>4, <2>2 DEF Books
    <3>2. \A n \in Measures : StatEntry(r, n, x.frame) \in starts
      BY <3>1, <1>3, <1>4, <2>2 DEF Books
    <3>3. \A n \in Measures : StatEntry(r, n, x.frame) \notin kept
      BY <3>1, EntryHas DEF MeasuresOf
    <3>4. \A n \in Measures : StatEntry(r, n, x.frame) \in ended <=> n \in {"request", verdict}
      BY <3>2, EntryHas DEF OpenMeasures
    <3>5. \A n \in Measures : StatEntry(r, n, x.frame) \in Y <=> n \in {"request", verdict}
      BY <3>3, <3>4, <2>0
    <3>. QED
      BY <3>5, <2>v
  <2>. QED
    BY <2>1, <2>2
<1>. HIDE DEF ended
<1>7. stage \notin {"idle", "fetching", "solving", "unaddressed"}
  OBVIOUS
<1>. QED
  BY <1>1, <1>5, <1>6, <1>7 DEF Books

(* A verdict, in the step that gives it.                                   *)
LEMMA SettledIs ==
    ASSUME HttpInv, NEW r \in HttpRequestIds, NEW verdict \in Verdicts,
           reqs[r].stage \in {"fetching", "solving", "reading"},
           NEW events \in SUBSET StatEntries, IsFiniteSet(events),
           \A x \in events : x.name \notin Measures,
           NEW stage \in {"reading", "over"},
           Settled(r, verdict, events)
    PROVE  /\ IsFiniteSet(starts') /\ starts' \in SUBSET starts
           /\ IsFiniteSet(kept') /\ kept' \in SUBSET StatEntries
           /\ Books(starts', kept', stage, r)
           /\ \A q \in HttpRequestIds : q # r => Books(starts', kept', reqs[q].stage, q)
<1> DEFINE ended == OpenMeasures(r, {"request", verdict})
           X == starts \ OpenMeasures(r, Measures)
           Y == kept \cup ended \cup events
<1>1. \/ starts' = X /\ kept' = Y
      \/ starts' = Retained(X) /\ kept' = Retained(Y)
  BY DEF Settled
<1>2. X \subseteq starts /\ ended \subseteq starts
  BY DEF OpenMeasures
<1>3. starts \in SUBSET StatEntries /\ kept \in SUBSET StatEntries /\ IsFiniteSet(starts) /\ IsFiniteSet(kept)
  BY DEF HttpInv
<1>4. IsFiniteSet(X) /\ IsFiniteSet(ended)
  BY <1>2, <1>3, FS_Subset, Zenon
<1>5. IsFiniteSet(Y)
  BY <1>3, <1>4, FS_Union, Zenon
<1>6. Books(X, Y, stage, r)
  BY VerdictClosesBooks
<1>7. ASSUME NEW q \in HttpRequestIds, q # r
      PROVE  /\ Books(starts, kept, reqs[q].stage, q)
             /\ MeasuresOf(X, q) = MeasuresOf(starts, q)
             /\ MeasuresOf(Y, q) = MeasuresOf(kept, q)
  BY <1>7 DEF MeasuresOf, OpenMeasures, HttpInv
<1>. HIDE DEF X, Y, ended
<1>8. starts' \in SUBSET X /\ kept' \in SUBSET Y
  BY <1>1, RetainedIs
<1>8a. IsFiniteSet(starts') /\ IsFiniteSet(kept')
  BY <1>4, <1>5, <1>8, FS_Subset, Zenon
<1>9. starts' \in SUBSET starts /\ kept' \in SUBSET StatEntries
  BY <1>2, <1>3, <1>8 DEF Y
<1>10. Books(starts', kept', stage, r)
  BY <1>1, <1>6, RetainedKeepsBooks
<1>11. ASSUME NEW q \in HttpRequestIds, q # r
       PROVE  Books(starts', kept', reqs[q].stage, q)
  <2>1. Books(X, Y, reqs[q].stage, q) /\ Books(Retained(X), Retained(Y), reqs[q].stage, q)
    BY <1>7, <1>11, OthersKeepBooks
  <2>. QED
    BY <1>1, <2>1
<1>. QED
  BY <1>8a, <1>9, <1>10, <1>11

(* What ReqBecomes does to the requests.                                   *)
LEMMA BecomesStage ==
    ASSUME HttpInv, NEW r \in HttpRequestIds, NEW stage, NEW result, ReqBecomes(r, stage, result)
    PROVE  /\ DOMAIN reqs' = HttpRequestIds
           /\ \A q \in HttpRequestIds : DOMAIN reqs'[q] = DOMAIN NotSent
           /\ reqs'[r].stage = stage
           /\ \A q \in HttpRequestIds : q # r => reqs'[q].stage = reqs[q].stage
  BY DEF HttpInv, ReqBecomes, NotSent

(* A step that gives a verdict, or finds that one was given.               *)
LEMMA VerdictStep ==
    ASSUME HttpInv, NEW r \in HttpRequestIds, NEW verdict \in Verdicts,
           reqs[r].stage \in {"fetching", "solving", "reading"},
           NEW events \in SUBSET StatEntries, IsFiniteSet(events),
           \A x \in events : x.name \notin Measures,
           NEW stage \in {"reading", "over"}, NEW result,
           Settled(r, verdict, events), ReqBecomes(r, stage, result), frame' = frame
    PROVE  HttpInv'
<1>1. /\ IsFiniteSet(starts') /\ starts' \in SUBSET starts
      /\ IsFiniteSet(kept') /\ kept' \in SUBSET StatEntries
      /\ Books(starts', kept', stage, r)
      /\ \A q \in HttpRequestIds : q # r => Books(starts', kept', reqs[q].stage, q)
  BY SettledIs
<1>2. /\ DOMAIN reqs' = HttpRequestIds
      /\ \A q \in HttpRequestIds : DOMAIN reqs'[q] = DOMAIN NotSent
      /\ reqs'[r].stage = stage
      /\ \A q \in HttpRequestIds : q # r => reqs'[q].stage = reqs[q].stage
  BY BecomesStage
<1>3. starts' \in SUBSET StatEntries /\ \A x \in starts' : x.name \in Measures
  BY <1>1 DEF HttpInv
<1>4. \A q \in HttpRequestIds : Books(starts', kept', reqs'[q].stage, q)
  BY <1>1, <1>2
<1>5. \A q \in HttpRequestIds : reqs'[q].stage \in Stages
  BY <1>2 DEF HttpInv, Stages
<1>6. frame' \in 0..MaxFrame
  BY DEF HttpInv
<1>. QED
  BY <1>1, <1>2, <1>3, <1>4, <1>5, <1>6 DEF HttpInv

LEMMA HttpInvInit == HInit => HttpInv
<1>. SUFFICES ASSUME HInit
              PROVE  HttpInv
  OBVIOUS
<1>1. ASSUME NEW r \in HttpRequestIds
      PROVE  Books({}, {}, "idle", r)
  BY DEF Books, MeasuresOf
<1>2. IsFiniteSet({})
  BY FS_EmptySet
<1>. QED
  BY <1>1, <1>2, HttpAssumption DEF HInit, HttpInv, NotSent, Stages

LEMMA HttpInvStep == HttpInv /\ [HNext]_httpVars => HttpInv'
<1>. SUFFICES ASSUME HttpInv, [HNext]_httpVars
              PROVE  HttpInv'
  OBVIOUS
<1>a. /\ frame \in 0..MaxFrame /\ MaxFrame \in Nat
      /\ starts \in SUBSET StatEntries /\ kept \in SUBSET StatEntries
      /\ IsFiniteSet(starts) /\ IsFiniteSet(kept)
  BY HttpAssumption DEF HttpInv
<1>b. ASSUME NEW r \in HttpRequestIds, NEW n \in StatNames
      PROVE  StatEvent(r, n) \in StatEntries /\ StatEvent(r, n) = StatEntry(r, n, frame)
  BY <1>a DEF StatEvent, StatEntries, StatEntry
<1>c. IsFiniteSet({}) /\ \A x : IsFiniteSet({x})
  BY FS_EmptySet, FS_Singleton
<1>v. "request.success" \in Verdicts /\ "request.error" \in Verdicts
  BY DEF Verdicts
<1>1. ASSUME NEW r \in HttpRequestIds, SendRequest(r) \/ RejectAddress(r)
      PROVE  HttpInv'
  <2> DEFINE new == {[of |-> r, name |-> n, frame |-> frame] : n \in Measures}
  <2>1. starts' = starts \cup new /\ kept' = kept /\ frame' = frame /\ reqs[r].stage = "idle"
    BY <1>1 DEF SendRequest, RejectAddress, MeasuresStarted
  <2>2. /\ DOMAIN reqs' = HttpRequestIds
        /\ \A q \in HttpRequestIds : DOMAIN reqs'[q] = DOMAIN NotSent
        /\ reqs'[r].stage \in {"fetching", "unaddressed"}
        /\ \A q \in HttpRequestIds : q # r => reqs'[q].stage = reqs[q].stage
    <3>1. CASE SendRequest(r)
      BY <3>1 DEF SendRequest, HttpInv, NotSent
    <3>2. CASE RejectAddress(r)
      BY <3>2, BecomesStage DEF RejectAddress
    <3>. QED
      BY <1>1, <3>1, <3>2
  <2>3. new = {StatEntry(r, n, frame) : n \in Measures}
    BY DEF StatEntry
  <2>4. /\ new = {StatEntry(r, "request", frame)} \cup {StatEntry(r, "request.success", frame)}
                     \cup {StatEntry(r, "request.error", frame)}
        /\ new \in SUBSET StatEntries
    BY <2>3, <1>a, <1>b DEF Measures, StatNames
  <2>5. IsFiniteSet(new)
    <3>. HIDE DEF new
    <3>. QED
      BY <2>4, <1>c, FS_Union, Zenon
  <2>6. \A x \in new : x.of = r /\ x.name \in Measures /\ x.frame = frame
    BY <2>3, EntryHas
  <2>. HIDE DEF new
  <2>7. IsFiniteSet(starts \cup new)
    BY <2>5, <1>a, FS_Union, Zenon
  <2>8. Books(starts', kept', reqs'[r].stage, r)
    <3>1. MeasuresOf(starts, r) = {} /\ MeasuresOf(kept, r) = {}
      BY <2>1 DEF HttpInv, Books
    <3>2. MeasuresOf(starts', r) = new /\ MeasuresOf(kept', r) = {}
      BY <2>1, <2>6, <3>1 DEF MeasuresOf
    <3>3. \A x \in new : \A n \in Measures : StatEntry(r, n, x.frame) \in starts'
      BY <2>1, <2>3, <2>6
    <3>. QED
      BY <2>2, <2>6, <3>2, <3>3 DEF Books
  <2>9. ASSUME NEW q \in HttpRequestIds, q # r
        PROVE  Books(starts', kept', reqs'[q].stage, q)
    <3>1. MeasuresOf(starts', q) = MeasuresOf(starts, q) /\ MeasuresOf(kept', q) = MeasuresOf(kept, q)
      BY <2>1, <2>6, <2>9 DEF MeasuresOf
    <3>2. Books(starts, kept, reqs[q].stage, q)
      BY DEF HttpInv
    <3>3. Books(starts', kept', reqs[q].stage, q)
      BY <3>1, <3>2, BooksAreLocal
    <3>. QED
      BY <3>3, <2>2, <2>9
  <2>10. /\ starts' \in SUBSET StatEntries /\ IsFiniteSet(starts')
         /\ kept' \in SUBSET StatEntries /\ IsFiniteSet(kept')
         /\ \A x \in starts' : x.name \in Measures
    BY <2>1, <2>4, <2>6, <2>7, <1>a DEF HttpInv
  <2>11. \A q \in HttpRequestIds : reqs'[q].stage \in Stages
    BY <2>2 DEF HttpInv, Stages
  <2>12. \A q \in HttpRequestIds : Books(starts', kept', reqs'[q].stage, q)
    BY <2>2, <2>8, <2>9
  <2>. QED
    BY <2>1, <2>2, <2>10, <2>11, <2>12, <1>a DEF HttpInv
<1>2. ASSUME NEW r \in HttpRequestIds, AskFlareSolverr(r)
      PROVE  HttpInv'
  <2> DEFINE e == StatEvent(r, "request.flaresolverr")
             K == kept \cup {e}
  <2>1. /\ starts' = Retained(starts) /\ kept' = Retained(K) /\ frame' = frame
        /\ reqs[r].stage = "fetching" /\ ReqBecomes(r, "solving", "none")
    BY <1>2 DEF AskFlareSolverr
  <2>2. e \in StatEntries /\ e.name \notin Measures
    BY <1>b, EntryHas DEF StatNames, Measures, StatEvent
  <2>3. /\ DOMAIN reqs' = HttpRequestIds
        /\ \A q \in HttpRequestIds : DOMAIN reqs'[q] = DOMAIN NotSent
        /\ reqs'[r].stage = "solving"
        /\ \A q \in HttpRequestIds : q # r => reqs'[q].stage = reqs[q].stage
    BY <2>1, BecomesStage
  <2>. HIDE DEF e
  <2>4. IsFiniteSet(K)
    BY <1>a, <1>c, FS_Union, Zenon
  <2>5. ASSUME NEW q \in HttpRequestIds
        PROVE  Books(starts', kept', reqs'[q].stage, q)
    <3>1. Books(starts, kept, reqs[q].stage, q)
      BY DEF HttpInv
    <3>2. MeasuresOf(K, q) = MeasuresOf(kept, q)
      BY <2>2 DEF MeasuresOf
    <3>. HIDE DEF K
    <3>3. Books(Retained(starts), Retained(K), reqs[q].stage, q)
      BY <3>1, <3>2, OthersKeepBooks
    <3>4. Books(starts', kept', reqs[q].stage, q)
      BY <3>3, <2>1
    <3>5. CASE q # r
      BY <3>4, <3>5, <2>3
    <3>6. CASE q = r
      <4>1. Books(starts', kept', "fetching", r)
        BY <3>4, <3>6, <2>1
      <4>2. Books(starts', kept', "solving", r)
        BY <4>1 DEF Books
      <4>. QED
        BY <4>2, <3>6, <2>3
    <3>. QED
      BY <3>5, <3>6
  <2>6. K \in SUBSET StatEntries
    BY <1>a, <2>2
  <2>. HIDE DEF K
  <2>7. starts' \in SUBSET starts /\ kept' \in SUBSET K
    BY <2>1, RetainedIs
  <2>8. IsFiniteSet(starts') /\ IsFiniteSet(kept')
    BY <2>4, <2>7, <1>a, FS_Subset, Zenon
  <2>9. /\ starts' \in SUBSET StatEntries /\ kept' \in SUBSET StatEntries
        /\ \A x \in starts' : x.name \in Measures
    BY <2>6, <2>7, <1>a DEF HttpInv
  <2>10. \A q \in HttpRequestIds : reqs'[q].stage \in Stages
    BY <2>3 DEF HttpInv, Stages
  <2>. QED
    BY <2>1, <2>3, <2>5, <2>8, <2>9, <2>10, <1>a DEF HttpInv
<1>3. ASSUME NEW r \in HttpRequestIds, NEW forbidden \in BOOLEAN, SiteResponds(r, forbidden)
      PROVE  HttpInv'
  <2> DEFINE e == StatEvent(r, "request.solved")
             events == IF reqs[r].cleared THEN {e} ELSE {}
  <2>1. /\ Settled(r, "request.success", events) /\ reqs[r].stage = "fetching"
        /\ ReqBecomes(r, "reading", "none") /\ frame' = frame
    BY <1>3 DEF SiteResponds
  <2>2. e \in StatEntries /\ e.name \notin Measures
    BY <1>b, EntryHas DEF StatNames, Measures, StatEvent
  <2>. HIDE DEF e
  <2>3. events \in SUBSET StatEntries /\ IsFiniteSet(events) /\ \A x \in events : x.name \notin Measures
    BY <2>2, <1>c
  <2>. HIDE DEF events
  <2>4. reqs[r].stage \in {"fetching", "solving", "reading"} /\ "reading" \in {"reading", "over"}
    BY <2>1
  <2>. QED
    BY <2>1, <2>3, <2>4, <1>v, VerdictStep
<1>4. ASSUME NEW r \in HttpRequestIds, FetchFails(r) \/ Solve(r) \/ SolverFails(r)
      PROVE  HttpInv'
  <2>1. PICK verdict, stage, result :
           /\ verdict \in Verdicts /\ stage \in {"reading", "over"}
           /\ Settled(r, verdict, {}) /\ reqs[r].stage \in {"fetching", "solving", "reading"}
           /\ ReqBecomes(r, stage, result) /\ frame' = frame
    BY <1>4, <1>v DEF FetchFails, Solve, SolverFails
  <2>2. {} \in SUBSET StatEntries /\ \A x \in {} : x.name \notin Measures
    OBVIOUS
  <2>. QED
    BY <2>1, <2>2, <1>c, VerdictStep
<1>5. ASSUME NEW r \in HttpRequestIds, ReadBody(r)
      PROVE  HttpInv'
  <2>1. reqs[r].stage = "reading" /\ frame' = frame
    BY <1>5 DEF ReadBody
  <2>2. PICK reading \in Readings :
           /\ ReqBecomes(r, "over", reading)
           /\ IF reading = "rejected" THEN Settled(r, "request.error", {}) ELSE UNCHANGED <<starts, kept>>
    BY <1>5 DEF ReadBody
  <2>3. CASE Settled(r, "request.error", {})
    <3>1. /\ {} \in SUBSET StatEntries /\ \A x \in {} : x.name \notin Measures
          /\ "over" \in {"reading", "over"} /\ reqs[r].stage \in {"fetching", "solving", "reading"}
      BY <2>1
    <3>. QED
      BY <2>1, <2>2, <2>3, <3>1, <1>c, <1>v, VerdictStep
  <2>4. CASE UNCHANGED <<starts, kept>>
    <3>1. /\ DOMAIN reqs' = HttpRequestIds
          /\ \A q \in HttpRequestIds : DOMAIN reqs'[q] = DOMAIN NotSent
          /\ reqs'[r].stage = "over"
          /\ \A q \in HttpRequestIds : q # r => reqs'[q].stage = reqs[q].stage
      BY <2>2, BecomesStage
    <3>2. Books(starts, kept, "reading", r)
      BY <2>1 DEF HttpInv
    <3>3. Books(starts, kept, "over", r)
      BY <3>2 DEF Books
    <3>4. \A q \in HttpRequestIds : Books(starts, kept, reqs'[q].stage, q)
      BY <3>1, <3>3 DEF HttpInv
    <3>5. \A q \in HttpRequestIds : reqs'[q].stage \in Stages
      BY <3>1 DEF HttpInv, Stages
    <3>. QED
      BY <2>1, <2>4, <3>1, <3>4, <3>5 DEF HttpInv
  <2>. QED
    BY <2>2, <2>3, <2>4
<1>6. CASE Reconfigure
  BY <1>6 DEF Reconfigure, HttpInv
<1>7. CASE NextFrame
  <2>1. frame' \in 0..MaxFrame /\ UNCHANGED <<reqs, starts, kept>>
    BY <1>7, <1>a DEF NextFrame
  <2>. QED
    BY <2>1 DEF HttpInv
<1>8. CASE UNCHANGED httpVars
  BY <1>8 DEF httpVars, HttpInv
<1>. QED
  BY <1>1, <1>2, <1>3, <1>4, <1>5, <1>6, <1>7, <1>8 DEF HNext

(***************************************************************************)
(* Of any number of requests, through the site, the solver, failures and   *)
(* bodies that cannot be read, each that is fetched gets one verdict; one  *)
(* whose address cannot be read gets none and leaves its measures open;    *)
(* and every timeframe reports as many requests as verdicts                *)
(* (request.service.ts:278-287, 309-424).                                  *)
(***************************************************************************)
THEOREM EveryRequestHasOneVerdict == HSpec => []OneVerdict
<1>. QED
  BY HttpInvInit, HttpInvStep, BooksGiveOneVerdict, PTL DEF HSpec
--------------------------------------------------------------------------------
(* Mirrors. The address of a client follows its index in the list in which *)
(* it last moved, and the set of the request levels that are open grows    *)
(* and shrinks with its counter.                                           *)
MirrorCalls ==
    [stage : {"idle", "entered", "sent", "storing", "storingNull", "done", "failed"},
     depth : Nat, at : Domains \cup {Configured}, waitsFor : Nat]

Discoveries == [current : Nat, open : SUBSET Nat]

(* The address of the client and its place in the list of mirrors.         *)
AddressInStep ==
    /\ api \in {"yts", "rarbg"} /\ mirrorIdx \in Nat
    /\ mirrors \in Lists /\ movedIn \in Lists
    /\ \/ apiUrl = Configured
       \/ mirrorIdx + 1 \in DOMAIN movedIn /\ apiUrl = movedIn[mirrorIdx + 1]
    /\ api = "rarbg" => (apiUrl = Configured <=> mirrorIdx = 0)

(* What TrackStatus counts are the levels of the calls that are open.      *)
LevelsCounted ==
    /\ DOMAIN calls = Calls /\ \A c \in Calls : calls[c] \in MirrorCalls
    /\ discovery \in Discoveries
    /\ IsFiniteSet(OpenLevels) /\ queueCount = Cardinality(OpenLevels)

MirrorInv == AddressInStep /\ LevelsCounted

LEMMA LevelIs ==
    ASSUME NEW x
    PROVE  x \in OpenLevels <=> \E c \in Calls : Open(c) /\ x \in {c} \X (1..calls[c].depth)
  BY DEF OpenLevels

(* One call has as many levels as its depth.                               *)
LEMMA DepthOfLevels ==
    ASSUME NEW c, NEW n \in Nat
    PROVE  IsFiniteSet({c} \X (1..n)) /\ Cardinality({c} \X (1..n)) = n
<1>1. IsFiniteSet({c}) /\ Cardinality({c}) = 1
  BY FS_Singleton
<1>2. IsFiniteSet(1..n) /\ Cardinality(1..n) = IF 1 > n THEN 0 ELSE n - 1 + 1
  BY FS_Interval
<1>3. (IF 1 > n THEN 0 ELSE n - 1 + 1) = n
  OBVIOUS
<1>4. IsFiniteSet({c} \X (1..n)) /\ Cardinality({c} \X (1..n)) = Cardinality({c}) * Cardinality(1..n)
  BY <1>1, <1>2, FS_Product, Zenon
<1>5. 1 * n = n
  OBVIOUS
<1>. QED
  BY <1>1, <1>2, <1>3, <1>4, <1>5

(* A step that opens one level of a call.                                  *)
LEMMA LevelOpened ==
    ASSUME LevelsCounted, NEW c \in Calls,
           DOMAIN calls' = Calls, \A b \in Calls : b # c => calls'[b] = calls[b],
           calls'[c] \in MirrorCalls, calls'[c].stage = "entered",
           \/ ~Open(c) /\ calls'[c].depth = 1
           \/ Open(c) /\ calls'[c].depth = calls[c].depth + 1,
           discovery' \in Discoveries, queueCount' = queueCount + 1
    PROVE  LevelsCounted'
<1> DEFINE n == calls'[c].depth
<1>1. n \in Nat /\ n >= 1 /\ (Open(c) => calls[c].depth = n - 1 /\ calls[c].depth \in Nat)
  BY DEF LevelsCounted, MirrorCalls
<1>2. /\ Open(c)' /\ \A b \in Calls : b # c => (Open(b)' <=> Open(b))
      /\ \A b \in Calls : Open(b)' => calls'[b].depth \in Nat
  BY DEF Open, LevelsCounted, MirrorCalls
<1>i. /\ \A m \in Nat : m >= 1 => 1..m = (1..(m - 1)) \cup {m}
      /\ 1..1 = {1}
  OBVIOUS
<1>3. {c} \X (1..n) = (IF Open(c) THEN {c} \X (1..calls[c].depth) ELSE {}) \cup {<<c, n>>}
  <2>. HIDE DEF n
  <2>1. CASE Open(c)
    <3>1. 1..n = (1..calls[c].depth) \cup {n}
      BY <1>1, <1>i, <2>1
    <3>. QED
      BY <3>1, <2>1
  <2>2. CASE ~Open(c)
    <3>1. n = 1
      BY <2>2 DEF n
    <3>2. 1..n = {n}
      BY <1>i, <3>1
    <3>. QED
      BY <3>2, <2>2
  <2>. QED
    BY <2>1, <2>2
<1>4. OpenLevels' = OpenLevels \cup {<<c, n>>}
  <2>1. ASSUME NEW x
        PROVE  x \in OpenLevels' <=> \E b \in Calls : Open(b)' /\ x \in {b} \X (1..calls'[b].depth)
    BY DEF OpenLevels
  <2>2. ASSUME NEW x, x \in OpenLevels'
        PROVE  x \in OpenLevels \cup {<<c, n>>}
    <3>1. PICK b \in Calls : Open(b)' /\ x \in {b} \X (1..calls'[b].depth)
      BY <2>1, <2>2
    <3>2. CASE b = c
      BY <3>1, <3>2, <1>3, LevelIs
    <3>3. CASE b # c
      BY <3>1, <3>3, <1>2, LevelIs
    <3>. QED
      BY <3>2, <3>3
  <2>3. ASSUME NEW x, x \in OpenLevels
        PROVE  x \in OpenLevels'
    <3>1. PICK b \in Calls : Open(b) /\ x \in {b} \X (1..calls[b].depth)
      BY <2>3, LevelIs
    <3>2. CASE b = c
      BY <3>1, <3>2, <1>3, <1>2, <2>1
    <3>3. CASE b # c
      BY <3>1, <3>3, <1>2, <2>1
    <3>. QED
      BY <3>2, <3>3
  <2>4. <<c, n>> \in OpenLevels'
    BY <1>2, <1>3, <2>1
  <2>. QED
    BY <2>2, <2>3, <2>4
<1>5. <<c, n>> \notin OpenLevels
  <2>1. ASSUME NEW b \in Calls, Open(b), <<c, n>> \in {b} \X (1..calls[b].depth)
        PROVE  FALSE
    BY <2>1, <1>1
  <2>. QED
    BY <2>1, LevelIs
<1>. HIDE DEF n
<1>6. IsFiniteSet(OpenLevels') /\ Cardinality(OpenLevels') = Cardinality(OpenLevels) + 1
  BY <1>4, <1>5, FS_AddElement, Zenon DEF LevelsCounted
<1>. QED
  BY <1>6 DEF LevelsCounted

(* A step that ends a call: all its levels are closed.                     *)
LEMMA LevelsClosed ==
    ASSUME LevelsCounted, NEW c \in Calls, Open(c),
           DOMAIN calls' = Calls, \A b \in Calls : b # c => calls'[b] = calls[b],
           calls'[c] \in MirrorCalls, ~Open(c)',
           discovery' \in Discoveries, Leave(c)
    PROVE  LevelsCounted'
<1> DEFINE n == calls[c].depth
           own == {c} \X (1..n)
<1>1. n \in Nat
  BY DEF LevelsCounted, MirrorCalls
<1>2. IsFiniteSet(own) /\ Cardinality(own) = n
  BY <1>1, DepthOfLevels
<1>3. own \in SUBSET OpenLevels
  BY LevelIs
<1>4. \A b \in Calls : b # c => (Open(b)' <=> Open(b))
  BY DEF Open
<1>5. OpenLevels' = OpenLevels \ own
  <2>1. ASSUME NEW x
        PROVE  x \in OpenLevels' <=> \E b \in Calls : Open(b)' /\ x \in {b} \X (1..calls'[b].depth)
    BY DEF OpenLevels
  <2>2. ASSUME NEW x, x \in OpenLevels'
        PROVE  x \in OpenLevels \ own
    <3>1. PICK b \in Calls : Open(b)' /\ x \in {b} \X (1..calls'[b].depth)
      BY <2>1, <2>2
    <3>2. b # c /\ Open(b) /\ calls'[b] = calls[b]
      BY <3>1, <1>4
    <3>. QED
      BY <3>1, <3>2, LevelIs
  <2>3. ASSUME NEW x, x \in OpenLevels, x \notin own
        PROVE  x \in OpenLevels'
    <3>1. PICK b \in Calls : Open(b) /\ x \in {b} \X (1..calls[b].depth)
      BY <2>3, LevelIs
    <3>2. b # c
      BY <3>1, <2>3
    <3>. QED
      BY <3>1, <3>2, <1>4, <2>1
  <2>. QED
    BY <2>2, <2>3
<1>. HIDE DEF own, n
<1>6. OpenLevels \cap own = own
  BY <1>3
<1>7. /\ IsFiniteSet(OpenLevels \ own)
      /\ Cardinality(OpenLevels \ own) = Cardinality(OpenLevels) - Cardinality(OpenLevels \cap own)
  BY FS_Difference, Zenon DEF LevelsCounted
<1>8. IsFiniteSet(OpenLevels') /\ Cardinality(OpenLevels') = Cardinality(OpenLevels) - n
  BY <1>2, <1>5, <1>6, <1>7, Zenon
<1>9. Cardinality(OpenLevels') \in Nat
  BY <1>8, FS_CardinalityType
<1>10. queueCount' = IF queueCount - n > 0 THEN queueCount - n ELSE 0
  BY DEF Leave, n
<1>11. queueCount' = Cardinality(OpenLevels')
  BY <1>1, <1>8, <1>9, <1>10 DEF LevelsCounted
<1>. QED
  BY <1>8, <1>11 DEF LevelsCounted

(* A step of a call that opens nothing and closes nothing.                 *)
LEMMA LevelsStay ==
    ASSUME LevelsCounted, DOMAIN calls' = Calls, \A b \in Calls : calls'[b] \in MirrorCalls,
           \A b \in Calls : (Open(b)' <=> Open(b)) /\ calls'[b].depth = calls[b].depth,
           discovery' \in Discoveries, queueCount' = queueCount
    PROVE  LevelsCounted'
<1>1. OpenLevels' = OpenLevels
  <2>1. ASSUME NEW x
        PROVE  x \in OpenLevels' <=> \E b \in Calls : Open(b)' /\ x \in {b} \X (1..calls'[b].depth)
    BY DEF OpenLevels
  <2>2. ASSUME NEW x
        PROVE  x \in OpenLevels' <=> x \in OpenLevels
    BY <2>1, LevelIs
  <2>. QED
    BY <2>2
<1>. QED
  BY <1>1 DEF LevelsCounted

LEMMA ToStage ==
    ASSUME LevelsCounted, NEW c \in Calls, NEW stage \in
             {"idle", "entered", "sent", "storing", "storingNull", "done", "failed"},
           To(c, stage)
    PROVE  /\ DOMAIN calls' = Calls
           /\ \A b \in Calls : b # c => calls'[b] = calls[b]
           /\ \A b \in Calls : calls'[b] \in MirrorCalls
           /\ calls'[c].stage = stage /\ calls'[c].depth = calls[c].depth
  BY DEF LevelsCounted, To, MirrorCalls

(* A call enters the request anew, at another depth.                       *)
LEMMA EntersAgain ==
    ASSUME LevelsCounted, NEW c \in Calls, NEW n \in Nat, NEW w \in Nat, Enters(c, n, w)
    PROVE  /\ DOMAIN calls' = Calls
           /\ \A b \in Calls : b # c => calls'[b] = calls[b]
           /\ calls'[c] \in MirrorCalls
           /\ calls'[c].stage = "entered" /\ calls'[c].depth = n
  BY DEF LevelsCounted, MirrorCalls, Enters

(* The address of a client is one of the domains or the configured one.    *)
LEMMA AddressKnown ==
    ASSUME AddressInStep
    PROVE  apiUrl \in Domains \cup {Configured}
<1>1. DOMAIN movedIn = 1..Len(movedIn) /\ \A i \in 1..Len(movedIn) : movedIn[i] \in Domains
  BY LenProperties, ElementOfSeq DEF AddressInStep, Lists
<1>. QED
  BY <1>1 DEF AddressInStep

(* Whatever the status page lists, the client gets a list of mirrors that  *)
(* is not empty.                                                           *)
LEMMA DiscoveredList ==
    ASSUME NEW d, Discovered(d)
    PROVE  mirrors' \in Lists
<1>1. PICK page \in SUBSET (Hosts \cup {"broken"}) :
         IF ListedOn(page) = {} THEN mirrors' = Fallbacks
                                ELSE mirrors' \in SetToSeqs(ListedOn(page))
  BY DEF Discovered
<1>2. ListedOn(page) \in SUBSET Hosts /\ Hosts \subseteq Domains
  BY DEF ListedOn, Domains
<1>3. IsFiniteSet(ListedOn(page))
  BY <1>2, FS_Subset, MirrorsAssumption
<1>4. CASE ListedOn(page) # {}
  <2> DEFINE n == Cardinality(ListedOn(page))
  <2>1. n \in Nat \ {0}
    BY <1>3, <1>4, FS_CardinalityType, FS_EmptySet
  <2>2. mirrors' \in [1..n -> ListedOn(page)]
    BY <1>1, <1>4 DEF SetToSeqs
  <2>. HIDE DEF n
  <2>3. mirrors' \in Seq(Domains) /\ Len(mirrors') = n
    BY <1>2, <2>1, <2>2, SeqDef, LenProperties
  <2>. QED
    BY <2>1, <2>3 DEF Lists
<1>. QED
  BY <1>1, <1>4, MirrorsAssumption

LEMMA MirrorInvInit == (\E a \in {"yts", "rarbg"} : MInit(a)) => MirrorInv
<1>. SUFFICES ASSUME NEW a \in {"yts", "rarbg"}, MInit(a)
              PROVE  MirrorInv
  OBVIOUS
<1>1. AddressInStep
  BY MirrorsAssumption DEF AddressInStep, MInit
<1>2. Unsent \in MirrorCalls
  BY DEF Unsent, MirrorCalls
<1> DEFINE first == [Unsent EXCEPT !.stage = "entered", !.depth = 1, !.waitsFor = 1]
<1>3. first \in MirrorCalls /\ first.stage = "entered" /\ first.depth = 1
  BY <1>2 DEF MirrorCalls
<1>4. 0 \in Calls
  BY MirrorsAssumption DEF Calls, Tests
<1>5. calls = [c \in Calls |-> IF c = 0 THEN first ELSE Unsent] /\ queueCount = 1
      /\ discovery \in Discoveries
  BY DEF MInit, Discoveries
<1>. HIDE DEF first
<1>6. \A c \in Calls : Open(c) <=> c = 0
  <2>1. Unsent.stage = "idle"
    BY DEF Unsent
  <2>. QED
    BY <1>3, <1>5, <2>1 DEF Open
<1>7. OpenLevels = {0} \X (1..1)
  <2>1. ASSUME NEW x
        PROVE  x \in OpenLevels <=> x \in {0} \X (1..1)
    <3>1. calls[0].depth = 1
      BY <1>3, <1>4, <1>5
    <3>. QED
      BY <3>1, <1>4, <1>6, LevelIs
  <2>. QED
    BY <2>1
<1>8. IsFiniteSet(OpenLevels) /\ Cardinality(OpenLevels) = 1
  BY <1>7, DepthOfLevels
<1>9. LevelsCounted
  BY <1>2, <1>3, <1>5, <1>8 DEF LevelsCounted
<1>. QED
  BY <1>1, <1>9 DEF MirrorInv

LEMMA MirrorInvStep == MirrorInv /\ [MNext]_mirrorVars => MirrorInv'
<1>. SUFFICES ASSUME MirrorInv, [MNext]_mirrorVars
              PROVE  MirrorInv'
  OBVIOUS
<1>a. AddressInStep /\ LevelsCounted
  BY DEF MirrorInv
<1>b. /\ \A c \in Calls : calls[c] \in MirrorCalls
      /\ \A c \in Calls : calls[c].depth \in Nat
      /\ discovery \in Discoveries
  BY <1>a DEF LevelsCounted, MirrorCalls
<1>c. discovery.current \in Nat
  BY <1>b DEF Discoveries
<1>s. ASSUME NEW c \in Calls,
             NEW stage \in {"idle", "entered", "sent", "storing", "storingNull", "done", "failed"},
             To(c, stage), Open(c) <=> stage \in {"entered", "sent"},
             queueCount' = queueCount, discovery' = discovery
      PROVE  LevelsCounted'
  <2>1. /\ DOMAIN calls' = Calls
        /\ \A b \in Calls : b # c => calls'[b] = calls[b]
        /\ \A b \in Calls : calls'[b] \in MirrorCalls
        /\ calls'[c].stage = stage /\ calls'[c].depth = calls[c].depth
    BY <1>a, <1>s, ToStage
  <2>2. \A b \in Calls : (Open(b)' <=> Open(b)) /\ calls'[b].depth = calls[b].depth
    BY <2>1, <1>s DEF Open
  <2>. QED
    BY <1>a, <1>b, <1>s, <2>1, <2>2, LevelsStay
<1>1. ASSUME NEW c \in Calls, Refuse(c)
      PROVE  MirrorInv'
  <2>1. To(c, "failed") /\ ~Open(c) /\ UNCHANGED <<api, apiUrl, mirrorIdx, mirrors, movedIn, queueCount, discovery>>
    BY <1>1 DEF Refuse, Open
  <2>2. LevelsCounted'
    BY <1>s, <2>1
  <2>. QED
    BY <1>a, <2>1, <2>2 DEF MirrorInv, AddressInStep
<1>2. ASSUME NEW c \in Calls, Search(c)
      PROVE  MirrorInv'
  <2>1. ~Open(c) /\ UNCHANGED <<api, apiUrl, mirrorIdx, mirrors, movedIn, discovery>>
    BY <1>2 DEF Search, Open
  <2>2. CASE To(c, "done") /\ UNCHANGED queueCount
    BY <1>s, <1>a, <2>1, <2>2 DEF MirrorInv, AddressInStep
  <2>3. CASE Enters(c, 1, discovery.current) /\ queueCount' = queueCount + 1
    <3>1. /\ DOMAIN calls' = Calls
          /\ \A b \in Calls : b # c => calls'[b] = calls[b]
          /\ calls'[c] \in MirrorCalls
          /\ calls'[c].stage = "entered" /\ calls'[c].depth = 1
      BY <1>a, <1>c, <2>3, EntersAgain
    <3>2. LevelsCounted'
      BY <1>a, <1>b, <2>1, <2>3, <3>1, LevelOpened
    <3>. QED
      BY <1>a, <2>1, <3>2 DEF MirrorInv, AddressInStep
  <2>. QED
    BY <1>2, <2>2, <2>3 DEF Search
<1>3. ASSUME NEW c \in Calls, Send(c)
      PROVE  MirrorInv'
  <2>1. /\ Open(c) /\ UNCHANGED <<api, apiUrl, mirrorIdx, mirrors, movedIn, queueCount, discovery>>
        /\ calls' = [calls EXCEPT ![c].stage = "sent", ![c].at = apiUrl]
    BY <1>3 DEF Send, Open
  <2>2. apiUrl \in Domains \cup {Configured}
    BY <1>a, AddressKnown
  <2>3. /\ DOMAIN calls' = Calls
        /\ \A b \in Calls : b # c => calls'[b] = calls[b]
        /\ calls'[c] \in MirrorCalls /\ calls'[c].stage = "sent" /\ calls'[c].depth = calls[c].depth
    BY <1>a, <2>1, <2>2 DEF LevelsCounted, MirrorCalls
  <2>4. \A b \in Calls : calls'[b] \in MirrorCalls /\ (Open(b)' <=> Open(b))
                         /\ calls'[b].depth = calls[b].depth
    BY <1>b, <2>1, <2>3 DEF Open
  <2>5. LevelsCounted'
    BY <1>a, <1>b, <2>1, <2>3, <2>4, LevelsStay
  <2>. QED
    BY <1>a, <2>1, <2>5 DEF MirrorInv, AddressInStep
<1>4. ASSUME NEW c \in Calls, NEW reply \in Replies, Answer(c, reply)
      PROVE  MirrorInv'
  <2>1. Open(c) /\ UNCHANGED <<api, mirrors, discovery>>
    BY <1>4 DEF Answer, Open
  <2>2. ASSUME NEW stage \in {"storing", "storingNull", "done", "failed"}, To(c, stage), Leave(c),
               UNCHANGED <<mirrorIdx, apiUrl, movedIn>>
        PROVE  MirrorInv'
    <3>1. /\ DOMAIN calls' = Calls
          /\ \A b \in Calls : b # c => calls'[b] = calls[b]
          /\ \A b \in Calls : calls'[b] \in MirrorCalls
          /\ calls'[c].stage = stage
      BY <1>a, <2>2, ToStage
    <3>2. ~Open(c)'
      BY <3>1 DEF Open
    <3>3. LevelsCounted'
      BY <1>a, <1>b, <2>1, <2>2, <3>1, <3>2, LevelsClosed
    <3>. QED
      BY <1>a, <2>1, <2>2, <3>3 DEF MirrorInv, AddressInStep
  <2>3. ASSUME mirrorIdx < Len(mirrors) - 1, mirrorIdx' = mirrorIdx + 1,
               apiUrl' = mirrors[mirrorIdx + 2], movedIn' = mirrors,
               Enters(c, calls[c].depth + 1, discovery.current),
               queueCount' = queueCount + 1
        PROVE  MirrorInv'
    <3>1. calls[c].depth + 1 \in Nat
      BY <1>b
    <3>2. /\ DOMAIN calls' = Calls
          /\ \A b \in Calls : b # c => calls'[b] = calls[b]
          /\ calls'[c] \in MirrorCalls
          /\ calls'[c].stage = "entered" /\ calls'[c].depth = calls[c].depth + 1
      BY <1>a, <1>c, <2>3, <3>1, EntersAgain
    <3>3. LevelsCounted'
      BY <1>a, <1>b, <2>1, <2>3, <3>2, LevelOpened
    <3>4. /\ mirrorIdx \in Nat /\ mirrors \in Seq(Domains) /\ Len(mirrors) \in Nat
          /\ DOMAIN mirrors = 1..Len(mirrors) /\ \A i \in 1..Len(mirrors) : mirrors[i] \in Domains
      BY <1>a, LenProperties, ElementOfSeq DEF AddressInStep, Lists
    <3>5. /\ mirrorIdx' + 1 \in DOMAIN mirrors /\ mirrorIdx' + 1 = mirrorIdx + 2
          /\ mirrorIdx' \in Nat /\ mirrorIdx' # 0
      BY <2>3, <3>4
    <3>6. apiUrl' = mirrors[mirrorIdx' + 1] /\ apiUrl' # Configured
      BY <2>3, <3>4, <3>5, MirrorsAssumption
    <3>7. AddressInStep'
      BY <1>a, <2>1, <2>3, <3>5, <3>6 DEF AddressInStep
    <3>. QED
      BY <3>3, <3>7 DEF MirrorInv
  <2>. QED
    BY <1>4, <2>2, <2>3 DEF Answer
<1>5. ASSUME NEW c \in Calls, Store(c)
      PROVE  MirrorInv'
  <2>1. /\ To(c, "done") \/ To(c, "failed")
        /\ ~Open(c) /\ UNCHANGED <<api, apiUrl, mirrorIdx, mirrors, movedIn, queueCount, discovery>>
    BY <1>5 DEF Store, Open
  <2>2. LevelsCounted'
    BY <1>s, <2>1
  <2>. QED
    BY <1>a, <2>1, <2>2 DEF MirrorInv, AddressInStep
<1>6. ASSUME Forget \/ (\E d \in Tests \cup {MaxReloads + 1} : Discovered(d)) \/ UNCHANGED mirrorVars
      PROVE  MirrorInv'
  <2>1. /\ UNCHANGED <<api, apiUrl, mirrorIdx, movedIn, calls, queueCount>> /\ mirrors' \in Lists
        /\ discovery' = discovery \/ \E d : discovery' = [discovery EXCEPT !.open = @ \ {d}]
    BY <1>a, <1>6, DiscoveredList DEF Forget, Discovered, mirrorVars, AddressInStep
  <2>1a. discovery' \in Discoveries
    BY <1>b, <2>1 DEF Discoveries
  <2>2. LevelsCounted'
    BY <1>a, <2>1, <2>1a DEF LevelsCounted, OpenLevels, Open
  <2>. QED
    BY <1>a, <2>1, <2>2 DEF MirrorInv, AddressInStep
<1>7. CASE Reload
  <2> DEFINE t == Min(Fresh)
  <2>1. /\ Fresh # {} /\ apiUrl' = Configured /\ UNCHANGED <<api, mirrors, movedIn>>
        /\ mirrorIdx' = IF api = "rarbg" THEN 0 ELSE mirrorIdx
        /\ discovery' = [current |-> discovery.current + 1,
                         open |-> IF api = "yts" THEN discovery.open \cup {discovery.current + 1}
                                  ELSE {}]
        /\ Enters(t, 1, discovery.current + 1)
        /\ queueCount' = queueCount + 1
    BY <1>7 DEF Reload, ReloadedIdx
  <2>2. t \in Fresh
    <3>1. Fresh \in SUBSET Nat
      BY MirrorsAssumption DEF Fresh, Tests
    <3>2. \E x \in Fresh : \A y \in Fresh : x <= y
      BY <2>1, <3>1, LeastNatural
    <3>. QED
      BY <3>2 DEF Min
  <2>. HIDE DEF t
  <2>3. t \in Calls /\ ~Open(t)
    BY <2>2 DEF Fresh, Calls, Open
  <2>4. discovery.current + 1 \in Nat /\ discovery' \in Discoveries
    BY <1>b, <1>c, <2>1 DEF Discoveries
  <2>5. /\ DOMAIN calls' = Calls
        /\ \A b \in Calls : b # t => calls'[b] = calls[b]
        /\ calls'[t] \in MirrorCalls
        /\ calls'[t].stage = "entered" /\ calls'[t].depth = 1
    BY <1>a, <2>1, <2>3, <2>4, EntersAgain
  <2>6. LevelsCounted'
    BY <1>a, <2>1, <2>3, <2>4, <2>5, LevelOpened
  <2>7. AddressInStep'
    BY <1>a, <2>1 DEF AddressInStep
  <2>. QED
    BY <2>6, <2>7 DEF MirrorInv
<1>. QED
  BY <1>1, <1>2, <1>3, <1>4, <1>5, <1>6, <1>7 DEF MNext

(***************************************************************************)
(* However many calls, failures, reloads and discoveries interleave, the   *)
(* address of a client is the mirror its index names in the list in which  *)
(* it moved there, and its count of requests is the number of requests     *)
(* that are open, retries included (yts.api.ts:89-108, 165-175;            *)
(* therarbg.api.ts:63-67, 135-141; trackStatus.util.ts:16-45).             *)
(***************************************************************************)
THEOREM ClientsStayInStep == MSpec => []MirrorInStep
<1>1. MirrorInv => MirrorInStep
  BY DEF MirrorInv, AddressInStep, LevelsCounted, MirrorInStep
<1>. QED
  BY <1>1, MirrorInvInit, MirrorInvStep, PTL DEF MSpec
--------------------------------------------------------------------------------
(* BrowserSessions. The token of an open session is in the jar, or exactly *)
(* one answer is on its way with it and no request has been able to        *)
(* present it.                                                             *)
(* What is left of a sequence without one of its elements.                 *)
ClosedUp(seq, i, j) == IF j < i THEN seq[j] ELSE seq[j + 1]

LEMMA RemoveAtElements ==
    ASSUME NEW S, NEW seq \in Seq(S), NEW i \in 1 .. Len(seq)
    PROVE  /\ RemoveAt(seq, i) \in Seq(S)
           /\ Len(RemoveAt(seq, i)) = Len(seq) - 1
           /\ \A j \in 1 .. Len(seq) - 1 : RemoveAt(seq, i)[j] = ClosedUp(seq, i, j)
<1> DEFINE front == SubSeq(seq, 1, i - 1)
           back == SubSeq(seq, i + 1, Len(seq))
<1>1. Len(seq) \in Nat /\ \A j \in 1 .. Len(seq) : seq[j] \in S
  BY LenProperties, ElementOfSeq
<1>2. /\ front \in Seq(S) /\ Len(front) = i - 1
      /\ \A j \in 1 .. i - 1 : front[j] = seq[j]
  <2>1. \A j \in 1 .. i - 1 : seq[j] \in S
    BY <1>1
  <2> QED
    BY <1>1, <2>1, SubSeqProperties
<1>3. /\ back \in Seq(S) /\ Len(back) = Len(seq) - i
      /\ \A j \in 1 .. Len(seq) - i : back[j] = seq[i + j]
  <2>1. \A j \in i + 1 .. Len(seq) : seq[j] \in S
    BY <1>1
  <2> QED
    BY <1>1, <2>1, SubSeqProperties
<1>4. RemoveAt(seq, i) = front \o back
  BY DEF RemoveAt
<1> HIDE DEF front, back
<1>5. /\ front \o back \in Seq(S) /\ Len(front \o back) = Len(seq) - 1
      /\ \A j \in 1 .. Len(seq) - 1 :
            (front \o back)[j] = IF j <= i - 1 THEN front[j] ELSE back[j - (i - 1)]
  <2>1. /\ front \o back \in Seq(S) /\ Len(front \o back) = Len(front) + Len(back)
        /\ \A j \in 1 .. Len(front) + Len(back) :
              (front \o back)[j] = IF j <= Len(front) THEN front[j] ELSE back[j - Len(front)]
    <3>1. front \in Seq(S) /\ back \in Seq(S)
      BY <1>2, <1>3
    <3> QED
      BY <3>1, ConcatProperties, Zenon
  <2>2. Len(front) + Len(back) = Len(seq) - 1 /\ Len(front) = i - 1
    BY <1>1, <1>2, <1>3
  <2> QED
    BY <2>1, <2>2
<1>6. ASSUME NEW j \in 1 .. Len(seq) - 1
      PROVE  (front \o back)[j] = ClosedUp(seq, i, j)
  <2>1. CASE j < i
    BY <1>1, <1>2, <1>5, <2>1 DEF ClosedUp
  <2>2. CASE ~(j < i)
    <3>1. j - (i - 1) \in 1 .. Len(seq) - i /\ i + (j - (i - 1)) = j + 1
      BY <1>1, <2>2
    <3> QED
      BY <1>1, <1>3, <1>5, <2>2, <3>1 DEF ClosedUp
  <2> QED
    BY <2>1, <2>2
<1> QED
  BY <1>4, <1>5, <1>6

JarCookies == [session : Profiles, token : Nat \ {0}]
CallFields == {"kind", "stage", "session", "user", "token", "cookies", "list"}

\* One entry of the list of sessions, or the session shown, as the server has it.
OwnerIs(x, own) == x.session \in Profiles /\ x.user \in Accounts /\ own[x.session] = x.user

(* What a request carries, and what its answer does.                       *)
CallInStep(r, own) ==
    /\ DOMAIN r = CallFields
    /\ r.kind = "login" =>
          /\ r.user \in Accounts
          /\ r.stage = "answered" => OwnerIs(r, own) /\ r.token = FirstToken
    /\ r.kind = "sessions" =>
          /\ r.stage = "sent" => r.cookies \in Seq(JarCookies)
          /\ r.stage = "answered" => \A x \in r.list : OwnerIs(x, own)
    /\ r.kind = "lists" => OwnerIs(r, own) /\ (r.stage = "answered" => r.list \subseteq {r.user})
    /\ r.kind \in {"refresh", "logout"} =>
          /\ r.session \in Profiles /\ own[r.session] \in Accounts /\ r.token \in Nat
          /\ r.stage = "sent" => r.token # 0

BrowserTyped ==
    /\ DOMAIN requests = HttpCalls
    /\ \A c \in HttpCalls : CallInStep(requests[c], owner)
    /\ current \in [Profiles -> Nat] /\ owner \in [Profiles -> Accounts \cup {"none"}]
    /\ shown = Nobody \/ OwnerIs(shown, owner)
    /\ jar \in Seq(JarCookies)
    /\ \A i, j \in DOMAIN jar : jar[i].session = jar[j].session => i = j
    /\ \A i \in DOMAIN jar : owner[jar[i].session] \in Accounts
    /\ \A s \in Profiles : current[s] # 0 => owner[s] \in Accounts

\* An answer on its way that sets a cookie of the session.
Brings(r, s) ==
    r.kind \in {"login", "refresh"} /\ r.stage = "answered" /\ r.session = s /\ r.token # 0

\* A request on its way that presents a token of the session.
Presents(r, s) == r.kind \in {"refresh", "logout"} /\ r.stage = "sent" /\ r.session = s

(* The token of an open session is in the jar, or one answer brings it and *)
(* nobody can have presented it yet.                                       *)
TokenInJar(s) ==
    /\ \E i \in DOMAIN jar : jar[i].session = s /\ jar[i].token = current[s]
    /\ \A c \in HttpCalls : ~Brings(requests[c], s)

TokenOnItsWay(s) ==
    /\ \E c \in HttpCalls : /\ Brings(requests[c], s) /\ requests[c].token = current[s]
                            /\ \A d \in HttpCalls : Brings(requests[d], s) => d = c
    /\ \A i \in DOMAIN jar : jar[i].session = s => jar[i].token < current[s]
    /\ \A c \in HttpCalls : Presents(requests[c], s) => requests[c].token < current[s]

TokenKept(s) ==
    /\ TokenInJar(s) \/ TokenOnItsWay(s)
    /\ \A c \in HttpCalls : Presents(requests[c], s) => requests[c].token <= current[s]

BrowserInv == BrowserTyped /\ \A s \in Profiles : current[s] # 0 => TokenKept(s)

LEMMA BrowserInvGives == BrowserInv => BrowserKeepsItsSessions
<1>. SUFFICES ASSUME BrowserInv
              PROVE  BrowserKeepsItsSessions
  OBVIOUS
<1>1. ASSUME NEW s \in Profiles, current[s] # 0, \A c \in HttpCalls : requests[c].session # s
      PROVE  \E i \in CookieOf(s) : jar[i].token = current[s]
  <2>1. \A c \in HttpCalls : ~Brings(requests[c], s)
    BY <1>1 DEF Brings
  <2>2. TokenInJar(s)
    BY <1>1, <2>1 DEF BrowserInv, TokenKept, TokenOnItsWay
  <2>. QED
    BY <2>2 DEF TokenInJar, CookieOf
<1>2. ASSUME NEW c \in HttpCalls, Answered(c, "lists")
      PROVE  requests[c].list \subseteq {requests[c].user}
  BY <1>2 DEF BrowserInv, BrowserTyped, CallInStep, Answered
<1>. QED
  BY <1>1, <1>2 DEF BrowserKeepsItsSessions

LEMMA BrowserInvInit == BrInit => BrowserInv
<1>. SUFFICES ASSUME BrInit
              PROVE  BrowserInv
  OBVIOUS
<1>1. CallInStep(NoCall, owner)
  BY DEF CallInStep, NoCall, CallFields
<1>. QED
  BY <1>1, BrowserAssumption DEF BrInit, BrowserInv, BrowserTyped

(* A session that is opened was nobody's, so no other answer speaks of it. *)
LEMMA OwnersStay ==
    ASSUME BrowserTyped, NEW s \in Profiles, owner[s] = "none", NEW u \in Accounts,
           owner' = [owner EXCEPT ![s] = u]
    PROVE  /\ owner' \in [Profiles -> Accounts \cup {"none"}]
           /\ \A x \in Profiles : owner[x] \in Accounts => owner'[x] = owner[x]
           /\ \A x : OwnerIs(x, owner) => OwnerIs(x, owner')
           /\ \A r : CallInStep(r, owner) => CallInStep(r, owner')
<1>1. owner' \in [Profiles -> Accounts \cup {"none"}]
  BY DEF BrowserTyped
<1>2. \A x \in Profiles : owner[x] \in Accounts => owner'[x] = owner[x]
  BY BrowserAssumption DEF BrowserTyped
<1>3. \A x : OwnerIs(x, owner) => OwnerIs(x, owner')
  BY <1>2 DEF OwnerIs
<1>4. \A r : CallInStep(r, owner) => CallInStep(r, owner')
  BY <1>2, <1>3 DEF CallInStep
<1>. QED
  BY <1>1, <1>2, <1>3, <1>4

(* Every field of a request that a step sends or answers.                  *)
LEMMA CallWithFields ==
    ASSUME NEW r, NEW stage, NEW fields, "stage" \notin DOMAIN fields, NEW t,
           t = CallWith(r, stage, fields)
    PROVE  /\ DOMAIN t = CallFields
           /\ t.stage = stage
           /\ t.kind = IF "kind" \in DOMAIN fields THEN fields.kind ELSE r.kind
           /\ t.session = IF "session" \in DOMAIN fields THEN fields.session ELSE r.session
           /\ t.user = IF "user" \in DOMAIN fields THEN fields.user ELSE r.user
           /\ t.token = IF "token" \in DOMAIN fields THEN fields.token ELSE r.token
           /\ t.cookies = IF "cookies" \in DOMAIN fields THEN fields.cookies ELSE r.cookies
           /\ t.list = IF "list" \in DOMAIN fields THEN fields.list ELSE r.list
<1>1. DOMAIN NoCall = CallFields
  BY DEF NoCall, CallFields
<1>2. t = [f \in CallFields |-> IF f \in DOMAIN fields THEN fields[f]
                                ELSE IF f = "stage" THEN stage ELSE r[f]]
  BY <1>1 DEF CallWith
<1>. QED
  BY <1>2 DEF CallFields

LEMMA JarIs ==
    ASSUME BrowserTyped
    PROVE  /\ Len(jar) \in Nat /\ DOMAIN jar = 1..Len(jar)
           /\ \A i \in DOMAIN jar : /\ jar[i].session \in Profiles
                                    /\ jar[i].token \in Nat /\ jar[i].token # 0
<1>1. jar \in Seq(JarCookies)
  BY DEF BrowserTyped
<1>2. Len(jar) \in Nat /\ DOMAIN jar = 1..Len(jar)
  BY <1>1, LenProperties
<1>3. \A i \in DOMAIN jar : jar[i] \in JarCookies
  BY <1>1, <1>2, ElementOfSeq
<1>. QED
  BY <1>2, <1>3 DEF JarCookies

(* A step that moves one request and leaves the jar, and of the tokens     *)
(* leaves those that the request neither presents nor brings.              *)
LEMMA OneCallMoves ==
    ASSUME BrowserInv, NEW c \in HttpCalls, DOMAIN requests' = HttpCalls,
           \A d \in HttpCalls : d # c => requests'[d] = requests[d],
           CallInStep(requests'[c], owner'),
           NEW s \in Profiles, current' [s] # 0, current'[s] = current[s],
           \A i \in DOMAIN jar' : jar'[i].session = s => \E j \in DOMAIN jar : jar[j] = jar'[i],
           \A i \in DOMAIN jar : jar[i].session = s => \E j \in DOMAIN jar' : jar'[j] = jar[i],
           ~Brings(requests[c], s), ~Brings(requests'[c], s),
           Presents(requests'[c], s) =>
              \E i \in DOMAIN jar : jar[i].session = s /\ requests'[c].token = jar[i].token
    PROVE  TokenKept(s)'
<1>1. TokenKept(s)
  BY DEF BrowserInv
<1>2. jar \in Seq(JarCookies) /\ current[s] \in Nat
  BY DEF BrowserInv, BrowserTyped
<1>3. \A i \in DOMAIN jar : jar[i].token \in Nat
  BY JarIs DEF BrowserInv
<1>4. \A i, j \in DOMAIN jar : jar[i].session = jar[j].session => i = j
  BY DEF BrowserInv, BrowserTyped
<1>5. CASE TokenInJar(s)
  <2>1. \A i \in DOMAIN jar : jar[i].session = s => jar[i].token = current[s]
    BY <1>4, <1>5 DEF TokenInJar
  <2>2. TokenInJar(s)'
    BY <1>5 DEF TokenInJar
  <2>3. \A d \in HttpCalls : Presents(requests'[d], s) => requests'[d].token <= current'[s]
    BY <1>1, <1>2, <2>1 DEF TokenKept
  <2>. QED
    BY <2>2, <2>3 DEF TokenKept
<1>6. CASE TokenOnItsWay(s)
  <2>1. TokenOnItsWay(s)'
    BY <1>6 DEF TokenOnItsWay
  <2>2. \A d \in HttpCalls : Presents(requests'[d], s) => requests'[d].token <= current'[s]
    BY <1>1, <1>2, <1>3, <1>6 DEF TokenKept, TokenOnItsWay
  <2>. QED
    BY <2>1, <2>2 DEF TokenKept
<1>. QED
  BY <1>1, <1>5, <1>6 DEF TokenKept

(* What is left to show of a step that moves one request, and perhaps the  *)
(* jar by other cookies than those of the open sessions.                   *)
LEMMA QuietStep ==
    ASSUME BrowserInv, NEW c \in HttpCalls, DOMAIN requests' = HttpCalls,
           \A d \in HttpCalls : d # c => requests'[d] = requests[d],
           CallInStep(requests'[c], owner),
           UNCHANGED <<owner, jar>>, current' \in [Profiles -> Nat],
           \A s \in Profiles : current'[s] \in {current[s], 0},
           shown' = Nobody \/ OwnerIs(shown', owner),
           \A s \in Profiles : current'[s] # 0 => ~Brings(requests[c], s) /\ ~Brings(requests'[c], s),
           \A s \in Profiles : Presents(requests'[c], s) =>
              \E i \in DOMAIN jar : jar[i].session = s /\ requests'[c].token = jar[i].token
    PROVE  BrowserInv'
<1>1. BrowserTyped'
  <2>1. \A d \in HttpCalls : CallInStep(requests'[d], owner')
    BY DEF BrowserInv, BrowserTyped
  <2>. QED
    BY <2>1 DEF BrowserInv, BrowserTyped
<1>2. ASSUME NEW s \in Profiles, current'[s] # 0
      PROVE  TokenKept(s)'
  BY <1>2, OneCallMoves
<1>. QED
  BY <1>1, <1>2 DEF BrowserInv

(* A session that is opened was nobody's: no cookie, no request and no     *)
(* answer speaks of it.                                                    *)
LEMMA NobodysSession ==
    ASSUME BrowserTyped, NEW s \in Profiles, owner[s] = "none"
    PROVE  /\ \A i \in DOMAIN jar : jar[i].session # s
           /\ \A d \in HttpCalls : ~Brings(requests[d], s) /\ ~Presents(requests[d], s)
<1>1. owner[s] \notin Accounts
  BY BrowserAssumption
<1>2. \A i \in DOMAIN jar : jar[i].session # s
  BY <1>1 DEF BrowserTyped
<1>3. ASSUME NEW d \in HttpCalls
      PROVE  ~Brings(requests[d], s) /\ ~Presents(requests[d], s)
  <2>1. CallInStep(requests[d], owner)
    BY DEF BrowserTyped
  <2>. QED
    BY <1>1, <2>1 DEF CallInStep, OwnerIs, Brings, Presents
<1>. QED
  BY <1>2, <1>3

(* SetCookies leaves the jar with one cookie of the session, the new one.  *)
LEMMA CookieSet ==
    ASSUME BrowserTyped, NEW s \in Profiles, owner[s] \in Accounts,
           NEW token \in Nat \ {0}, SetCookies(s, token), UNCHANGED owner
    PROVE  /\ jar' \in Seq(JarCookies)
           /\ \A i, j \in DOMAIN jar' : jar'[i].session = jar'[j].session => i = j
           /\ \A i \in DOMAIN jar' : owner'[jar'[i].session] \in Accounts
           /\ \E i \in DOMAIN jar' : jar'[i].session = s /\ jar'[i].token = token
           /\ \A x \in Profiles : x # s =>
                 /\ \A i \in DOMAIN jar' : jar'[i].session = x => \E j \in DOMAIN jar : jar[j] = jar'[i]
                 /\ \A i \in DOMAIN jar : jar[i].session = x => \E j \in DOMAIN jar' : jar'[j] = jar[i]
<1>. DEFINE new == [session |-> s, token |-> token]
<1>1. /\ Len(jar) \in Nat /\ DOMAIN jar = 1..Len(jar)
      /\ \A i \in DOMAIN jar : jar[i] \in JarCookies
  <2>1. jar \in Seq(JarCookies)
    BY DEF BrowserTyped
  <2>. QED
    BY <2>1, LenProperties, ElementOfSeq, JarIs
<1>2. \A i, j \in DOMAIN jar : jar[i].session = jar[j].session => i = j
  BY DEF BrowserTyped
<1>3. \A i \in DOMAIN jar : owner[jar[i].session] \in Accounts
  BY DEF BrowserTyped
<1>4. new \in JarCookies /\ new.session = s /\ new.token = token
  BY DEF JarCookies
<1>5. jar \in Seq(JarCookies)
  BY DEF BrowserTyped
<1>6. CASE CookieOf(s) = {}
  <2>1. jar' = Append(jar, new)
    BY <1>6 DEF SetCookies
  <2>. HIDE DEF new
  <2>2. /\ jar' \in Seq(JarCookies) /\ DOMAIN jar' = 1..Len(jar) + 1
        /\ \A i \in 1..Len(jar) : jar'[i] = jar[i]
        /\ jar'[Len(jar) + 1] = new
    BY <1>1, <1>4, <1>5, <2>1, AppendProperties
  <2>3. \A i \in 1..Len(jar) : jar[i].session # s
    BY <1>1, <1>6 DEF CookieOf
  <2>4. \A i \in DOMAIN jar' : i \in 1..Len(jar) \/ i = Len(jar) + 1
    BY <1>1, <2>2
  <2>5. Len(jar) + 1 \in DOMAIN jar' /\ \A i \in DOMAIN jar : i \in DOMAIN jar'
    BY <1>1, <2>2
  <2>. QED
    BY <1>1, <1>2, <1>3, <1>4, <2>2, <2>3, <2>4, <2>5
<1>7. CASE CookieOf(s) # {}
  <2>1. jar' = [i \in DOMAIN jar |-> IF jar[i].session = s THEN new ELSE jar[i]]
    BY <1>7 DEF SetCookies
  <2>. HIDE DEF new
  <2>2. /\ DOMAIN jar' = DOMAIN jar
        /\ \A i \in DOMAIN jar : jar[i].session = s => jar'[i] = new
        /\ \A i \in DOMAIN jar : jar[i].session # s => jar'[i] = jar[i]
    BY <2>1
  <2>3. PICK i \in DOMAIN jar : jar[i].session = s
    BY <1>7 DEF CookieOf
  <2>4. jar' \in Seq(JarCookies)
    <3>1. jar' \in [1..Len(jar) -> JarCookies]
      BY <1>1, <1>4, <2>1
    <3>. QED
      BY <1>1, <3>1, SeqDef
  <2>. QED
    BY <1>1, <1>2, <1>3, <1>4, <2>2, <2>3, <2>4
<1>. QED
  BY <1>6, <1>7

(* A jar that loses one cookie keeps the others.                           *)
LEMMA CookieExpires ==
    ASSUME BrowserTyped, NEW s \in Profiles, UNCHANGED owner,
           NEW k \in CookieOf(s), jar' = RemoveAt(jar, k)
    PROVE  /\ jar' \in Seq(JarCookies)
           /\ \A i, j \in DOMAIN jar' : jar'[i].session = jar'[j].session => i = j
           /\ \A i \in DOMAIN jar' : owner'[jar'[i].session] \in Accounts
           /\ \A x \in Profiles : x # s =>
                 /\ \A i \in DOMAIN jar' : jar'[i].session = x => \E j \in DOMAIN jar : jar[j] = jar'[i]
                 /\ \A i \in DOMAIN jar : jar[i].session = x => \E j \in DOMAIN jar' : jar'[j] = jar[i]
<1>. DEFINE Old(i) == IF i < k THEN i ELSE i + 1
<1>1. jar \in Seq(JarCookies) /\ Len(jar) \in Nat /\ DOMAIN jar = 1..Len(jar) /\ k \in 1..Len(jar)
  BY JarIs DEF BrowserTyped, CookieOf
<1>2. /\ jar' \in Seq(JarCookies) /\ Len(jar') = Len(jar) - 1
      /\ \A j \in 1 .. Len(jar) - 1 : jar'[j] = ClosedUp(jar, k, j)
  BY <1>1, RemoveAtElements
<1>3. DOMAIN jar' = 1..Len(jar) - 1
  BY <1>2, LenProperties
<1>4. \A i \in DOMAIN jar' : Old(i) \in DOMAIN jar /\ jar'[i] = jar[Old(i)]
  BY <1>1, <1>2, <1>3 DEF ClosedUp
<1>5. \A i, j \in DOMAIN jar' : Old(i) = Old(j) => i = j
  BY <1>1, <1>3
<1>6. \A i \in DOMAIN jar : i # k => \E j \in DOMAIN jar' : Old(j) = i
  <2>1. ASSUME NEW i \in DOMAIN jar, i # k
        PROVE  \E j \in DOMAIN jar' : Old(j) = i
    <3>1. CASE i < k
      BY <1>1, <1>3, <3>1, i \in DOMAIN jar'
    <3>2. CASE i > k
      <4>1. i - 1 \in DOMAIN jar' /\ Old(i - 1) = i
        BY <1>1, <1>3, <3>2
      <4>. QED
        BY <4>1
    <3>. QED
      BY <1>1, <2>1, <3>1, <3>2
  <2>. QED
    BY <2>1
<1>. HIDE DEF Old
<1>7. jar[k].session = s
  BY DEF CookieOf
<1>8. \A i, j \in DOMAIN jar : jar[i].session = jar[j].session => i = j
  BY DEF BrowserTyped
<1>9. \A i, j \in DOMAIN jar' : jar'[i].session = jar'[j].session => i = j
  BY <1>4, <1>5, <1>8
<1>10. \A i \in DOMAIN jar' : owner'[jar'[i].session] \in Accounts
  BY <1>4 DEF BrowserTyped
<1>11. ASSUME NEW x \in Profiles, x # s
       PROVE  /\ \A i \in DOMAIN jar' : jar'[i].session = x => \E j \in DOMAIN jar : jar[j] = jar'[i]
              /\ \A i \in DOMAIN jar : jar[i].session = x => \E j \in DOMAIN jar' : jar'[j] = jar[i]
  BY <1>4, <1>6, <1>7, <1>11
<1>. QED
  BY <1>2, <1>9, <1>10, <1>11

(* A step that answers or ends one request moves that request only.        *)
LEMMA OneRequestSet ==
    ASSUME DOMAIN requests = HttpCalls, NEW c \in HttpCalls, NEW call,
           requests' = [requests EXCEPT ![c] = call]
    PROVE  /\ DOMAIN requests' = HttpCalls /\ requests'[c] = call
           /\ \A d \in HttpCalls : d # c => requests'[d] = requests[d]
  OBVIOUS

LEMMA NoCallInStep ==
    /\ \A own : CallInStep(NoCall, own)
    /\ \A s : ~Brings(NoCall, s) /\ ~Presents(NoCall, s)
  BY DEF NoCall, CallInStep, CallFields, Brings, Presents

(* The requests that are sent, and their first fields.                     *)
LEMMA SendSteps ==
    ASSUME BrowserInv, NEW c \in HttpCalls,
           \/ OpenPage(c) \/ AskLists(c)
           \/ \E u \in Accounts : SubmitLogin(c, u)
           \/ \E s \in Profiles, kind \in {"refresh", "logout"} : Request(c, kind, s)
    PROVE  BrowserInv'
<1>1. DOMAIN requests = HttpCalls /\ shown \in {shown}
  BY DEF BrowserInv, BrowserTyped
<1>2. current \in [Profiles -> Nat] /\ (shown = Nobody \/ OwnerIs(shown, owner))
  BY DEF BrowserInv, BrowserTyped
<1>3. CASE OpenPage(c)
  <2>. DEFINE fields == [kind |-> "sessions", cookies |-> jar]
              call == CallWith(NoCall, "sent", fields)
  <2>1. DOMAIN fields = {"kind", "cookies"} /\ fields.kind = "sessions" /\ fields.cookies = jar
    OBVIOUS
  <2>2. requests[c] = NoCall /\ requests' = [requests EXCEPT ![c] = call]
    BY <1>3 DEF OpenPage, SendCall
  <2>. HIDE DEF fields
  <2>3. DOMAIN call = CallFields /\ call.stage = "sent" /\ call.kind = "sessions" /\ call.cookies = jar
    BY <2>1, CallWithFields
  <2>. HIDE DEF call
  <2>4. CallInStep(call, owner) /\ \A s : ~Brings(call, s) /\ ~Presents(call, s)
    BY <2>3 DEF CallInStep, Brings, Presents, BrowserInv, BrowserTyped
  <2>5. UNCHANGED <<owner, jar, current>> /\ shown' = Nobody
    BY <1>3 DEF OpenPage
  <2>6. \A s : ~Brings(requests[c], s)
    BY <2>2, NoCallInStep
  <2>. QED
    BY <1>1, <1>2, <2>2, <2>4, <2>5, <2>6, OneRequestSet, QuietStep
<1>4. CASE AskLists(c)
  <2>. DEFINE fields == [kind |-> "lists", session |-> shown.session, user |-> shown.user,
                         token |-> IF shown.session \in access THEN 1 ELSE 0]
              call == CallWith(NoCall, "sent", fields)
  <2>1. /\ DOMAIN fields = {"kind", "session", "user", "token"} /\ fields.kind = "lists"
        /\ fields.session = shown.session /\ fields.user = shown.user
    OBVIOUS
  <2>2. requests[c] = NoCall /\ requests' = [requests EXCEPT ![c] = call]
    BY <1>4 DEF AskLists, SendCall
  <2>. HIDE DEF fields
  <2>3. /\ DOMAIN call = CallFields /\ call.stage = "sent" /\ call.kind = "lists"
        /\ call.session = shown.session /\ call.user = shown.user
    BY <2>1, CallWithFields
  <2>. HIDE DEF call
  <2>4. OwnerIs(shown, owner)
    BY <1>2, <1>4 DEF AskLists, IsAuthenticated
  <2>5. CallInStep(call, owner) /\ \A s : ~Brings(call, s) /\ ~Presents(call, s)
    BY <2>3, <2>4 DEF CallInStep, Brings, Presents, OwnerIs
  <2>6. UNCHANGED <<owner, jar, current, shown>>
    BY <1>4 DEF AskLists
  <2>7. \A s : ~Brings(requests[c], s)
    BY <2>2, NoCallInStep
  <2>. QED
    BY <1>1, <1>2, <2>2, <2>5, <2>6, <2>7, OneRequestSet, QuietStep
<1>5. ASSUME NEW u \in Accounts, SubmitLogin(c, u)
      PROVE  BrowserInv'
  <2>. DEFINE fields == [kind |-> "login", user |-> u]
              call == CallWith(NoCall, "sent", fields)
  <2>1. DOMAIN fields = {"kind", "user"} /\ fields.kind = "login" /\ fields.user = u
    OBVIOUS
  <2>2. requests[c] = NoCall /\ requests' = [requests EXCEPT ![c] = call]
    BY <1>5 DEF SubmitLogin, SendCall
  <2>. HIDE DEF fields
  <2>3. DOMAIN call = CallFields /\ call.stage = "sent" /\ call.kind = "login" /\ call.user = u
    BY <2>1, CallWithFields
  <2>. HIDE DEF call
  <2>4. CallInStep(call, owner) /\ \A s : ~Brings(call, s) /\ ~Presents(call, s)
    BY <2>3 DEF CallInStep, Brings, Presents
  <2>5. UNCHANGED <<owner, jar, current, shown>>
    BY <1>5 DEF SubmitLogin
  <2>6. \A s : ~Brings(requests[c], s)
    BY <2>2, NoCallInStep
  <2>. QED
    BY <1>1, <1>2, <2>2, <2>4, <2>5, <2>6, OneRequestSet, QuietStep
<1>6. ASSUME NEW s \in Profiles, NEW kind \in {"refresh", "logout"}, Request(c, kind, s)
      PROVE  BrowserInv'
  <2>0. PICK i \in CookieOf(s) : SendCall(c, [kind |-> kind, session |-> s, token |-> jar[i].token])
    BY <1>6 DEF Request
  <2>. DEFINE fields == [kind |-> kind, session |-> s, token |-> jar[i].token]
              call == CallWith(NoCall, "sent", fields)
  <2>1. /\ DOMAIN fields = {"kind", "session", "token"} /\ fields.kind = kind
        /\ fields.session = s /\ fields.token = jar[i].token
    OBVIOUS
  <2>2. requests[c] = NoCall /\ requests' = [requests EXCEPT ![c] = call]
    BY <2>0 DEF SendCall
  <2>. HIDE DEF fields
  <2>3. /\ DOMAIN call = CallFields /\ call.stage = "sent" /\ call.kind = kind
        /\ call.session = s /\ call.token = jar[i].token
    BY <2>1, CallWithFields
  <2>. HIDE DEF call
  <2>4. i \in DOMAIN jar /\ jar[i].session = s /\ owner[s] \in Accounts
        /\ jar[i].token \in Nat /\ jar[i].token # 0
    BY JarIs DEF BrowserInv, BrowserTyped, CookieOf
  <2>5. CallInStep(call, owner) /\ \A x : ~Brings(call, x)
    BY <2>3, <2>4 DEF CallInStep, Brings
  <2>6. \A x : Presents(call, x) =>
           \E j \in DOMAIN jar : jar[j].session = x /\ call.token = jar[j].token
    BY <2>3, <2>4 DEF Presents
  <2>7. UNCHANGED <<owner, jar, current, shown>>
    BY <1>6 DEF Request
  <2>8. \A x : ~Brings(requests[c], x)
    BY <2>2, NoCallInStep
  <2>. QED
    BY <1>1, <1>2, <2>2, <2>5, <2>6, <2>7, <2>8, OneRequestSet, QuietStep
<1>. QED
  BY <1>3, <1>4, <1>5, <1>6

(* The answers that bring no token: a refusal, a logout, a list.           *)
LEMMA QuietAnswers ==
    ASSUME BrowserInv, NEW c \in HttpCalls,
           \/ HandleSessions(c) \/ HandleLists(c) \/ HandleLogout(c)
           \/ HandleRefresh(c) /\ ~Accepted(requests[c].session, requests[c].token)
    PROVE  BrowserInv'
<1>1. /\ DOMAIN requests = HttpCalls
      /\ current \in [Profiles -> Nat] /\ (shown = Nobody \/ OwnerIs(shown, owner))
      /\ CallInStep(requests[c], owner) /\ \A s : ~Brings(requests[c], s)
  <2>1. requests[c].stage = "sent"
    BY DEF HandleSessions, HandleLists, HandleLogout, HandleRefresh, Handled
  <2>. QED
    BY <2>1 DEF BrowserInv, BrowserTyped, Brings
<1>2. CASE HandleSessions(c)
  <2>. DEFINE listed == ListedFrom(requests[c].cookies)
              fields == [list |-> listed, cookies |-> <<>>]
              call == CallWith(requests[c], "answered", fields)
  <2>1. DOMAIN fields = {"list", "cookies"} /\ fields.list = listed
    OBVIOUS
  <2>2. requests[c].kind = "sessions" /\ requests[c].stage = "sent"
    BY <1>2 DEF HandleSessions, Handled
  <2>3. ASSUME NEW x \in listed
        PROVE  OwnerIs(x, owner)
    <3>1. PICK i \in DOMAIN requests[c].cookies :
             LET k == requests[c].cookies[i]
             IN  /\ Accepted(k.session, k.token)
                 /\ x = [session |-> k.session, user |-> owner[k.session]]
      BY DEF ListedFrom
    <3>. DEFINE k == requests[c].cookies[i]
    <3>2. requests[c].cookies \in Seq(JarCookies)
      BY <1>1, <2>2 DEF CallInStep
    <3>3. k \in JarCookies
      BY <3>2, LenProperties, ElementOfSeq
    <3>4. k.session \in Profiles /\ k.token # 0
      BY <3>3 DEF JarCookies
    <3>5. current[k.session] # 0
      BY <3>1, <3>4 DEF Accepted
    <3>6. owner[k.session] \in Accounts
      BY <3>4, <3>5 DEF BrowserInv, BrowserTyped
    <3>. QED
      BY <3>1, <3>4, <3>6 DEF OwnerIs
  <2>4. requests' = [requests EXCEPT ![c] = call]
    BY <1>2 DEF HandleSessions, AnswerWith
  <2>. HIDE DEF listed, fields
  <2>5. /\ DOMAIN call = CallFields /\ call.stage = "answered"
        /\ call.kind = "sessions" /\ call.list = listed
    BY <2>1, <2>2, CallWithFields
  <2>. HIDE DEF call
  <2>6. CallInStep(call, owner) /\ \A s : ~Brings(call, s) /\ ~Presents(call, s)
    BY <2>3, <2>5 DEF CallInStep, Brings, Presents
  <2>7. UNCHANGED <<owner, jar, current, shown>>
    BY <1>2 DEF HandleSessions
  <2>. QED
    BY <1>1, <2>4, <2>6, <2>7, OneRequestSet, QuietStep
<1>3. CASE HandleLists(c)
  <2>. DEFINE r == requests[c]
              fields == [list |-> IF r.token = 0 THEN {} ELSE {owner[r.session]}]
              call == CallWith(r, "answered", fields)
  <2>1. DOMAIN fields = {"list"} /\ fields.list \subseteq {owner[r.session]}
    OBVIOUS
  <2>2. r.kind = "lists" /\ OwnerIs(r, owner)
    BY <1>1, <1>3 DEF HandleLists, Handled, CallInStep
  <2>3. requests' = [requests EXCEPT ![c] = call]
    BY <1>3 DEF HandleLists, AnswerWith
  <2>. HIDE DEF fields
  <2>4. /\ DOMAIN call = CallFields /\ call.stage = "answered" /\ call.kind = "lists"
        /\ call.list = fields.list /\ call.session = r.session /\ call.user = r.user
    BY <2>1, <2>2, CallWithFields
  <2>. HIDE DEF call
  <2>5. CallInStep(call, owner) /\ \A s : ~Brings(call, s) /\ ~Presents(call, s)
    BY <2>1, <2>2, <2>4 DEF CallInStep, Brings, Presents, OwnerIs
  <2>6. UNCHANGED <<owner, jar, current, shown>>
    BY <1>3 DEF HandleLists
  <2>. QED
    BY <1>1, <2>3, <2>5, <2>6, OneRequestSet, QuietStep
<1>4. CASE HandleLogout(c)
  <2>. DEFINE r == requests[c]
  <2>1. r.kind = "logout" /\ r.session \in Profiles /\ owner[r.session] \in Accounts /\ r.token \in Nat
    BY <1>1, <1>4 DEF HandleLogout, Handled, CallInStep
  <2>2. PICK fields : /\ fields \in {[user |-> owner[r.session]], [token |-> 0]}
                      /\ requests' = [requests EXCEPT ![c] = CallWith(r, "answered", fields)]
    BY <1>4 DEF HandleLogout, AnswerWith
  <2>3. /\ "stage" \notin DOMAIN fields /\ "kind" \notin DOMAIN fields /\ "session" \notin DOMAIN fields
        /\ "token" \in DOMAIN fields => fields.token = 0
    BY <2>2
  <2>. DEFINE call == CallWith(r, "answered", fields)
  <2>4. /\ DOMAIN call = CallFields /\ call.stage = "answered" /\ call.kind = "logout"
        /\ call.session = r.session /\ call.token \in {r.token, 0}
    BY <2>1, <2>3, CallWithFields
  <2>5. requests' = [requests EXCEPT ![c] = call]
    BY <2>2
  <2>. HIDE DEF call
  <2>6. CallInStep(call, owner) /\ \A s : ~Brings(call, s) /\ ~Presents(call, s)
    BY <2>1, <2>4 DEF CallInStep, Brings, Presents
  <2>7. UNCHANGED <<owner, jar, shown>>
    BY <1>4 DEF HandleLogout
  <2>8. current' = current \/ current' = [current EXCEPT ![r.session] = 0]
    BY <1>4 DEF HandleLogout
  <2>9. current' \in [Profiles -> Nat] /\ \A s \in Profiles : current'[s] \in {current[s], 0}
    BY <1>1, <2>8
  <2>. QED
    BY <1>1, <2>5, <2>6, <2>7, <2>9, OneRequestSet, QuietStep
<1>5. CASE HandleRefresh(c) /\ ~Accepted(requests[c].session, requests[c].token)
  <2>. DEFINE r == requests[c]
              fields == [token |-> 0]
              call == CallWith(r, "answered", fields)
  <2>1. DOMAIN fields = {"token"} /\ fields.token = 0
    OBVIOUS
  <2>2. r.kind = "refresh" /\ r.session \in Profiles /\ owner[r.session] \in Accounts
    BY <1>1, <1>5 DEF HandleRefresh, Handled, CallInStep
  <2>3. requests' = [requests EXCEPT ![c] = call]
    BY <1>5 DEF HandleRefresh, AnswerWith
  <2>. HIDE DEF fields
  <2>4. /\ DOMAIN call = CallFields /\ call.stage = "answered" /\ call.kind = "refresh"
        /\ call.session = r.session /\ call.token = 0
    BY <2>1, <2>2, CallWithFields
  <2>. HIDE DEF call
  <2>5. CallInStep(call, owner) /\ \A s : ~Brings(call, s) /\ ~Presents(call, s)
    BY <2>2, <2>4 DEF CallInStep, Brings, Presents
  <2>6. UNCHANGED <<owner, jar, current, shown>>
    BY <1>5 DEF HandleRefresh
  <2>. QED
    BY <1>1, <2>3, <2>5, <2>6, OneRequestSet, QuietStep
<1>. QED
  BY <1>2, <1>3, <1>4, <1>5

(* The answers of a login and of a refresh that is accepted, which bring   *)
(* the token that the row then has.                                        *)
LEMMA LoginHandled ==
    ASSUME BrowserInv, NEW c \in HttpCalls, NEW s \in Profiles, HandleLogin(c, s)
    PROVE  BrowserInv'
<1>. DEFINE r == requests[c]
            fields == [session |-> s, token |-> FirstToken]
            call == CallWith(r, "answered", fields)
<1>1. DOMAIN fields = {"session", "token"} /\ fields.session = s /\ fields.token = FirstToken
  OBVIOUS
<1>2. /\ BrowserTyped /\ DOMAIN requests = HttpCalls /\ current \in [Profiles -> Nat]
      /\ CallInStep(r, owner)
  BY DEF BrowserInv, BrowserTyped
<1>3. r.kind = "login" /\ r.stage = "sent" /\ r.user \in Accounts /\ owner[s] = "none"
  BY <1>2 DEF HandleLogin, Handled, CallInStep, NewSession
<1>4. requests' = [requests EXCEPT ![c] = call]
  BY DEF HandleLogin, AnswerWith
<1>. HIDE DEF fields
<1>5. /\ DOMAIN call = CallFields /\ call.stage = "answered" /\ call.kind = "login"
      /\ call.session = s /\ call.token = FirstToken /\ call.user = r.user
  BY <1>1, <1>3, CallWithFields
<1>. HIDE DEF call
<1>6. owner' = [owner EXCEPT ![s] = r.user] /\ current' = [current EXCEPT ![s] = FirstToken]
      /\ UNCHANGED <<jar, access, shown>>
  BY DEF HandleLogin
<1>7. /\ DOMAIN requests' = HttpCalls /\ requests'[c] = call
      /\ \A d \in HttpCalls : d # c => requests'[d] = requests[d]
  BY <1>2, <1>4, OneRequestSet
<1>8. /\ owner' \in [Profiles -> Accounts \cup {"none"}]
      /\ \A x \in Profiles : owner[x] \in Accounts => owner'[x] = owner[x]
      /\ \A x : OwnerIs(x, owner) => OwnerIs(x, owner')
      /\ \A x : CallInStep(x, owner) => CallInStep(x, owner')
  BY <1>2, <1>3, <1>6, OwnersStay
<1>9. /\ \A i \in DOMAIN jar : jar[i].session # s
      /\ \A d \in HttpCalls : ~Brings(requests[d], s) /\ ~Presents(requests[d], s)
  BY <1>2, <1>3, NobodysSession
<1>10. owner'[s] = r.user
  BY <1>2, <1>6 DEF BrowserTyped
<1>11. CallInStep(call, owner')
  BY <1>3, <1>5, <1>10 DEF CallInStep, OwnerIs
<1>12. BrowserTyped'
  <2>1. \A d \in HttpCalls : CallInStep(requests'[d], owner')
    BY <1>7, <1>8, <1>11, <1>2 DEF BrowserTyped
  <2>2. \A x \in Profiles : current'[x] # 0 => owner'[x] \in Accounts
    BY <1>2, <1>3, <1>6, <1>8, <1>10 DEF BrowserTyped
  <2>3. \A i \in DOMAIN jar : jar[i].session \in Profiles
    BY <1>2, JarIs
  <2>4. \A i \in DOMAIN jar' : owner'[jar'[i].session] \in Accounts
    BY <1>2, <1>6, <1>8, <2>3 DEF BrowserTyped
  <2>5. current' \in [Profiles -> Nat]
    BY <1>2, <1>6 DEF FirstToken
  <2>6. shown' = Nobody \/ OwnerIs(shown', owner')
    BY <1>2, <1>6, <1>8 DEF BrowserTyped
  <2>. QED
    BY <1>2, <1>6, <1>7, <1>8, <2>1, <2>2, <2>4, <2>5, <2>6 DEF BrowserTyped
<1>13. ASSUME NEW x \in Profiles, current'[x] # 0
       PROVE  TokenKept(x)'
  <2>1. CASE x = s
    <3>1. current'[s] = FirstToken
      BY <1>2, <1>6
    <3>2. Brings(call, s) /\ ~Presents(call, s)
      BY <1>5 DEF Brings, Presents, FirstToken
    <3>3. TokenOnItsWay(s)'
      BY <1>5, <1>6, <1>7, <1>9, <3>1, <3>2 DEF TokenOnItsWay
    <3>. QED
      BY <1>7, <1>9, <2>1, <3>2, <3>3 DEF TokenKept
  <2>2. CASE x # s
    <3>1. current'[x] = current[x]
      BY <1>2, <1>6, <2>2
    <3>2. ~Brings(requests[c], x) /\ ~Brings(requests'[c], x) /\ ~Presents(requests'[c], x)
      BY <1>3, <1>5, <1>7, <2>2 DEF Brings, Presents
    <3>. QED
      BY <1>6, <1>7, <1>8, <1>11, <1>13, <3>1, <3>2, OneCallMoves
  <2>. QED
    BY <2>1, <2>2
<1>. QED
  BY <1>12, <1>13 DEF BrowserInv

LEMMA RefreshHandled ==
    ASSUME BrowserInv, NEW c \in HttpCalls, HandleRefresh(c),
           Accepted(requests[c].session, requests[c].token)
    PROVE  BrowserInv'
<1>. DEFINE r == requests[c]
            s == r.session
            fields == [token |-> current[s] + 1, user |-> owner[s]]
            call == CallWith(r, "answered", fields)
<1>1. /\ DOMAIN fields = {"token", "user"} /\ fields.token = current[s] + 1
  OBVIOUS
<1>2. /\ BrowserTyped /\ DOMAIN requests = HttpCalls /\ current \in [Profiles -> Nat]
      /\ CallInStep(r, owner)
  BY DEF BrowserInv, BrowserTyped
<1>3. /\ r.kind = "refresh" /\ r.stage = "sent"
      /\ s \in Profiles /\ owner[s] \in Accounts /\ r.token # 0 /\ r.token = current[s]
  BY <1>2 DEF HandleRefresh, Handled, CallInStep, Accepted
<1>4. /\ requests' = [requests EXCEPT ![c] = call]
      /\ current' = [current EXCEPT ![s] = @ + 1]
      /\ UNCHANGED <<owner, jar, access, shown>>
  BY DEF HandleRefresh, AnswerWith
<1>. HIDE DEF fields
<1>5. /\ DOMAIN call = CallFields /\ call.stage = "answered" /\ call.kind = "refresh"
      /\ call.session = s /\ call.token = current[s] + 1
  BY <1>1, <1>3, CallWithFields
<1>. HIDE DEF call
<1>6. /\ DOMAIN requests' = HttpCalls /\ requests'[c] = call
      /\ \A d \in HttpCalls : d # c => requests'[d] = requests[d]
  BY <1>2, <1>4, OneRequestSet
<1>7. /\ current' \in [Profiles -> Nat] /\ current[s] \in Nat /\ current'[s] = current[s] + 1
      /\ \A x \in Profiles : x # s => current'[x] = current[x]
  BY <1>2, <1>3, <1>4
<1>8. CallInStep(call, owner)
  BY <1>3, <1>5, <1>7 DEF CallInStep
<1>9. BrowserTyped'
  <2>1. \A d \in HttpCalls : CallInStep(requests'[d], owner)
    BY <1>2, <1>6, <1>8 DEF BrowserTyped
  <2>2. \A x \in Profiles : current'[x] # 0 => owner[x] \in Accounts
    BY <1>2, <1>3, <1>7 DEF BrowserTyped
  <2>. QED
    BY <1>2, <1>4, <1>6, <1>7, <2>1, <2>2 DEF BrowserTyped
<1>10. ASSUME NEW x \in Profiles, current'[x] # 0
       PROVE  TokenKept(x)'
  <2>1. CASE x = s
    <3>1. TokenKept(x)
      BY <1>3, <2>1 DEF BrowserInv
    <3>2. TokenInJar(x)
      <4>1. Presents(r, x)
        BY <1>3, <2>1 DEF Presents
      <4>2. ~TokenOnItsWay(x)
        BY <1>3, <1>7, <2>1, <4>1 DEF TokenOnItsWay
      <4>. QED
        BY <3>1, <4>2 DEF TokenKept
    <3>3. current[x] \in Nat /\ current'[x] = current[x] + 1
      BY <1>7, <2>1
    <3>4. \A i \in DOMAIN jar : jar[i].session = x => jar[i].token < current'[x]
      BY <1>2, <3>2, <3>3 DEF TokenInJar, BrowserTyped
    <3>5. /\ Brings(call, x) /\ ~Presents(call, x) /\ call.token = current'[x]
      BY <1>5, <2>1, <3>3 DEF Brings, Presents
    <3>6. \A d \in HttpCalls : Presents(requests[d], x) =>
             requests[d].token \in Nat /\ requests[d].token <= current[x]
      BY <1>2, <3>1 DEF TokenKept, BrowserTyped, CallInStep, Presents
    <3>7. \A d \in HttpCalls : Presents(requests'[d], x) =>
             requests'[d].token < current'[x] /\ requests'[d].token <= current'[x]
      BY <1>6, <3>3, <3>5, <3>6
    <3>8. \A d \in HttpCalls : Brings(requests'[d], x) => d = c
      BY <1>6, <3>2 DEF TokenInJar
    <3>9. TokenOnItsWay(x)'
      BY <1>4, <1>6, <3>4, <3>5, <3>7, <3>8 DEF TokenOnItsWay
    <3>. QED
      BY <3>7, <3>9 DEF TokenKept
  <2>2. CASE x # s
    <3>1. ~Brings(requests[c], x) /\ ~Brings(requests'[c], x) /\ ~Presents(requests'[c], x)
      BY <1>3, <1>5, <1>6, <2>2 DEF Brings, Presents
    <3>. QED
      BY <1>4, <1>6, <1>7, <1>8, <1>10, <2>2, <3>1, OneCallMoves
  <2>. QED
    BY <2>1, <2>2
<1>. QED
  BY <1>9, <1>10 DEF BrowserInv

(* An answer that sets the cookies of its session.                         *)
LEMMA CookiesCome ==
    ASSUME BrowserInv, NEW c \in HttpCalls, NEW s \in Profiles, Brings(requests[c], s),
           SetCookies(s, requests[c].token), requests' = [requests EXCEPT ![c] = NoCall],
           UNCHANGED <<current, owner>>,
           shown' = Nobody \/ OwnerIs(shown', owner)
    PROVE  BrowserInv'
<1>. DEFINE token == requests[c].token
<1>1. /\ BrowserTyped /\ DOMAIN requests = HttpCalls /\ current \in [Profiles -> Nat]
      /\ CallInStep(requests[c], owner)
  BY DEF BrowserInv, BrowserTyped
<1>2. owner[s] \in Accounts /\ token \in Nat \ {0}
  BY <1>1 DEF Brings, CallInStep, OwnerIs, FirstToken
<1>3. /\ DOMAIN requests' = HttpCalls /\ requests'[c] = NoCall
      /\ \A d \in HttpCalls : d # c => requests'[d] = requests[d]
  BY <1>1, OneRequestSet
<1>4. /\ jar' \in Seq(JarCookies)
      /\ \A i, j \in DOMAIN jar' : jar'[i].session = jar'[j].session => i = j
      /\ \A i \in DOMAIN jar' : owner'[jar'[i].session] \in Accounts
      /\ \E i \in DOMAIN jar' : jar'[i].session = s /\ jar'[i].token = token
      /\ \A x \in Profiles : x # s =>
            /\ \A i \in DOMAIN jar' : jar'[i].session = x => \E j \in DOMAIN jar : jar[j] = jar'[i]
            /\ \A i \in DOMAIN jar : jar[i].session = x => \E j \in DOMAIN jar' : jar'[j] = jar[i]
  BY <1>1, <1>2, CookieSet
<1>5. CallInStep(NoCall, owner) /\ \A x : ~Brings(NoCall, x) /\ ~Presents(NoCall, x)
  BY NoCallInStep
<1>6. BrowserTyped'
  <2>1. \A d \in HttpCalls : CallInStep(requests'[d], owner)
    BY <1>1, <1>3, <1>5 DEF BrowserTyped
  <2>. QED
    BY <1>1, <1>3, <1>4, <2>1 DEF BrowserTyped
<1>7. ASSUME NEW x \in Profiles, current'[x] # 0
      PROVE  TokenKept(x)'
  <2>1. CASE x = s
    <3>1. TokenKept(s)
      BY <1>7, <2>1 DEF BrowserInv
    <3>2. TokenOnItsWay(s)
      BY <3>1 DEF TokenKept, TokenInJar
    <3>3. token = current[s] /\ \A d \in HttpCalls : d # c => ~Brings(requests[d], s)
      BY <3>2 DEF TokenOnItsWay
    <3>4. TokenInJar(s)'
      BY <1>3, <1>4, <1>5, <3>3 DEF TokenInJar
    <3>5. \A d \in HttpCalls : Presents(requests'[d], s) => requests'[d].token <= current'[s]
      BY <1>3, <1>5, <3>1 DEF TokenKept
    <3>. QED
      BY <2>1, <3>4, <3>5 DEF TokenKept
  <2>2. CASE x # s
    <3>1. ~Brings(requests[c], x)
      BY <2>2 DEF Brings
    <3>. QED
      BY <1>3, <1>4, <1>5, <1>7, <2>2, <3>1, OneCallMoves
  <2>. QED
    BY <2>1, <2>2
<1>. QED
  BY <1>6, <1>7 DEF BrowserInv

(* What the browser and the store do with an answer.                       *)
LEMMA AnswersTaken ==
    ASSUME BrowserInv, NEW c \in HttpCalls,
           \/ LoginAnswered(c) \/ RefreshAnswered(c) \/ LogoutAnswered(c)
           \/ SessionsAnswered(c) \/ ListsAnswered(c)
    PROVE  BrowserInv'
<1>. DEFINE r == requests[c]
<1>1. /\ DOMAIN requests = HttpCalls /\ CallInStep(r, owner) /\ current \in [Profiles -> Nat]
      /\ (shown = Nobody \/ OwnerIs(shown, owner))
  BY DEF BrowserInv, BrowserTyped
<1>2. requests' = [requests EXCEPT ![c] = NoCall] /\ UNCHANGED <<current, owner>>
  BY DEF LoginAnswered, RefreshAnswered, LogoutAnswered, SessionsAnswered, ListsAnswered
<1>3. r.stage = "answered"
  BY DEF LoginAnswered, RefreshAnswered, LogoutAnswered, SessionsAnswered, ListsAnswered, Answered
<1>4. ASSUME UNCHANGED jar, shown' = Nobody \/ OwnerIs(shown', owner), \A s : ~Brings(r, s)
      PROVE  BrowserInv'
  BY <1>1, <1>2, <1>4, NoCallInStep, OneRequestSet, QuietStep
<1>5. CASE LoginAnswered(c)
  <2>. DEFINE s == r.session
              new == [session |-> s, user |-> r.user]
  <2>1. r.kind = "login" /\ OwnerIs(r, owner) /\ r.token = FirstToken
    BY <1>1, <1>3, <1>5 DEF LoginAnswered, Answered, CallInStep
  <2>2. SetCookies(s, r.token) /\ shown' = new
    BY <1>5 DEF LoginAnswered
  <2>3. new.session = r.session /\ new.user = r.user
    OBVIOUS
  <2>. HIDE DEF new
  <2>4. OwnerIs(shown', owner)
    BY <2>1, <2>2, <2>3 DEF OwnerIs
  <2>5. s \in Profiles /\ Brings(r, s)
    BY <1>3, <2>1 DEF Brings, OwnerIs, FirstToken
  <2>. QED
    BY <1>2, <2>2, <2>4, <2>5, CookiesCome
<1>6. CASE RefreshAnswered(c)
  <2>1. r.kind = "refresh" /\ r.session \in Profiles /\ UNCHANGED shown
    BY <1>1, <1>6 DEF RefreshAnswered, Answered, CallInStep
  <2>2. CASE r.token = 0
    BY <1>1, <1>4, <1>6, <2>1, <2>2 DEF RefreshAnswered, ClearCookies, Brings
  <2>3. CASE r.token # 0
    <3>1. SetCookies(r.session, r.token)
      BY <1>6, <2>3 DEF RefreshAnswered
    <3>2. Brings(r, r.session)
      BY <1>3, <2>1, <2>3 DEF Brings
    <3>. QED
      BY <1>1, <1>2, <2>1, <3>1, <3>2, CookiesCome
  <2>. QED
    BY <2>2, <2>3
<1>7. CASE LogoutAnswered(c)
  <2>1. r.kind = "logout" /\ UNCHANGED <<jar, shown>>
    BY <1>7 DEF LogoutAnswered, Answered, ClearCookies
  <2>. QED
    BY <1>1, <1>4, <2>1 DEF Brings
<1>8. CASE SessionsAnswered(c)
  <2>1. r.kind = "sessions" /\ UNCHANGED jar /\ shown' = Selected(r.list)
    BY <1>8 DEF SessionsAnswered, Answered
  <2>2. \A x \in r.list : OwnerIs(x, owner)
    BY <1>1, <1>3, <2>1 DEF CallInStep
  <2>3. Selected(r.list) \in {shown, Nobody} \/ Selected(r.list) \in r.list
    BY DEF Selected
  <2>4. shown' = Nobody \/ OwnerIs(shown', owner)
    BY <1>1, <2>1, <2>2, <2>3
  <2>. QED
    BY <1>4, <2>1, <2>4 DEF Brings
<1>9. CASE ListsAnswered(c)
  <2>1. r.kind = "lists" /\ UNCHANGED <<jar, shown>>
    BY <1>9 DEF ListsAnswered, Answered
  <2>. QED
    BY <1>1, <1>4, <2>1 DEF Brings
<1>. QED
  BY <1>5, <1>6, <1>7, <1>8, <1>9

(* Sessions that end without a request of this browser, and cookies that   *)
(* expire with their rows.                                                 *)
LEMMA SessionsEnd ==
    ASSUME BrowserInv, UNCHANGED <<requests, owner, shown>>,
           current' \in [Profiles -> Nat],
           \A x \in Profiles : current'[x] # 0 => current'[x] = current[x],
           jar' \in Seq(JarCookies),
           \A i, j \in DOMAIN jar' : jar'[i].session = jar'[j].session => i = j,
           \A i \in DOMAIN jar' : owner'[jar'[i].session] \in Accounts,
           \A x \in Profiles : current'[x] # 0 =>
              /\ \A i \in DOMAIN jar' : jar'[i].session = x => \E j \in DOMAIN jar : jar[j] = jar'[i]
              /\ \A i \in DOMAIN jar : jar[i].session = x => \E j \in DOMAIN jar' : jar'[j] = jar[i]
    PROVE  BrowserInv'
<1>1. BrowserTyped'
  BY DEF BrowserInv, BrowserTyped
<1>2. ASSUME NEW x \in Profiles, current'[x] # 0
      PROVE  TokenKept(x)'
  <2>1. TokenKept(x) /\ current'[x] = current[x]
    BY <1>2 DEF BrowserInv
  <2>2. TokenInJar(x) => TokenInJar(x)'
    BY <1>2, <2>1 DEF TokenInJar
  <2>3. TokenOnItsWay(x) => TokenOnItsWay(x)'
    BY <1>2, <2>1 DEF TokenOnItsWay
  <2>. QED
    BY <2>1, <2>2, <2>3 DEF TokenKept
<1>. QED
  BY <1>1, <1>2 DEF BrowserInv

LEMMA BrowserInvStep == BrowserInv /\ [BrNext]_browserVars => BrowserInv'
<1>. SUFFICES ASSUME BrowserInv, [BrNext]_browserVars
              PROVE  BrowserInv'
  OBVIOUS
<1>1. /\ BrowserTyped /\ current \in [Profiles -> Nat] /\ jar \in Seq(JarCookies)
      /\ \A i, j \in DOMAIN jar : jar[i].session = jar[j].session => i = j
      /\ \A i \in DOMAIN jar : owner[jar[i].session] \in Accounts
  BY DEF BrowserInv, BrowserTyped
<1>2. ASSUME NEW c \in HttpCalls,
             \/ OpenPage(c) \/ AskLists(c)
             \/ \E u \in Accounts : SubmitLogin(c, u)
             \/ \E s \in Profiles, kind \in {"refresh", "logout"} : Request(c, kind, s)
      PROVE  BrowserInv'
  BY <1>2, SendSteps
<1>3. ASSUME NEW c \in HttpCalls, HandleSessions(c) \/ HandleLists(c) \/ HandleLogout(c)
      PROVE  BrowserInv'
  BY <1>3, QuietAnswers
<1>4. ASSUME NEW c \in HttpCalls, NEW s \in Profiles, HandleLogin(c, s)
      PROVE  BrowserInv'
  BY <1>4, LoginHandled
<1>5. ASSUME NEW c \in HttpCalls, HandleRefresh(c)
      PROVE  BrowserInv'
  BY <1>5, QuietAnswers, RefreshHandled
<1>6. ASSUME NEW c \in HttpCalls,
             \/ LoginAnswered(c) \/ RefreshAnswered(c) \/ LogoutAnswered(c)
             \/ SessionsAnswered(c) \/ ListsAnswered(c)
      PROVE  BrowserInv'
  BY <1>6, AnswersTaken
<1>7. ASSUME NEW s \in Profiles, Evict(s)
      PROVE  BrowserInv'
  <2>1. /\ UNCHANGED <<requests, owner, shown, jar>> /\ current' \in [Profiles -> Nat]
        /\ \A x \in Profiles : current'[x] # 0 => current'[x] = current[x]
    BY <1>1, <1>7 DEF Evict
  <2>. QED
    BY <1>1, <2>1, SessionsEnd
<1>8. ASSUME NEW s \in Profiles, RefreshExpires(s)
      PROVE  BrowserInv'
  <2>1. /\ UNCHANGED <<requests, owner, shown>> /\ current' \in [Profiles -> Nat]
        /\ \A x \in Profiles : current'[x] # 0 => x # s /\ current'[x] = current[x]
    BY <1>1, <1>8 DEF RefreshExpires
  <2>2. PICK k \in CookieOf(s) : jar' = RemoveAt(jar, k)
    BY <1>8 DEF RefreshExpires
  <2>3. /\ jar' \in Seq(JarCookies)
        /\ \A i, j \in DOMAIN jar' : jar'[i].session = jar'[j].session => i = j
        /\ \A i \in DOMAIN jar' : owner'[jar'[i].session] \in Accounts
        /\ \A x \in Profiles : x # s =>
              /\ \A i \in DOMAIN jar' : jar'[i].session = x => \E j \in DOMAIN jar : jar[j] = jar'[i]
              /\ \A i \in DOMAIN jar : jar[i].session = x => \E j \in DOMAIN jar' : jar'[j] = jar[i]
    BY <1>1, <2>1, <2>2, CookieExpires
  <2>. QED
    BY <2>1, <2>3, SessionsEnd
<1>9. CASE UNCHANGED <<current, owner, jar, requests, shown>>
  BY <1>1, <1>9, SessionsEnd
<1>10. ASSUME NEW s \in Profiles, AccessExpires(s)
       PROVE  BrowserInv'
  BY <1>9, <1>10 DEF AccessExpires
<1>11. CASE UNCHANGED browserVars
  BY <1>9, <1>11 DEF browserVars
<1>. QED
  BY <1>2, <1>3, <1>4, <1>5, <1>6, <1>7, <1>8, <1>10, <1>11 DEF BrNext

(* Tabs, overtaking answers and refused refreshes never cost the browser   *)
(* an open session (auth.routes.ts:108-173, auth.ts:40-99).                *)
THEOREM OpenSessionsAreKept == BrSpec => []BrowserKeepsItsSessions
<1>. QED
  BY BrowserInvInit, BrowserInvStep, BrowserInvGives, PTL DEF BrSpec

--------------------------------------------------------------------------------
(* RateLimiter. What is left of the timestamps of a limiter counts every   *)
(* grant that the interval ahead still has to allow for.                   *)
(* Which timestamps of a limiter are not before u, of the first n, and how *)
(* many of them all.                                                       *)
Stamped(s, n, u) == {i \in 1..n : s[i] >= u}
CountFrom(s, u) == Cardinality(Stamped(s, Len(s), u))

(* There are finitely many of them.                                        *)
LEMMA StampedFinite ==
    ASSUME NEW s, NEW n \in Nat, NEW u
    PROVE  IsFiniteSet(Stamped(s, n, u)) /\ Cardinality(Stamped(s, n, u)) \in Nat
<1>1. IsFiniteSet(1..n)
  BY FS_Interval
<1>2. IsFiniteSet(Stamped(s, n, u))
  BY <1>1, FS_Subset DEF Stamped
<1>. QED
  BY <1>2, FS_CardinalityType

(* One timestamp more counts when it is not before u.                      *)
LEMMA CountUpTo ==
    ASSUME NEW s, NEW n \in Nat, NEW u \in Int, s[n + 1] \in Int
    PROVE  Cardinality(Stamped(s, n + 1, u))
              = Cardinality(Stamped(s, n, u)) + (IF s[n + 1] >= u THEN 1 ELSE 0)
<1>1. IsFiniteSet(Stamped(s, n, u)) /\ Cardinality(Stamped(s, n, u)) \in Nat
  BY StampedFinite
<1>2. CASE s[n + 1] >= u
  <2>1. Stamped(s, n + 1, u) = Stamped(s, n, u) \cup {n + 1}
    BY <1>2 DEF Stamped
  <2>2. n + 1 \notin Stamped(s, n, u)
    BY DEF Stamped
  <2>3. Cardinality(Stamped(s, n, u) \cup {n + 1}) = Cardinality(Stamped(s, n, u)) + 1
    BY <1>1, <2>2, FS_AddElement
  <2>. QED
    BY <1>2, <2>1, <2>3
<1>3. CASE ~(s[n + 1] >= u)
  <2>1. Stamped(s, n + 1, u) = Stamped(s, n, u)
    BY <1>3 DEF Stamped
  <2>. QED
    BY <1>1, <1>3, <2>1
<1>. QED
  BY <1>2, <1>3

(* What appending a timestamp does to the count.                           *)
LEMMA CountAppended ==
    ASSUME NEW s \in Seq(Nat), NEW x \in Nat, NEW u \in Int
    PROVE  /\ Append(s, x) \in Seq(Nat) /\ Len(Append(s, x)) = Len(s) + 1
           /\ Append(s, x)[Len(s) + 1] = x
           /\ \A i \in 1..Len(s) : Append(s, x)[i] = s[i]
           /\ CountFrom(Append(s, x), u) = CountFrom(s, u) + (IF x >= u THEN 1 ELSE 0)
<1>. DEFINE t == Append(s, x)
<1>1. /\ t \in Seq(Nat) /\ Len(t) = Len(s) + 1 /\ t[Len(s) + 1] = x
      /\ \A i \in 1..Len(s) : t[i] = s[i]
  BY AppendProperties
<1>2. Len(s) \in Nat
  BY LenProperties
<1>. HIDE DEF t
<1>3. Cardinality(Stamped(t, Len(s) + 1, u))
        = Cardinality(Stamped(t, Len(s), u)) + (IF x >= u THEN 1 ELSE 0)
  BY <1>1, <1>2, CountUpTo
<1>4. Stamped(t, Len(s), u) = Stamped(s, Len(s), u)
  BY <1>1 DEF Stamped
<1>5. CountFrom(t, u) = CountFrom(s, u) + (IF x >= u THEN 1 ELSE 0)
  BY <1>1, <1>3, <1>4 DEF CountFrom
<1>. QED
  BY <1>1, <1>5 DEF t

(* What a limiter remembers after it forgot what is not after the cut-off. *)
Remembers(k, s, n, cutoff) ==
    /\ k \in Seq(Nat)
    /\ \A j \in 1..Len(k) : k[j] > cutoff
    /\ \A u \in Int : u > cutoff => CountFrom(k, u) = Cardinality(Stamped(s, n, u))
    /\ n > 0 /\ s[n] > cutoff => Len(k) # 0 /\ k[Len(k)] = s[n]

(* The recursive function of Later exists: it is built from the left.      *)
Filtered(f, s, n, cutoff) ==
    f = [i \in 0..n |-> IF i = 0 THEN <<>>
                        ELSE IF s[i] > cutoff THEN Append(f[i - 1], s[i]) ELSE f[i - 1]]

(* The definition of that function has a solution for every length.        *)
LEMMA FilteredExists ==
    ASSUME NEW s, NEW cutoff, NEW n \in Nat
    PROVE  \E f : Filtered(f, s, n, cutoff)
<1>. DEFINE Without == {k \in Nat : ~\E f : Filtered(f, s, k, cutoff)}
<1>1. SUFFICES ASSUME Without # {}
               PROVE  FALSE
  OBVIOUS
<1>2. PICK k \in Without : \A j \in Without : k <= j
  BY <1>1, LeastNatural, Zenon
<1>3. CASE k = 0
  <2>. DEFINE g == [i \in 0..0 |-> <<>>]
  <2>1. Filtered(g, s, 0, cutoff)
    BY DEF Filtered
  <2>. QED
    BY <1>2, <1>3, <2>1
<1>4. CASE k # 0
  <2>1. k - 1 \in Nat /\ k - 1 \notin Without
    BY <1>2, <1>4
  <2>2. PICK f : Filtered(f, s, k - 1, cutoff)
    BY <2>1
  <2>. DEFINE last == IF s[k] > cutoff THEN Append(f[k - 1], s[k]) ELSE f[k - 1]
              g == [i \in 0..k |-> IF i = k THEN last ELSE f[i]]
  <2>3. \A i \in 0..(k - 1) : f[i] = IF i = 0 THEN <<>>
                        ELSE IF s[i] > cutoff THEN Append(f[i - 1], s[i]) ELSE f[i - 1]
    BY <2>2 DEF Filtered
  <2>4. \A i \in 0..(k - 1) : g[i] = f[i]
    BY <2>1
  <2>5. ASSUME NEW i \in 0..k
        PROVE  g[i] = IF i = 0 THEN <<>>
                      ELSE IF s[i] > cutoff THEN Append(g[i - 1], s[i]) ELSE g[i - 1]
    <3>1. CASE i = k
      <4>1. g[i] = last /\ g[k - 1] = f[k - 1]
        BY <2>1, <2>4, <3>1
      <4>. HIDE DEF g
      <4>. QED
        BY <1>4, <3>1, <4>1
    <3>2. CASE i # k
      <4>1. i \in 0..(k - 1)
        BY <2>1, <3>2
      <4>2. i # 0 => i - 1 \in 0..(k - 1)
        BY <4>1
      <4>. HIDE DEF g
      <4>. QED
        BY <2>3, <2>4, <4>1, <4>2
    <3>. QED
      BY <3>1, <3>2
  <2>6. g = [i \in 0..k |-> g[i]]
    OBVIOUS
  <2>. HIDE DEF g
  <2>7. Filtered(g, s, k, cutoff)
    BY <2>5, <2>6 DEF Filtered
  <2>. QED
    BY <1>2, <2>7
<1>. QED
  BY <1>3, <1>4

(* Later keeps, in order, the timestamps after the cut-off and no others.  *)
LEMMA LaterIs ==
    ASSUME NEW s \in Seq(Nat), NEW cutoff \in Int
    PROVE  Remembers(Later(s, cutoff), s, Len(s), cutoff)
<1>. DEFINE f == CHOOSE x : Filtered(x, s, Len(s), cutoff)
<1>0. Len(s) \in Nat /\ \A i \in 1..Len(s) : s[i] \in Nat
  BY LenProperties, ElementOfSeq
<1>1. Filtered(f, s, Len(s), cutoff)
  BY <1>0, FilteredExists
<1>2. Later(s, cutoff) = f[Len(s)]
  BY DEF Later, Filtered
<1>. HIDE DEF f
<1>3. \A i \in 0..Len(s) : f[i] = IF i = 0 THEN <<>>
                      ELSE IF s[i] > cutoff THEN Append(f[i - 1], s[i]) ELSE f[i - 1]
  BY <1>1 DEF Filtered
<1>. DEFINE Not == {i \in 0..Len(s) : ~Remembers(f[i], s, i, cutoff)}
<1>4. SUFFICES ASSUME Not # {}
               PROVE  FALSE
  <2>1. Len(s) \in 0..Len(s)
    BY <1>0
  <2>. QED
    BY <1>2, <2>1
<1>5. PICK k \in Not : \A j \in Not : k <= j
  <2>1. Not \in SUBSET Nat
    OBVIOUS
  <2>. QED
    BY <1>4, <2>1, LeastNatural, Zenon
<1>6. k \in 0..Len(s) /\ ~Remembers(f[k], s, k, cutoff)
  OBVIOUS
<1>7. CASE k = 0
  <2>1. f[k] = <<>>
    BY <1>3, <1>6, <1>7
  <2>2. <<>> \in Seq(Nat) /\ Len(<<>>) = 0
    OBVIOUS
  <2>3. \A u : Stamped(<<>>, Len(<<>>), u) = {} /\ Stamped(s, 0, u) = {}
    BY <2>2 DEF Stamped
  <2>4. \A u : CountFrom(<<>>, u) = Cardinality(Stamped(s, 0, u))
    BY <2>3 DEF CountFrom
  <2>5. Remembers(<<>>, s, 0, cutoff)
    BY <2>2, <2>4 DEF Remembers
  <2>. QED
    BY <1>6, <1>7, <2>1, <2>5
<1>8. CASE k # 0
  <2>1. k - 1 \in 0..Len(s) /\ k - 1 \in Nat /\ k \in 1..Len(s) /\ (k - 1) + 1 = k
    BY <1>0, <1>6, <1>8
  <2>2. Remembers(f[k - 1], s, k - 1, cutoff)
    BY <1>5, <2>1
  <2>. DEFINE q == f[k - 1]
              x == s[k]
  <2>3. f[k] = IF x > cutoff THEN Append(q, x) ELSE q
    BY <1>3, <1>6, <1>8
  <2>4. q \in Seq(Nat) /\ x \in Nat
    BY <1>0, <2>1, <2>2 DEF Remembers
  <2>5. Len(q) \in Nat
    BY <2>4, LenProperties
  <2>6. \A u \in Int : Cardinality(Stamped(s, k, u))
                          = Cardinality(Stamped(s, k - 1, u)) + (IF x >= u THEN 1 ELSE 0)
    <3>1. ASSUME NEW u \in Int
          PROVE  Cardinality(Stamped(s, (k - 1) + 1, u))
                    = Cardinality(Stamped(s, k - 1, u)) + (IF s[(k - 1) + 1] >= u THEN 1 ELSE 0)
      <4>1. s[(k - 1) + 1] \in Int
        BY <2>1, <2>4
      <4>. QED
        BY <2>1, <4>1, CountUpTo
    <3>. QED
      BY <2>1, <3>1
  <2>. HIDE DEF q, x
  <2>7. CASE x > cutoff
    <3>1. /\ Append(q, x) \in Seq(Nat) /\ Len(Append(q, x)) = Len(q) + 1
          /\ Append(q, x)[Len(q) + 1] = x
          /\ \A i \in 1..Len(q) : Append(q, x)[i] = q[i]
          /\ \A u \in Int : CountFrom(Append(q, x), u) = CountFrom(q, u) + (IF x >= u THEN 1 ELSE 0)
      BY <2>4, CountAppended
    <3>2. \A u \in Int : u > cutoff => CountFrom(q, u) = Cardinality(Stamped(s, k - 1, u))
      BY <2>2 DEF Remembers, q
    <3>3. \A j \in 1..Len(q) : q[j] > cutoff
      BY <2>2 DEF Remembers, q
    <3>. DEFINE t == Append(q, x)
    <3>4. \A u \in Int : u > cutoff => CountFrom(t, u) = Cardinality(Stamped(s, k, u))
      BY <2>6, <3>1, <3>2
    <3>5. \A j \in 1..Len(t) : t[j] > cutoff
      BY <2>5, <2>7, <3>1, <3>3
    <3>6. Len(t) # 0 /\ t[Len(t)] = x
      BY <2>5, <3>1
    <3>7. t \in Seq(Nat)
      BY <3>1
    <3>. HIDE DEF t
    <3>8. Remembers(t, s, k, cutoff)
      BY <3>4, <3>5, <3>6, <3>7 DEF Remembers, x
    <3>. QED
      BY <1>6, <2>3, <2>7, <3>8 DEF t
  <2>8. CASE ~(x > cutoff)
    <3>1. \A u \in Int : u > cutoff => Cardinality(Stamped(s, k, u)) = Cardinality(Stamped(s, k - 1, u))
      <4>1. ASSUME NEW u \in Int, u > cutoff
            PROVE  Cardinality(Stamped(s, k, u)) = Cardinality(Stamped(s, k - 1, u))
        <5>1. Cardinality(Stamped(s, k - 1, u)) \in Nat /\ ~(x >= u)
          BY <2>1, <2>4, <2>8, <4>1, StampedFinite
        <5>. QED
          BY <2>6, <5>1
      <4>. QED
        BY <4>1
    <3>2. Remembers(q, s, k, cutoff)
      BY <2>2, <2>8, <3>1 DEF Remembers, q, x
    <3>. QED
      BY <1>6, <2>3, <2>8, <3>2
  <2>. QED
    BY <2>7, <2>8
<1>. QED
  BY <1>7, <1>8

(* The requests that the middleware served, and those of them from u on.   *)
RouteGrants == {c \in Callers : grants[c].limiter = "route"}
RouteFrom(u) == {c \in RouteGrants : grants[c].at >= u}

(* The clock runs on, so the type of the proof does not bound it.          *)
RLTyped ==
    /\ rlNow \in Nat
    /\ stamps \in [Limiters -> Seq(Nat)]
    /\ grants \in [Callers -> [limiter : Limiters \cup {"none", "rejected"}, at : Int]]

(* Of the requests that are served, those of the window that a new one     *)
(* would fall into are among the timestamps that are kept.                 *)
RouteInv ==
    /\ IsFiniteSet(RouteGrants)
    /\ \A c \in RouteGrants : grants[c].at <= rlNow
    /\ \A u \in Int : u > rlNow - Second + 1 =>
          Cardinality(RouteFrom(u)) <= CountFrom(stamps["route"], u)
    /\ \A t \in Int : Cardinality(Within("route", t, Second - 1)) <= RouteLimit

\* A slot that is not after the last timestamp, or is out of reach.
Behind(l, t) ==
    \/ Len(stamps[l]) # 0 /\ t <= stamps[l][Len(stamps[l])]
    \/ t <= rlNow - SlowInterval + 1

(* Two grants that are almost an interval apart.                           *)
Apart(a, b) == a - b >= SlowInterval - 1 \/ b - a >= SlowInterval - 1

(* The grants of a limiter of a rate below one: none is out of sight of    *)
(* the last timestamp, and any two are apart.                              *)
SpacedOut(l) ==
    /\ \A c \in Callers : grants[c].limiter = l => Behind(l, grants[c].at)
    /\ \A c, d \in Callers : c # d /\ grants[c].limiter = l /\ grants[d].limiter = l =>
          Apart(grants[c].at, grants[d].at)

(* The inductive invariant.                                                *)
RLInv == RLTyped /\ RouteInv /\ \A l \in Limiters : Fractional(l) => SpacedOut(l)

(* The rates of the limiters and the intervals they go with.               *)
LEMMA RatesAre ==
    /\ Rate("route") = RouteLimit /\ ~Fractional("route") /\ IntervalOf("route") = Second
    /\ Fractional("source")
    /\ \A l \in Limiters : Fractional(l) => IntervalOf(l) = SlowInterval
    /\ \A l \in Limiters : ~Fractional(l) => IntervalOf(l) = Second /\ Rate(l) \in Nat /\ Rate(l) > 0
<1>1. /\ Rate("route") = RouteLimit /\ Rate("default") = ApiLimit
      /\ Rate("highPriority") = HighLimit /\ Rate("source") = 0
  BY DEF Rate
<1>. QED
  BY <1>1, RLAssumption DEF Fractional, IntervalOf, Limiters

(* What a limiter remembers when it is asked.                              *)
LEMMA RecentIs ==
    ASSUME RLTyped, NEW l \in Limiters
    PROVE  /\ Remembers(Recent(l), stamps[l], Len(stamps[l]), rlNow - IntervalOf(l) + 1)
           /\ Len(stamps[l]) \in Nat /\ \A i \in 1..Len(stamps[l]) : stamps[l][i] \in Nat
           /\ Recent(l) \in Seq(Nat) /\ Len(Recent(l)) \in Nat
           /\ \A i \in 1..Len(Recent(l)) : Recent(l)[i] \in Nat
<1>1. stamps[l] \in Seq(Nat) /\ rlNow - IntervalOf(l) + 1 \in Int
  BY RatesAre, RLAssumption DEF RLTyped
<1>2. Remembers(Recent(l), stamps[l], Len(stamps[l]), rlNow - IntervalOf(l) + 1)
  BY <1>1, LaterIs DEF Recent
<1>3. Recent(l) \in Seq(Nat)
  BY <1>2 DEF Remembers
<1>. QED
  BY <1>1, <1>2, <1>3, LenProperties, ElementOfSeq

(* The oldest of some timestamps is one of them.                           *)
LEMMA OldestIs ==
    ASSUME NEW s \in Seq(Nat), Len(s) # 0
    PROVE  \E i \in 1..Len(s) : OldestOf(s) = s[i]
<1>. DEFINE times == {s[i] : i \in DOMAIN s}
<1>1. Len(s) \in Nat /\ DOMAIN s = 1..Len(s) /\ \A i \in 1..Len(s) : s[i] \in Nat
  BY LenProperties, ElementOfSeq
<1>2. times \in SUBSET Nat /\ times # {}
  <2>1. 1 \in DOMAIN s
    BY <1>1
  <2>. QED
    BY <1>1, <2>1
<1>3. \E t \in times : \A x \in times : t <= x
  BY <1>2, LeastNatural, Zenon
<1>4. \E t \in {s[i] : i \in DOMAIN s} : \A i \in DOMAIN s : t <= s[i]
  BY <1>3
<1>5. OldestOf(s) \in {s[i] : i \in DOMAIN s}
  BY <1>4 DEF OldestOf
<1>. QED
  BY <1>1, <1>5

(* What a caller is told to wait.                                          *)
LEMMA DelayIs ==
    ASSUME RLTyped, NEW l \in Limiters
    PROVE  /\ GetDelay(l) \in Nat
           /\ ~Fractional(l) => (GetDelay(l) = 0 <=> Len(Recent(l)) < Rate(l))
           /\ Fractional(l) /\ Len(Recent(l)) # 0 =>
                 rlNow + GetDelay(l) >= Recent(l)[Len(Recent(l))] + SlowInterval
<1>. DEFINE k == Recent(l)
<1>1. /\ k \in Seq(Nat) /\ Len(k) \in Nat /\ \A i \in 1..Len(k) : k[i] \in Nat
      /\ \A i \in 1..Len(k) : k[i] > rlNow - IntervalOf(l) + 1
      /\ rlNow \in Nat
  BY RecentIs DEF Remembers, RLTyped
<1>2. k = <<>> <=> Len(k) = 0
  BY <1>1, EmptySeq
<1>3. GetDelay(l) = IF Fractional(l)
        THEN IF k = <<>> THEN 0
             ELSE LET d == k[Len(k)] + SlowInterval - rlNow
                  IN  IF d > 0 THEN d ELSE 0
        ELSE IF Len(k) >= Rate(l) THEN OldestOf(k) + Second - rlNow ELSE 0
  BY DEF GetDelay
<1>. HIDE DEF k
<1>4. CASE Fractional(l)
  <2>1. CASE Len(k) = 0
    BY <1>2, <1>3, <1>4, <2>1 DEF k
  <2>2. CASE Len(k) # 0
    <3>1. Len(k) \in 1..Len(k)
      BY <1>1, <2>2
    <3>2. k[Len(k)] \in Nat /\ SlowInterval \in Nat
      BY <1>1, <3>1, RLAssumption
    <3>. QED
      BY <1>1, <1>2, <1>3, <1>4, <2>2, <3>2 DEF k
  <2>. QED
    BY <2>1, <2>2
<1>5. CASE ~Fractional(l)
  <2>1. IntervalOf(l) = Second /\ Rate(l) \in Nat /\ Rate(l) > 0 /\ Second \in Nat
    BY <1>5, RatesAre, RLAssumption
  <2>2. CASE Len(k) >= Rate(l)
    <3>1. PICK i \in 1..Len(k) : OldestOf(k) = k[i]
      BY <1>1, <2>1, <2>2, OldestIs
    <3>2. OldestOf(k) \in Nat /\ OldestOf(k) > rlNow - Second + 1
      BY <1>1, <2>1, <3>1
    <3>. QED
      BY <1>1, <1>3, <1>5, <2>1, <2>2, <3>2 DEF k
  <2>3. CASE ~(Len(k) >= Rate(l))
    BY <1>1, <1>3, <1>5, <2>1, <2>3 DEF k
  <2>. QED
    BY <2>2, <2>3
<1>. QED
  BY <1>4, <1>5

(* A caller that is not served by the middleware leaves the route as it is. *)
LEMMA RouteStays ==
    ASSUME RLTyped, RouteInv, NEW c \in Callers, grants[c] = Pending, NEW g, g.limiter # "route",
           grants' = [grants EXCEPT ![c] = g], rlNow' = rlNow,
           \A u \in Int : u > rlNow - Second + 1 =>
              CountFrom(stamps'["route"], u) = CountFrom(stamps["route"], u)
    PROVE  RouteInv'
<1>1. grants[c].limiter # "route"
  BY DEF Pending
<1>2. \A d \in Callers : /\ grants'[d].limiter = "route" <=> grants[d].limiter = "route"
                         /\ grants[d].limiter = "route" => grants'[d] = grants[d]
  BY <1>1 DEF RLTyped
<1>3. RouteGrants' = RouteGrants
  BY <1>2 DEF RouteGrants
<1>4. \A u : RouteFrom(u)' = RouteFrom(u)
  BY <1>2, <1>3 DEF RouteFrom, RouteGrants
<1>5. \A t, n : Within("route", t, n)' = Within("route", t, n)
  BY <1>2 DEF Within
<1>. QED
  BY <1>2, <1>3, <1>4, <1>5 DEF RouteInv, RouteGrants

(* A limiter counts no more than it holds.                                 *)
LEMMA CountBound ==
    ASSUME NEW s \in Seq(Nat), NEW u
    PROVE  CountFrom(s, u) <= Len(s) /\ CountFrom(s, u) \in Nat
<1>1. Len(s) \in Nat
  BY LenProperties
<1>2. IsFiniteSet(1..Len(s)) /\ Cardinality(1..Len(s)) = Len(s)
  <2>. DEFINE n == Len(s)
  <2>1. n \in Int /\ n >= 0 /\ 1 \in Int
    BY <1>1
  <2>. HIDE DEF n
  <2>2. IsFiniteSet(1..n) /\ Cardinality(1..n) = IF 1 > n THEN 0 ELSE n - 1 + 1
    BY <2>1, FS_Interval
  <2>3. Cardinality(1..n) = n
    BY <2>1, <2>2
  <2>. QED
    BY <2>2, <2>3 DEF n
<1>3. Stamped(s, Len(s), u) \subseteq 1..Len(s)
  BY DEF Stamped
<1>4. Cardinality(Stamped(s, Len(s), u)) <= Cardinality(1..Len(s))
  BY <1>2, <1>3, FS_Subset
<1>. QED
  BY <1>1, <1>2, <1>4, StampedFinite DEF CountFrom

(* A request that the middleware serves found room in the window: the      *)
(* limiter held fewer timestamps than its limit, and it holds one for each *)
(* request the window has seen.                                            *)
LEMMA RouteServed ==
    ASSUME RLTyped, RouteInv, NEW c \in Callers, grants[c] = Pending, NEW g,
           g.limiter = "route", g.at = rlNow,
           grants' = [grants EXCEPT ![c] = g], rlNow' = rlNow,
           GetDelay("route") = 0, stamps'["route"] = Append(Recent("route"), rlNow)
    PROVE  RouteInv'
<1>. DEFINE k == Recent("route")
            s == stamps["route"]
            t == Append(k, rlNow)
<1>0. "route" \in Limiters /\ RouteLimit \in Nat /\ Second \in Nat /\ rlNow \in Nat
  BY RLAssumption DEF Limiters, RLTyped
<1>1. /\ k \in Seq(Nat) /\ Len(k) \in Nat /\ s \in Seq(Nat)
      /\ \A u \in Int : u > rlNow - Second + 1 => CountFrom(k, u) = CountFrom(s, u)
  BY <1>0, RecentIs, RatesAre DEF Remembers, RLTyped, CountFrom
<1>2. Len(k) < RouteLimit
  BY <1>0, DelayIs, RatesAre
<1>3. /\ t \in Seq(Nat) /\ Len(t) = Len(k) + 1
      /\ \A u \in Int : CountFrom(t, u) = CountFrom(k, u) + (IF rlNow >= u THEN 1 ELSE 0)
  BY <1>0, <1>1, CountAppended
<1>4. stamps'["route"] = t
  OBVIOUS
<1>. HIDE DEF k, s, t
<1>5. \A u \in Int : CountFrom(t, u) \in Nat /\ CountFrom(t, u) <= RouteLimit /\ CountFrom(s, u) \in Nat
  BY <1>0, <1>1, <1>2, <1>3, CountBound, SMTT(30)
<1>6. /\ \A d \in Callers : d # c => grants'[d] = grants[d]
      /\ grants'[c] = g /\ grants[c].limiter # "route"
  BY DEF RLTyped, Pending
<1>7. RouteGrants' = RouteGrants \cup {c}
  BY <1>6 DEF RouteGrants
<1>8. IsFiniteSet(RouteGrants')
  <2>1. IsFiniteSet(RouteGrants)
    BY DEF RouteInv
  <2>. QED
    BY <1>7, <2>1, FS_AddElement
<1>9. \A d \in RouteGrants' : grants'[d].at <= rlNow'
  BY <1>0, <1>6, <1>7 DEF RouteInv, RouteGrants
<1>10. ASSUME NEW u \in Int, u > rlNow - Second + 1
       PROVE  Cardinality(RouteFrom(u)') <= CountFrom(t, u)
  <2>1. IsFiniteSet(RouteFrom(u)) /\ Cardinality(RouteFrom(u)) \in Nat
    <3>1. IsFiniteSet(RouteGrants) /\ RouteFrom(u) \subseteq RouteGrants
      BY DEF RouteInv, RouteFrom
    <3>2. IsFiniteSet(RouteFrom(u))
      BY <3>1, FS_Subset
    <3>. QED
      BY <3>2, FS_CardinalityType
  <2>2. Cardinality(RouteFrom(u)) <= CountFrom(s, u)
    BY <1>10 DEF RouteInv, s
  <2>3. CASE rlNow >= u
    <3>1. RouteFrom(u)' = RouteFrom(u) \cup {c} /\ c \notin RouteFrom(u)
      BY <1>6, <1>7, <2>3 DEF RouteFrom, RouteGrants
    <3>2. Cardinality(RouteFrom(u) \cup {c}) = Cardinality(RouteFrom(u)) + 1
      BY <2>1, <3>1, FS_AddElement
    <3>. QED
      BY <1>1, <1>3, <1>5, <1>10, <2>1, <2>2, <2>3, <3>1, <3>2
  <2>4. CASE ~(rlNow >= u)
    <3>1. RouteFrom(u)' = RouteFrom(u)
      BY <1>6, <1>7, <2>4 DEF RouteFrom, RouteGrants
    <3>. QED
      BY <1>1, <1>3, <1>5, <1>10, <2>1, <2>2, <2>4, <3>1
  <2>. QED
    BY <2>3, <2>4
<1>11. ASSUME NEW x \in Int
       PROVE  Cardinality(Within("route", x, Second - 1)') <= RouteLimit
  <2>1. CASE rlNow \in x..(x + (Second - 1) - 1)
    <3>1. x > rlNow - Second + 1
      BY <1>0, <2>1
    <3>2. Cardinality(RouteFrom(x)') <= RouteLimit
      <4>1. IsFiniteSet(RouteFrom(x)')
        BY <1>8, FS_Subset DEF RouteFrom
      <4>2. Cardinality(RouteFrom(x)') \in Nat
        BY <4>1, FS_CardinalityType
      <4>. QED
        BY <1>0, <1>5, <1>10, <3>1, <4>2
    <3>3. Within("route", x, Second - 1)' \subseteq RouteFrom(x)'
      BY DEF Within, RouteFrom, RouteGrants
    <3>4. IsFiniteSet(RouteFrom(x)') /\ Cardinality(RouteFrom(x)') \in Nat
      <4>1. IsFiniteSet(RouteFrom(x)')
        BY <1>8, FS_Subset DEF RouteFrom
      <4>. QED
        BY <4>1, FS_CardinalityType
    <3>5. /\ IsFiniteSet(Within("route", x, Second - 1)')
          /\ Cardinality(Within("route", x, Second - 1)') <= Cardinality(RouteFrom(x)')
      BY <3>3, <3>4, FS_Subset
    <3>6. Cardinality(Within("route", x, Second - 1)') \in Nat
      BY <3>5, FS_CardinalityType
    <3>. QED
      BY <1>0, <3>2, <3>4, <3>5, <3>6
  <2>2. CASE rlNow \notin x..(x + (Second - 1) - 1)
    <3>1. Within("route", x, Second - 1)' = Within("route", x, Second - 1)
      BY <1>6, <2>2 DEF Within
    <3>. QED
      BY <3>1 DEF RouteInv
  <2>. QED
    BY <2>1, <2>2
<1>. QED
  BY <1>4, <1>8, <1>9, <1>10, <1>11 DEF RouteInv

(* What a limiter of a rate below one still holds back with its last       *)
(* timestamp, once it forgot the old ones.                                 *)
LEMMA StillBehind ==
    ASSUME RLTyped, NEW l \in Limiters, Fractional(l), NEW t \in Int, Behind(l, t)
    PROVE  \/ Len(Recent(l)) # 0 /\ t <= Recent(l)[Len(Recent(l))]
           \/ t <= rlNow - SlowInterval + 1
<1>. DEFINE s == stamps[l]
            k == Recent(l)
            cutoff == rlNow - SlowInterval + 1
<1>1. /\ Len(s) \in Nat /\ \A i \in 1..Len(s) : s[i] \in Nat
      /\ Len(s) > 0 /\ s[Len(s)] > cutoff => Len(k) # 0 /\ k[Len(k)] = s[Len(s)]
  BY RecentIs, RatesAre DEF Remembers
<1>2. cutoff \in Int
  BY RLAssumption DEF RLTyped
<1>3. (Len(s) # 0 /\ t <= s[Len(s)]) \/ t <= cutoff
  BY DEF Behind
<1>. HIDE DEF s, k, cutoff
<1>4. CASE Len(s) # 0 /\ t <= s[Len(s)]
  <2>1. Len(s) \in 1..Len(s)
    BY <1>1, <1>4
  <2>2. s[Len(s)] \in Nat
    BY <1>1, <2>1
  <2>3. CASE s[Len(s)] > cutoff
    BY <1>1, <1>4, <2>3 DEF k
  <2>4. CASE ~(s[Len(s)] > cutoff)
    <3>1. t <= cutoff
      BY <1>2, <1>4, <2>2, <2>4
    <3>. QED
      BY <3>1 DEF cutoff
  <2>. QED
    BY <2>3, <2>4
<1>. QED
  BY <1>3, <1>4 DEF cutoff

(* Forgetting what is old keeps the grants of a limiter spaced out.        *)
LEMMA SpacedKept ==
    ASSUME RLTyped, NEW l \in Limiters, Fractional(l), SpacedOut(l),
           NEW c \in Callers, grants[c] = Pending, NEW g, g.limiter # l,
           grants' = [grants EXCEPT ![c] = g], rlNow' = rlNow,
           stamps'[l] = stamps[l] \/ stamps'[l] = Recent(l)
    PROVE  SpacedOut(l)'
<1>1. \A d \in Callers : /\ d # c => grants'[d] = grants[d]
                         /\ grants'[d].limiter = l => d # c
  BY DEF RLTyped
<1>2. ASSUME NEW d \in Callers, grants'[d].limiter = l
      PROVE  Behind(l, grants[d].at)'
  <2>1. grants'[d] = grants[d] /\ grants[d].limiter = l /\ grants[d].at \in Int
    BY <1>1, <1>2 DEF RLTyped
  <2>2. Behind(l, grants[d].at)
    BY <2>1 DEF SpacedOut
  <2>3. CASE stamps'[l] = stamps[l]
    BY <2>1, <2>2, <2>3 DEF Behind
  <2>4. CASE stamps'[l] = Recent(l)
    BY <2>1, <2>2, <2>4, StillBehind DEF Behind
  <2>. QED
    BY <2>3, <2>4
<1>3. ASSUME NEW d \in Callers, NEW e \in Callers, d # e,
             grants'[d].limiter = l, grants'[e].limiter = l
      PROVE  Apart(grants'[d].at, grants'[e].at)
  BY <1>1, <1>3 DEF SpacedOut
<1>. QED
  BY <1>2, <1>3 DEF SpacedOut, Apart

(* A grant that waits for the last timestamp is apart from all of them.    *)
LEMMA SpacedServed ==
    ASSUME RLTyped, NEW l \in Limiters, Fractional(l), SpacedOut(l),
           NEW c \in Callers, grants[c] = Pending, NEW at \in Nat,
           grants' = [grants EXCEPT ![c] = [limiter |-> l, at |-> at]], rlNow' = rlNow,
           at >= rlNow,
           Len(Recent(l)) # 0 => at >= Recent(l)[Len(Recent(l))] + SlowInterval,
           Len(stamps'[l]) # 0, stamps'[l][Len(stamps'[l])] = at
    PROVE  SpacedOut(l)'
<1>0. SlowInterval \in Nat /\ SlowInterval >= 2 /\ rlNow \in Nat
  BY RLAssumption, SMTT(30) DEF RLTyped
<1>1. /\ \A d \in Callers : d # c => grants'[d] = grants[d]
      /\ grants'[c].limiter = l /\ grants'[c].at = at
  BY DEF RLTyped
<1>2. ASSUME NEW d \in Callers, d # c, grants'[d].limiter = l
      PROVE  grants'[d].at \in Int /\ at - grants'[d].at >= SlowInterval - 1 /\ grants'[d].at <= at
  <2>1. grants'[d] = grants[d] /\ grants[d].limiter = l /\ grants[d].at \in Int
    BY <1>1, <1>2 DEF RLTyped
  <2>. DEFINE t == grants[d].at
              k == Recent(l)
  <2>2. Behind(l, t)
    BY <2>1 DEF SpacedOut
  <2>3. (Len(k) # 0 /\ t <= k[Len(k)]) \/ t <= rlNow - SlowInterval + 1
    BY <2>1, <2>2, StillBehind
  <2>4. Len(k) # 0 => k[Len(k)] \in Nat
    <3>1. Len(k) \in Nat /\ \A i \in 1..Len(k) : k[i] \in Nat
      BY RecentIs
    <3>2. Len(k) # 0 => Len(k) \in 1..Len(k)
      BY <3>1
    <3>. QED
      BY <3>1, <3>2
  <2>5. Len(k) # 0 => at >= k[Len(k)] + SlowInterval
    OBVIOUS
  <2>6. t \in Int
    BY <2>1
  <2>. HIDE DEF t, k
  <2>7. at - t >= SlowInterval - 1 /\ t <= at
    BY <1>0, <2>3, <2>4, <2>5, <2>6
  <2>. QED
    BY <2>1, <2>7 DEF t
<1>3. ASSUME NEW d \in Callers, grants'[d].limiter = l
      PROVE  Behind(l, grants[d].at)'
  <2>1. grants'[d].at <= at
    BY <1>0, <1>1, <1>2, <1>3
  <2>. QED
    BY <2>1 DEF Behind
<1>4. ASSUME NEW d \in Callers, NEW e \in Callers, d # e,
             grants'[d].limiter = l, grants'[e].limiter = l
      PROVE  Apart(grants'[d].at, grants'[e].at)
  <2>1. CASE d = c
    BY <1>1, <1>2, <1>4, <2>1 DEF Apart
  <2>2. CASE e = c
    BY <1>1, <1>2, <1>4, <2>2 DEF Apart
  <2>3. CASE d # c /\ e # c
    BY <1>1, <1>4, <2>3 DEF SpacedOut
  <2>. QED
    BY <2>1, <2>2, <2>3
<1>. QED
  BY <1>3, <1>4 DEF SpacedOut, Apart

(* RLInv holds at first and is kept by every step.                         *)
LEMMA RLInvInit == RLInit => RLInv
<1>. SUFFICES ASSUME RLInit
              PROVE  RLInv
  OBVIOUS
<1>1. RLTyped
  <2>1. <<>> \in Seq(Nat)
    OBVIOUS
  <2>. QED
    BY <2>1 DEF RLInit, RLTyped, Pending
<1>2. \A c \in Callers, l \in Limiters : grants[c].limiter # l
  BY DEF RLInit, Pending, Limiters
<1>3. RouteGrants = {} /\ \A u : RouteFrom(u) = {} /\ \A t, n : Within("route", t, n) = {}
  BY <1>2 DEF RouteGrants, RouteFrom, Within, Limiters
<1>4. IsFiniteSet({}) /\ Cardinality({}) = 0
  BY FS_EmptySet
<1>5. \A u : CountFrom(stamps["route"], u) \in Nat
  BY <1>1, CountBound DEF RLTyped, Limiters
<1>6. RouteInv
  <2>1. \A u \in Int : Cardinality(RouteFrom(u)) = 0
    BY <1>3, <1>4
  <2>2. \A t \in Int : Cardinality(Within("route", t, Second - 1)) = 0
    BY <1>3, <1>4
  <2>3. \A u \in Int : Cardinality(RouteFrom(u)) <= CountFrom(stamps["route"], u)
    BY <1>5, <2>1
  <2>4. \A t \in Int : Cardinality(Within("route", t, Second - 1)) <= RouteLimit
    BY <2>2, RLAssumption
  <2>. QED
    BY <1>3, <1>4, <2>3, <2>4 DEF RouteInv
<1>7. \A l \in Limiters : SpacedOut(l)
  BY <1>2 DEF SpacedOut
<1>. QED
  BY <1>1, <1>6, <1>7 DEF RLInv

(* Time only makes the windows smaller and the grants older.               *)
LEMMA TickKeeps ==
    ASSUME RLInv, Tick
    PROVE  RLInv'
<1>0. /\ rlNow \in Nat /\ rlNow' = rlNow + 1 /\ stamps' = stamps /\ grants' = grants
      /\ Second \in Nat /\ SlowInterval \in Nat
  BY RLAssumption DEF RLInv, RLTyped, Tick
<1>1. RLTyped'
  BY <1>0 DEF RLInv, RLTyped
<1>2. RouteInv'
  <2>1. RouteGrants' = RouteGrants /\ \A u : RouteFrom(u)' = RouteFrom(u)
    BY <1>0 DEF RouteGrants, RouteFrom
  <2>2. \A t, n : Within("route", t, n)' = Within("route", t, n)
    BY <1>0 DEF Within
  <2>3. \A c \in RouteGrants : grants'[c].at <= rlNow'
    <3>1. \A c \in RouteGrants : grants[c].at \in Int /\ grants[c].at <= rlNow
      BY DEF RLInv, RLTyped, RouteInv, RouteGrants
    <3>. QED
      BY <1>0, <3>1
  <2>4. \A u \in Int : u > rlNow' - Second + 1 => u > rlNow - Second + 1
    BY <1>0
  <2>. QED
    BY <1>0, <2>1, <2>2, <2>3, <2>4 DEF RLInv, RouteInv
<1>3. ASSUME NEW l \in Limiters, Fractional(l)
      PROVE  SpacedOut(l)'
  <2>1. SpacedOut(l)
    BY <1>3 DEF RLInv
  <2>2. \A t \in Int : Behind(l, t) => Behind(l, t)'
    BY <1>0 DEF Behind
  <2>3. \A c \in Callers : grants[c].at \in Int
    BY DEF RLInv, RLTyped
  <2>. QED
    BY <1>0, <2>1, <2>2, <2>3 DEF SpacedOut, Apart
<1>. QED
  BY <1>1, <1>2, <1>3 DEF RLInv

(* The middleware serves or rejects.                                       *)
LEMMA RejectOrServeKeeps ==
    ASSUME RLInv, NEW c \in Callers, RejectOrServe(c)
    PROVE  RLInv'
<1>0. /\ RLTyped /\ RouteInv /\ grants[c] = Pending /\ rlNow' = rlNow /\ rlNow \in Nat
      /\ "route" \in Limiters /\ ~Fractional("route")
  BY RatesAre DEF RLInv, RLTyped, RejectOrServe, Limiters
<1>. DEFINE k == Recent("route")
<1>1. k \in Seq(Nat) /\ GetDelay("route") \in Nat
  BY <1>0, RecentIs, DelayIs
<1>2. PICK g \in {[limiter |-> "rejected", at |-> rlNow], [limiter |-> "route", at |-> rlNow]},
           s \in {k, Append(k, rlNow)} :
        /\ stamps' = [stamps EXCEPT !["route"] = s] /\ grants' = [grants EXCEPT ![c] = g]
        /\ g.limiter = "route" => GetDelay("route") = 0 /\ s = Append(k, rlNow)
        /\ g.limiter # "route" => s = k
  <2>1. CASE GetDelay("route") > 0
    BY <2>1 DEF RejectOrServe, Granted
  <2>2. CASE ~(GetDelay("route") > 0)
    BY <1>1, <2>2 DEF RejectOrServe, Granted
  <2>. QED
    BY <2>1, <2>2
<1>3. s \in Seq(Nat) /\ stamps'["route"] = s /\ \A l \in Limiters \ {"route"} : stamps'[l] = stamps[l]
  <2>1. s \in Seq(Nat)
    <3>1. Append(k, rlNow) \in Seq(Nat)
      BY <1>0, <1>1, CountAppended
    <3>. QED
      BY <1>1, <1>2, <3>1
  <2>. HIDE DEF k
  <2>2. stamps'["route"] = s /\ \A l \in Limiters \ {"route"} : stamps'[l] = stamps[l]
    BY <1>0, <1>2 DEF RLTyped
  <2>. QED
    BY <2>1, <2>2
<1>4. RLTyped'
  BY <1>0, <1>2, <1>3 DEF RLTyped, Limiters
<1>5. RouteInv'
  <2>1. CASE g.limiter = "route"
    BY <1>0, <1>2, <1>3, <2>1, RouteServed
  <2>2. CASE g.limiter # "route"
    <3>1. \A u \in Int : u > rlNow - Second + 1 => CountFrom(k, u) = CountFrom(stamps["route"], u)
      BY <1>0, RecentIs, RatesAre DEF Remembers, CountFrom
    <3>. HIDE DEF k
    <3>. QED
      BY <1>0, <1>2, <1>3, <2>2, <3>1, RouteStays
  <2>. QED
    BY <2>1, <2>2
<1>6. ASSUME NEW l \in Limiters, Fractional(l)
      PROVE  SpacedOut(l)'
  <2>1. l # "route" /\ SpacedOut(l)
    BY <1>0, <1>6 DEF RLInv
  <2>2. g.limiter # l /\ stamps'[l] = stamps[l]
    BY <1>2, <1>3, <2>1 DEF Limiters
  <2>. QED
    BY <1>0, <1>2, <1>6, <2>1, <2>2, SpacedKept
<1>. QED
  BY <1>4, <1>5, <1>6 DEF RLInv

(* An API client books a slot.                                             *)
LEMMA BookKeeps ==
    ASSUME RLInv, NEW c \in Callers, grants[c] = Pending, rlNow' = rlNow,
           NEW l \in {"default", "highPriority"}, Book(c, l)
    PROVE  RLInv'
<1>. DEFINE k == Recent(l)
            at == rlNow + GetDelay(l)
            g == [limiter |-> l, at |-> at]
<1>0. /\ RLTyped /\ RouteInv /\ rlNow \in Nat
      /\ l \in Limiters /\ l # "route" /\ "route" \in Limiters
  BY DEF RLInv, RLTyped, Limiters
<1>1. k \in Seq(Nat) /\ at \in Nat /\ at >= rlNow
  BY <1>0, RecentIs, DelayIs
<1>2. Fractional(l) /\ Len(k) # 0 => at >= k[Len(k)] + SlowInterval
  BY <1>0, DelayIs
<1>3. /\ stamps' = [stamps EXCEPT ![l] = Append(k, at)]
      /\ grants' = [grants EXCEPT ![c] = g]
  BY DEF Book, Granted
<1>4. /\ Append(k, at) \in Seq(Nat) /\ Len(Append(k, at)) # 0
      /\ Append(k, at)[Len(Append(k, at))] = at
  <2>1. Len(k) \in Nat
    BY <1>1, LenProperties
  <2>. QED
    BY <1>1, <2>1, CountAppended
<1>5. stamps'[l] = Append(k, at) /\ \A m \in Limiters \ {l} : stamps'[m] = stamps[m]
  BY <1>0, <1>3 DEF RLTyped
<1>6. g.limiter = l /\ g.at = at /\ g \in [limiter : Limiters \cup {"none", "rejected"}, at : Int]
  BY <1>0, <1>1
<1>. HIDE DEF k, at
<1>7. RLTyped'
  <2>1. stamps' \in [Limiters -> Seq(Nat)]
    BY <1>0, <1>3, <1>4 DEF RLTyped
  <2>2. grants' \in [Callers -> [limiter : Limiters \cup {"none", "rejected"}, at : Int]]
    BY <1>0, <1>3, <1>6 DEF RLTyped
  <2>. QED
    BY <1>0, <2>1, <2>2 DEF RLTyped
<1>8. RouteInv'
  <2>1. stamps'["route"] = stamps["route"] /\ g.limiter # "route"
    BY <1>0, <1>5, <1>6
  <2>. HIDE DEF g
  <2>. QED
    BY <1>0, <1>3, <2>1, RouteStays
<1>9. ASSUME NEW m \in Limiters, Fractional(m)
      PROVE  SpacedOut(m)'
  <2>1. SpacedOut(m)
    BY <1>9 DEF RLInv
  <2>2. CASE m = l
    BY <1>0, <1>1, <1>2, <1>3, <1>4, <1>5, <1>9, <2>1, <2>2, SpacedServed DEF k
  <2>3. CASE m # l
    <3>1. stamps'[m] = stamps[m] /\ g.limiter # m
      BY <1>5, <1>6, <2>3
    <3>. HIDE DEF g
    <3>. QED
      BY <1>0, <1>3, <1>9, <2>1, <3>1, SpacedKept
  <2>. QED
    BY <2>2, <2>3
<1>. QED
  BY <1>7, <1>8, <1>9 DEF RLInv

(* A source's file is refused or books two slots.                          *)
LEMMA FetchSourceKeeps ==
    ASSUME RLInv, NEW c \in Callers, FetchSource(c)
    PROVE  RLInv'
<1>. DEFINE k == Recent("source")
            at == rlNow + SlowInterval
            both == Append(Append(k, rlNow), at)
            rejected == [limiter |-> "rejected", at |-> rlNow]
            served == [limiter |-> "source", at |-> at]
<1>0. /\ RLTyped /\ RouteInv /\ grants[c] = Pending /\ rlNow' = rlNow /\ rlNow \in Nat
      /\ "source" \in Limiters /\ "route" \in Limiters /\ Fractional("source")
      /\ SpacedOut("source") /\ SlowInterval \in Nat
  BY RatesAre, RLAssumption DEF RLInv, RLTyped, FetchSource, Limiters
<1>1. /\ k \in Seq(Nat) /\ Len(k) \in Nat /\ \A i \in 1..Len(k) : k[i] \in Nat
      /\ GetDelay("source") \in Nat /\ at \in Nat
  BY <1>0, RecentIs, DelayIs
<1>2. both \in Seq(Nat) /\ Len(both) # 0 /\ both[Len(both)] = at
  <2>. DEFINE once == Append(k, rlNow)
  <2>1. once \in Seq(Nat)
    BY <1>0, <1>1, CountAppended
  <2>2. Len(once) \in Nat
    BY <2>1, LenProperties
  <2>. HIDE DEF once
  <2>3. /\ Append(once, at) \in Seq(Nat) /\ Len(Append(once, at)) = Len(once) + 1
        /\ Append(once, at)[Len(once) + 1] = at
    BY <1>1, <2>1, CountAppended
  <2>. QED
    BY <2>2, <2>3 DEF once
<1>3. \/ /\ stamps' = [stamps EXCEPT !["source"] = k]
         /\ grants' = [grants EXCEPT ![c] = rejected]
      \/ /\ GetDelay("source") = 0
         /\ stamps' = [stamps EXCEPT !["source"] = both]
         /\ grants' = [grants EXCEPT ![c] = served]
  <2>1. CASE GetDelay("source") > 0
    BY <2>1 DEF FetchSource, Granted
  <2>2. CASE ~(GetDelay("source") > 0)
    <3>1. GetDelay("source") = 0
      BY <1>1, <2>2
    <3>. QED
      BY <2>2, <3>1 DEF FetchSource, Granted
  <2>. QED
    BY <2>1, <2>2
<1>4. Len(k) # 0 => rlNow + GetDelay("source") >= k[Len(k)] + SlowInterval
  BY <1>0, DelayIs
<1>5. /\ rejected.limiter = "rejected" /\ served.limiter = "source"
      /\ {rejected, served} \subseteq [limiter : Limiters \cup {"none", "rejected"}, at : Int]
  BY <1>0, <1>1
<1>6. PICK s \in {k, both}, g \in {rejected, served} :
        /\ stamps' = [stamps EXCEPT !["source"] = s] /\ grants' = [grants EXCEPT ![c] = g]
        /\ \/ g = rejected /\ s = k
           \/ g = served /\ s = both /\ GetDelay("source") = 0
  <2>. HIDE DEF k, both, rejected, served
  <2>. QED
    BY <1>3
<1>7. stamps'["source"] = s /\ \A m \in Limiters \ {"source"} : stamps'[m] = stamps[m]
  BY <1>0, <1>6 DEF RLTyped
<1>8. /\ g.limiter \notin Limiters \ {"source"}
      /\ g \in [limiter : Limiters \cup {"none", "rejected"}, at : Int] /\ s \in Seq(Nat)
  BY <1>1, <1>2, <1>5, <1>6 DEF Limiters
<1>. HIDE DEF k, at, both
<1>9. RLTyped'
  <2>1. stamps' \in [Limiters -> Seq(Nat)]
    BY <1>0, <1>6, <1>8 DEF RLTyped
  <2>2. grants' \in [Callers -> [limiter : Limiters \cup {"none", "rejected"}, at : Int]]
    BY <1>0, <1>6, <1>8 DEF RLTyped
  <2>. QED
    BY <1>0, <2>1, <2>2 DEF RLTyped
<1>10. RouteInv'
  <2>1. stamps'["route"] = stamps["route"] /\ g.limiter # "route"
    BY <1>7, <1>8 DEF Limiters
  <2>2. grants' = [grants EXCEPT ![c] = g]
    BY <1>6
  <2>. QED
    BY <1>0, <2>1, <2>2, RouteStays
<1>11. ASSUME NEW m \in Limiters, Fractional(m)
       PROVE  SpacedOut(m)'
  <2>1. SpacedOut(m) /\ grants' = [grants EXCEPT ![c] = g]
    BY <1>6, <1>11 DEF RLInv
  <2>2. CASE m # "source"
    <3>1. stamps'[m] = stamps[m] /\ g.limiter # m
      BY <1>7, <1>8, <2>2
    <3>. QED
      BY <1>0, <1>11, <2>1, <3>1, SpacedKept
  <2>3. CASE m = "source" /\ g = rejected /\ s = k
    <3>1. stamps'["source"] = Recent("source") /\ g.limiter # "source"
      BY <1>5, <1>7, <2>3 DEF k
    <3>. QED
      BY <1>0, <2>1, <2>3, <3>1, SpacedKept
  <2>4. CASE m = "source" /\ g = served /\ s = both /\ GetDelay("source") = 0
    <3>1. at >= rlNow
      BY <1>0 DEF at
    <3>2. Len(k) # 0 => at >= k[Len(k)] + SlowInterval
      <4>1. ASSUME Len(k) # 0
            PROVE  at >= k[Len(k)] + SlowInterval
        <5>1. k[Len(k)] \in Nat
          <6>1. Len(k) \in 1..Len(k)
            BY <1>1, <4>1
          <6>. QED
            BY <1>1, <6>1
        <5>. QED
          BY <1>0, <1>4, <2>4, <4>1, <5>1 DEF at
      <4>. QED
        BY <4>1
    <3>3. grants' = [grants EXCEPT ![c] = [limiter |-> "source", at |-> at]]
      BY <1>6, <2>4
    <3>. QED
      BY <1>0, <1>1, <1>2, <1>7, <2>1, <2>4, <3>1, <3>2, <3>3, SpacedServed DEF k
  <2>. QED
    BY <1>6, <2>2, <2>3, <2>4
<1>. QED
  BY <1>9, <1>10, <1>11 DEF RLInv

(* Every step of the limiters keeps RLInv.                                 *)
LEMMA RLInvStep == RLInv /\ [RLNext]_rlVars => RLInv'
<1>. SUFFICES ASSUME RLInv, [RLNext]_rlVars
              PROVE  RLInv'
  OBVIOUS
<1>1. CASE Tick
  BY <1>1, TickKeeps
<1>2. ASSUME NEW c \in Callers, RejectOrServe(c)
      PROVE  RLInv'
  BY <1>2, RejectOrServeKeeps
<1>3. ASSUME NEW c \in Callers, NEW high \in BOOLEAN, ApiThrottle(c, high)
      PROVE  RLInv'
  BY <1>3, BookKeeps DEF ApiThrottle
<1>4. ASSUME NEW c \in Callers, FetchSource(c)
      PROVE  RLInv'
  BY <1>4, FetchSourceKeeps
<1>5. CASE UNCHANGED rlVars
  <2>1. rlNow' = rlNow /\ stamps' = stamps /\ grants' = grants
    BY <1>5 DEF rlVars
  <2>. QED
    BY <2>1 DEF RLInv, RLTyped, RouteInv, RouteGrants, RouteFrom, Within, SpacedOut, Behind
<1>. QED
  BY <1>1, <1>2, <1>3, <1>4, <1>5 DEF RLNext

(***************************************************************************)
(* However the requests fall, one tick less than the interval holds no     *)
(* more requests of a route than its limit, and two requests of a limiter  *)
(* of a rate below one are never closer than that (rateLimiter.ts:27, 45,  *)
(* 68).                                                                    *)
(***************************************************************************)
THEOREM AdmissionsAreSpaced == RLSpec => []AdmissionsSpaced
<1>1. RLInv => AdmissionsSpaced
  <2>. SUFFICES ASSUME RLInv
                PROVE  AdmissionsSpaced
    OBVIOUS
  <2>1. \A t \in 0..RLMaxTime : Cardinality(Within("route", t, Second - 1)) <= RouteLimit
    BY DEF RLInv, RouteInv
  <2>. QED
    BY <2>1 DEF RLInv, SpacedOut, Apart, AdmissionsSpaced
<1>. QED
  BY <1>1, RLInvInit, RLInvStep, PTL DEF RLSpec
--------------------------------------------------------------------------------
(* DynamicRateLimit.  An estimate stays within its bounds through every    *)
(* step of a report, each of which is an average, a rounding or a cap.     *)
Usable == [window : 1..MaxWindow, limit : Nat \ {0}, confidence : 10..100, iterations : Nat]

ResponseEntry == [at : Nat, limited : BOOLEAN]

CountedRuns == [success : Nat, failure : Nat, limited : Nat]

PastResponses(h) ==
    /\ h \in Seq(ResponseEntry)
    /\ \A i \in 1..Len(h) : h[i].at <= drNow

DRInv ==
    /\ drNow \in Nat
    /\ est \in Usable /\ saved.est \in Usable
    /\ PastResponses(history) /\ PastResponses(saved.history)
    /\ detections \in Seq(Nat) /\ saved.detections \in Seq(Nat)
    /\ runs \in CountedRuns /\ saved.runs \in CountedRuns

(* What the assumption says of the bounds.                                 *)
LEMMA BoundsAre ==
    /\ MinWindow \in Nat /\ MaxWindow \in Nat /\ MaxWindow >= 1 /\ MaxLimit \in Nat /\ MaxLimit >= 1
    /\ InitialWindow \in 1..MaxWindow /\ InitialLimit \in 1..MaxLimit
    /\ MaxHistory \in Nat /\ MaxDetections \in Nat /\ Enough \in Nat
BY DRAssumption

(* A product is not less than a factor.                                    *)
LEMMA ProductGrows ==
    ASSUME NEW a \in Nat, NEW b \in Nat, a >= 1
    PROVE  a * b \in Nat /\ a * b >= b
OBVIOUS

(* Products are ordered like their factors.                                *)
LEMMA ProductOrdered ==
    ASSUME NEW a \in Int, NEW b \in Int, NEW c \in Nat, a <= b
    PROVE  a * c <= b * c /\ a * c \in Int /\ b * c \in Int
OBVIOUS

(* A quotient that is rounded lies between the integers around it.         *)
LEMMA RoundedBetween ==
    ASSUME NEW num \in Int, NEW den \in Nat \ {0}, NEW lo \in Int, NEW hi \in Int,
           lo * den <= num, num <= hi * den
    PROVE  Rounded(num, den) \in lo..hi
<1>. DEFINE q == (2 * num + den) \div (2 * den)
<1>1. 2 * den \in Nat \ {0} /\ 2 * num + den \in Int
  OBVIOUS
<1>2. q \in Int /\ (2 * den) * q <= 2 * num + den /\ 2 * num + den < (2 * den) * q + 2 * den
  <2>. DEFINE a == 2 * num + den
              b == 2 * den
  <2>1. a \in Int /\ b \in Nat \ {0}
    BY <1>1
  <2>. HIDE DEF a, b
  <2>2. a \div b \in Int /\ b * (a \div b) <= a /\ a < b * (a \div b) + b
    <3>1. a = b * (a \div b) + (a % b) /\ a % b \in 0..(b - 1) /\ a \div b \in Int
      BY <2>1
    <3>. QED
      BY <2>1, <3>1
  <2>. QED
    BY <2>2 DEF a, b
<1>. HIDE DEF q
<1>3. q >= lo
  <2>1. SUFFICES ASSUME q <= lo - 1
                 PROVE  FALSE
    BY <1>2
  <2>2. q * den <= (lo - 1) * den
    BY <1>2, <2>1, ProductOrdered
  <2>. QED
    BY <1>2, <2>2
<1>4. q <= hi
  <2>1. SUFFICES ASSUME hi + 1 <= q
                 PROVE  FALSE
    BY <1>2
  <2>2. (hi + 1) * den <= q * den
    BY <1>2, <2>1, ProductOrdered
  <2>. QED
    BY <1>2, <2>2
<1>. QED
  BY <1>2, <1>3, <1>4 DEF Rounded, q

(* The fields of an estimate, and setting them.                            *)
LEMMA UsableFields ==
    ASSUME NEW e \in Usable
    PROVE  /\ e.window \in Nat /\ e.window >= 1 /\ e.window <= MaxWindow
           /\ e.limit \in Nat /\ e.limit >= 1
           /\ e.confidence \in Nat /\ e.confidence >= 10 /\ e.confidence <= 100
           /\ e.iterations \in Nat
BY BoundsAre DEF Usable

(* A confidence that is capped stays one.                                  *)
LEMMA CappedConfidence ==
    ASSUME NEW cap \in Int, NEW c \in Int, cap >= 10, cap <= 100, c >= 10
    PROVE  Least(cap, c) \in 10..100
BY DEF Least

(* An estimate stays usable with other usable fields.                      *)
LEMMA UsableWith ==
    ASSUME NEW e \in Usable, NEW w \in 1..MaxWindow, NEW l \in Nat \ {0}, NEW c \in 10..100
    PROVE  /\ [e EXCEPT !.limit = l] \in Usable
           /\ [e EXCEPT !.window = w] \in Usable
           /\ [e EXCEPT !.limit = l, !.confidence = c] \in Usable
           /\ [e EXCEPT !.confidence = c, !.limit = l] \in Usable
           /\ [e EXCEPT !.window = w, !.confidence = c] \in Usable
BY DEF Usable

(* The newest part of a history.                                           *)
LEMMA FirstIs ==
    ASSUME NEW S, NEW s \in Seq(S), NEW n \in Int
    PROVE  /\ First(s, n) \in Seq(S)
           /\ \A i \in 1..Len(First(s, n)) : i \in 1..Len(s) /\ First(s, n)[i] = s[i]
<1>. DEFINE k == Least(n, Len(s))
<1>1. Len(s) \in Nat /\ k \in Int /\ k <= Len(s)
  BY LenProperties DEF Least
<1>. HIDE DEF k
<1>2. CASE k >= 1
  <2>1. 1 \in 1..Len(s) + 1 /\ k \in 0..Len(s)
    BY <1>1, <1>2
  <2>2. /\ SubSeq(s, 1, k) \in Seq(S) /\ Len(SubSeq(s, 1, k)) = k
        /\ \A i \in 1..k : SubSeq(s, 1, k)[i] = s[i]
    BY <1>1, <1>2, <2>1
  <2>3. First(s, n) = SubSeq(s, 1, k)
    BY DEF First, k
  <2>4. \A i \in 1..k : i \in 1..Len(s)
    BY <1>1, <1>2
  <2>. QED
    BY <2>2, <2>3, <2>4
<1>3. CASE k < 1
  <2>1. SubSeq(s, 1, k) = <<>>
    BY <1>1, <1>3
  <2>2. <<>> \in Seq(S) /\ Len(<<>>) = 0
    OBVIOUS
  <2>3. First(s, n) = <<>>
    BY <2>1 DEF First, k
  <2>. QED
    BY <2>2, <2>3
<1>. QED
  BY <1>1, <1>2, <1>3

(* Steps of a report: what the headers say.                                *)
LEMMA HeadersUsable ==
    ASSUME NEW e \in Usable, NEW r \in Responses
    PROVE  FromHeaders(e, r) \in Usable
<1>. DEFINE l == IF r.limit > 0 /\ 5 * Distance(r.limit, e.limit) > e.limit
                 THEN [e EXCEPT !.limit = r.limit, !.confidence = Least(100, @ + 30)]
                 ELSE e
<1>1. r.limit \in Nat /\ r.reset.window \in Nat
  <2>1. r.reset \in Resets /\ r.limit \in {0, 1, 5}
    BY DEF Responses
  <2>2. r.reset.window \in {0, 2, MinWindow, MaxWindow}
    BY <2>1 DEF Resets, NoReset, Seconds, UpToEpoch
  <2>. QED
    BY <2>1, <2>2, BoundsAre
<1>2. Least(100, e.confidence + 30) \in 10..100
  BY UsableFields DEF Least
<1>3. l \in Usable
  <2>1. CASE r.limit > 0 /\ 5 * Distance(r.limit, e.limit) > e.limit
    <3>1. r.limit \in Nat \ {0}
      BY <1>1, <2>1
    <3>2. 1 \in 1..MaxWindow
      BY BoundsAre
    <3>3. [e EXCEPT !.limit = r.limit, !.confidence = Least(100, e.confidence + 30)] \in Usable
      BY <1>2, <3>1, <3>2, UsableWith, ZenonT(40)
    <3>. QED
      BY <2>1, <3>3
  <2>2. CASE ~(r.limit > 0 /\ 5 * Distance(r.limit, e.limit) > e.limit)
    BY <2>2
  <2>. QED
    BY <2>1, <2>2
<1>. HIDE DEF l
<1>4. FromHeaders(e, r) = IF NamesWindow(r.reset)
        THEN [l EXCEPT !.window = r.reset.window, !.confidence = Least(100, @ + 30)]
        ELSE l
  BY DEF FromHeaders, l
<1>5. Least(100, l.confidence + 30) \in 10..100
  BY <1>3, UsableFields DEF Least
<1>6. CASE NamesWindow(r.reset)
  <2>1. r.reset.window \in 1..MaxWindow /\ 1 \in Nat \ {0}
    BY <1>1, <1>6, BoundsAre DEF NamesWindow
  <2>2. [l EXCEPT !.window = r.reset.window, !.confidence = Least(100, l.confidence + 30)] \in Usable
    BY <1>3, <1>5, <2>1, UsableWith, ZenonT(40)
  <2>. QED
    BY <1>4, <1>6, <2>2
<1>. QED
  BY <1>3, <1>4, <1>6

(* What a limitation says of the history.                                  *)
LEMMA LimitedUsable ==
    ASSUME NEW e \in Usable, NEW h \in Seq(ResponseEntry), NEW now
    PROVE  Limited(e, h, now) \in Usable
<1>. DEFINE hits == {i \in DOMAIN h : /\ h[i].at \in (now - e.window)..now
                                      /\ ~h[i].limited}
            ok == Cardinality(hits)
            new == Most(1, (9 * ok) \div 10)
<1>1. ok \in Nat
  <2>1. DOMAIN h = 1..Len(h) /\ Len(h) \in Nat
    BY LenProperties
  <2>2. IsFiniteSet(1..Len(h))
    BY <2>1, FS_Interval
  <2>3. IsFiniteSet(hits)
    BY <2>1, <2>2, FS_Subset
  <2>. QED
    BY <2>3, FS_CardinalityType
<1>2. Limited(e, h, now) =
        IF ok = 0 THEN e
        ELSE IF 10 * new < 8 * e.limit
             THEN [e EXCEPT !.limit = new, !.confidence = Least(90, @ + 20)]
             ELSE [e EXCEPT !.limit = Rounded(7 * @ + 3 * new, 10)]
  BY DEF Limited
<1>. HIDE DEF ok
<1>3. new \in Nat /\ new >= 1
  BY <1>1 DEF Most
<1>. HIDE DEF new
<1>4. Rounded(7 * e.limit + 3 * new, 10) \in Nat \ {0}
  BY <1>3, SMTT(30) DEF Rounded, Usable
<1>5. Least(90, e.confidence + 20) \in 10..100 /\ 1 \in 1..MaxWindow
  <2>1. e.confidence \in Nat /\ e.confidence >= 10 /\ e.confidence <= 100
    BY UsableFields
  <2>2. 1 \in 1..MaxWindow
    BY BoundsAre
  <2>. DEFINE c == e.confidence + 20
  <2>3. c \in Int /\ c >= 10
    BY <2>1
  <2>. HIDE DEF c
  <2>4. Least(90, c) \in 10..100
    BY <2>3, CappedConfidence
  <2>. QED
    BY <2>2, <2>4 DEF c
<1>6. /\ [e EXCEPT !.limit = new, !.confidence = Least(90, e.confidence + 20)] \in Usable
      /\ [e EXCEPT !.limit = Rounded(7 * e.limit + 3 * new, 10)] \in Usable
  <2>1. new \in Nat \ {0}
    BY <1>3
  <2>. QED
    BY <1>4, <1>5, <2>1, UsableWith, ZenonT(40)
<1>. QED
  BY <1>2, <1>6

(* What a success explores.                                                *)
LEMMA SucceededUsable ==
    ASSUME NEW e \in Usable, NEW success \in Nat, NEW now \in Nat, NEW explore \in BOOLEAN,
           detections \in Seq(Nat)
    PROVE  Succeeded(e, success, now, explore) \in Usable
<1>. DEFINE factor == Least(110, 100 + success)
            raised == IF success > ManySuccesses
                      THEN [e EXCEPT !.limit = Least(MaxLimit,
                                        Ceiling(@ * Least(110, 100 + success), 100))]
                      ELSE e
            wider == IF success > ManySuccesses /\ e.iterations > 1 /\ explore
                     THEN [raised EXCEPT !.window = Least(MaxWindow, Rounded(12 * @, 10))]
                     ELSE raised
            since == now - detections[1]
<1>1. factor \in Nat /\ factor >= 100
  BY DEF Least
<1>. HIDE DEF factor
<1>2. e.limit * factor \in Nat /\ e.limit * factor >= 100
  <2>1. e.limit \in Nat /\ e.limit >= 1
    BY DEF Usable
  <2>2. e.limit * factor \in Nat /\ e.limit * factor >= factor
    BY <1>1, <2>1, ProductGrows
  <2>. QED
    BY <1>1, <2>2
<1>3. Least(MaxLimit, Ceiling(e.limit * factor, 100)) \in Nat \ {0}
  BY <1>2, BoundsAre DEF Least, Ceiling
<1>4. raised \in Usable
  BY <1>3 DEF Usable, factor
<1>. HIDE DEF raised
<1>5. Least(MaxWindow, Rounded(12 * raised.window, 10)) \in 1..MaxWindow
  BY <1>4, BoundsAre, SMTT(30) DEF Least, Rounded, Usable
<1>6. wider \in Usable
  BY <1>4, <1>5 DEF Usable
<1>. HIDE DEF wider
<1>7. Succeeded(e, success, now, explore) =
        IF /\ detections # <<>> /\ success = 1
           /\ since > 0 /\ since < MaxWindow
        THEN [wider EXCEPT
                !.window = IF e.iterations = 0 THEN since
                           ELSE Rounded(7 * @ + 3 * since, 10),
                !.iterations = @ + 1,
                !.confidence = Least(85, @ + 10)]
        ELSE wider
  BY DEF Succeeded, wider, raised
<1>8. CASE detections # <<>> /\ since > 0 /\ since < MaxWindow
  <2>1. detections[1] \in Nat
    BY <1>8
  <2>2. since \in 1..MaxWindow
    BY <1>8, <2>1, BoundsAre
  <2>. HIDE DEF since
  <2>3. Rounded(7 * wider.window + 3 * since, 10) \in 1..MaxWindow
    <3>1. wider.window \in Nat /\ wider.window >= 1 /\ wider.window <= MaxWindow
      BY <1>6, UsableFields
    <3>2. since \in Nat /\ since >= 1 /\ since <= MaxWindow /\ MaxWindow \in Nat
      BY <2>2, BoundsAre
    <3>3. 1 * 10 <= 7 * wider.window + 3 * since /\ 7 * wider.window + 3 * since <= MaxWindow * 10
      BY <3>1, <3>2
    <3>. DEFINE num == 7 * wider.window + 3 * since
    <3>4. num \in Int /\ 1 * 10 <= num /\ num <= MaxWindow * 10
      BY <3>1, <3>2, <3>3
    <3>. HIDE DEF num
    <3>5. Rounded(num, 10) \in 1..MaxWindow
      BY <3>2, <3>4, RoundedBetween
    <3>. QED
      BY <3>5 DEF num
  <2>4. Least(85, wider.confidence + 10) \in 10..100 /\ wider.iterations + 1 \in Nat
    <3>1. /\ wider.confidence \in Nat /\ wider.confidence >= 10 /\ wider.confidence <= 100
          /\ wider.iterations \in Nat
      BY <1>6, UsableFields
    <3>. DEFINE c == wider.confidence + 10
    <3>2. c \in Int /\ c >= 10
      BY <3>1
    <3>. HIDE DEF c
    <3>3. Least(85, c) \in 10..100
      BY <3>2, CappedConfidence, SMTT(30)
    <3>. QED
      BY <3>1, <3>3 DEF c
  <2>. DEFINE w == IF e.iterations = 0 THEN since ELSE Rounded(7 * wider.window + 3 * since, 10)
  <2>5. w \in 1..MaxWindow
    BY <2>2, <2>3
  <2>6. [wider EXCEPT !.window = w, !.iterations = wider.iterations + 1,
                      !.confidence = Least(85, wider.confidence + 10)] \in Usable
    BY <1>6, <2>4, <2>5 DEF Usable
  <2>. QED
    BY <1>6, <1>7, <2>6
<1>9. CASE ~(detections # <<>> /\ since > 0 /\ since < MaxWindow)
  BY <1>6, <1>7, <1>9
<1>. QED
  BY <1>8, <1>9

(* The successes that a limitation ended: as they are counted, a run has   *)
(* at least one.                                                           *)
NoSegments == [open |-> 0, total |-> 0, count |-> 0]
ScanCounts == [open : Nat, total : Nat, count : Nat]

Scanned(f, h, n) ==
    f = [i \in 0..n |-> IF i = 0 THEN NoSegments ELSE Scan(h[Len(h) + 1 - i].limited, f[i - 1])]

(* The scan of a history is a recursive function, which exists for every   *)
(* length.                                                                 *)
LEMMA ScannedExists ==
    ASSUME NEW h, NEW n \in Nat
    PROVE  \E f : Scanned(f, h, n)
<1>. DEFINE None == {k \in Nat : ~\E f : Scanned(f, h, k)}
<1>1. SUFFICES ASSUME None # {}
               PROVE  FALSE
  OBVIOUS
<1>2. PICK k \in None : \A j \in None : k <= j
  BY <1>1, LeastNatural, Zenon
<1>3. CASE k = 0
  <2>. DEFINE g == [i \in 0..0 |-> NoSegments]
  <2>1. Scanned(g, h, 0)
    BY DEF Scanned
  <2>. QED
    BY <1>2, <1>3, <2>1
<1>4. CASE k # 0
  <2>1. k - 1 \in Nat /\ k - 1 \notin None
    BY <1>2, <1>4
  <2>2. PICK f : Scanned(f, h, k - 1)
    BY <2>1
  <2>. DEFINE g == [i \in 0..k |-> IF i = k THEN Scan(h[Len(h) + 1 - k].limited, f[k - 1]) ELSE f[i]]
  <2>3. \A i \in 0..(k - 1) :
           f[i] = IF i = 0 THEN NoSegments ELSE Scan(h[Len(h) + 1 - i].limited, f[i - 1])
    BY <2>2 DEF Scanned
  <2>4. \A i \in 0..(k - 1) : g[i] = f[i]
    BY <2>1
  <2>5. ASSUME NEW i \in 0..k
        PROVE  g[i] = IF i = 0 THEN NoSegments ELSE Scan(h[Len(h) + 1 - i].limited, g[i - 1])
    <3>1. CASE i = k
      <4>1. g[i] = Scan(h[Len(h) + 1 - k].limited, f[k - 1]) /\ g[k - 1] = f[k - 1]
        BY <2>1, <2>4, <3>1
      <4>. HIDE DEF g
      <4>. QED
        BY <1>4, <3>1, <4>1
    <3>2. CASE i # k
      <4>1. i \in 0..(k - 1)
        BY <2>1, <3>2
      <4>2. i # 0 => i - 1 \in 0..(k - 1)
        BY <4>1
      <4>. HIDE DEF g
      <4>. QED
        BY <2>3, <2>4, <4>1, <4>2
    <3>. QED
      BY <3>1, <3>2
  <2>6. g = [i \in 0..k |-> g[i]]
    OBVIOUS
  <2>. HIDE DEF g
  <2>7. Scanned(g, h, k)
    BY <2>5, <2>6 DEF Scanned
  <2>. QED
    BY <1>2, <2>7
<1>. QED
  BY <1>3, <1>4

(* A run that a limitation ended has at least one success.                 *)
LEMMA SegmentsAre ==
    ASSUME NEW h \in Seq(ResponseEntry)
    PROVE  Segments(h) \in ScanCounts
<1>. DEFINE f == CHOOSE x : Scanned(x, h, Len(h))
<1>0. Len(h) \in Nat /\ \A i \in 1..Len(h) : h[i] \in ResponseEntry
  BY LenProperties, ElementOfSeq
<1>1. Scanned(f, h, Len(h))
  BY <1>0, ScannedExists
<1>2. Segments(h) = f[Len(h)]
  BY DEF Segments, Scanned, NoSegments
<1>. HIDE DEF f
<1>3. \A i \in 0..Len(h) :
         f[i] = IF i = 0 THEN NoSegments ELSE Scan(h[Len(h) + 1 - i].limited, f[i - 1])
  BY <1>1 DEF Scanned
<1>. DEFINE Out == {n \in 0..Len(h) : f[n] \notin ScanCounts}
<1>4. Out = {}
  <2>1. SUFFICES ASSUME Out # {}
                 PROVE  FALSE
    OBVIOUS
  <2>2. Out \in SUBSET Nat
    OBVIOUS
  <2>3. PICK k \in Out : \A j \in Out : k <= j
    BY <2>1, <2>2, LeastNatural, Zenon
  <2>4. CASE k = 0
    <3>1. f[k] = NoSegments
      BY <1>0, <1>3, <2>3, <2>4
    <3>. QED
      BY <2>3, <3>1 DEF NoSegments, ScanCounts
  <2>5. CASE k # 0
    <3>1. k - 1 \in 0..Len(h) /\ k - 1 \notin Out
      BY <1>0, <2>3, <2>5
    <3>. DEFINE q == f[k - 1]
                x == h[Len(h) + 1 - k].limited
    <3>2. q \in ScanCounts
      BY <3>1
    <3>3. f[k] = Scan(x, q)
      BY <1>3, <2>3, <2>5
    <3>. HIDE DEF q, x
    <3>4. Scan(x, q) \in ScanCounts
      BY <3>2 DEF Scan, ScanCounts
    <3>. QED
      BY <2>3, <3>3, <3>4
  <2>. QED
    BY <2>4, <2>5
<1>. QED
  BY <1>0, <1>2, <1>4

(* The limit refined by the runs.                                          *)
LEMMA RefinedLimitUsable ==
    ASSUME NEW e \in Usable, NEW h \in Seq(ResponseEntry)
    PROVE  RefinedLimit(e, h) \in Usable
<1>. DEFINE s == Segments(h)
            new == Most(1, (9 * s.total) \div (10 * s.count))
            num == e.limit * (200 - e.confidence) + new * e.confidence
<1>1. RefinedLimit(e, h) = IF Len(h) > 1 /\ s.count > 0
        THEN [e EXCEPT !.limit = Rounded(num, 200)]
        ELSE e
  BY DEF RefinedLimit
<1>2. s.total \in Nat /\ s.count \in Nat
  BY SegmentsAre DEF ScanCounts
<1>. HIDE DEF s
<1>3. ASSUME s.count > 0
      PROVE  new \in Nat /\ new >= 1
  <2>1. 9 * s.total \in Nat /\ 10 * s.count \in Nat \ {0}
    BY <1>2, <1>3
  <2>2. (9 * s.total) \div (10 * s.count) \in Int
    BY <2>1
  <2>. QED
    BY <2>2 DEF Most
<1>. HIDE DEF new
<1>4. ASSUME s.count > 0
      PROVE  num \in Nat /\ num >= 200
  <2>1. /\ e.limit \in Nat /\ e.limit >= 1
        /\ e.confidence \in Nat /\ 200 - e.confidence \in Nat
    <3>1. e.confidence \in Nat /\ e.confidence <= 100
      BY UsableFields
    <3>. QED
      BY <3>1, UsableFields
  <2>2. e.limit * (200 - e.confidence) \in Nat /\ e.limit * (200 - e.confidence) >= 200 - e.confidence
    BY <2>1, ProductGrows
  <2>3. new * e.confidence \in Nat /\ new * e.confidence >= e.confidence
    BY <1>3, <1>4, <2>1, ProductGrows
  <2>. DEFINE a == e.limit * (200 - e.confidence)
              b == new * e.confidence
  <2>4. a \in Nat /\ b \in Nat /\ a >= 200 - e.confidence /\ b >= e.confidence
    BY <2>2, <2>3
  <2>. HIDE DEF a, b
  <2>5. a + b \in Nat /\ a + b >= 200
    BY <2>1, <2>4
  <2>. QED
    BY <2>5 DEF a, b
<1>. HIDE DEF num
<1>5. ASSUME s.count > 0
      PROVE  Rounded(num, 200) \in Nat \ {0}
  BY <1>4, <1>5 DEF Rounded
<1>6. CASE Len(h) > 1 /\ s.count > 0
  <2>1. 1 \in 1..MaxWindow /\ 10 \in 10..100 /\ Rounded(num, 200) \in Nat \ {0}
    BY <1>5, <1>6, BoundsAre
  <2>2. [e EXCEPT !.limit = Rounded(num, 200)] \in Usable
    BY <2>1, UsableWith, ZenonT(40)
  <2>. QED
    BY <1>1, <1>6, <2>2
<1>7. CASE ~(Len(h) > 1 /\ s.count > 0)
  BY <1>1, <1>7
<1>. QED
  BY <1>6, <1>7

(* The intervals between the detections sum up to their number times what  *)
(* one can be.                                                             *)
IntervalAt(d, n) == IF n \in Intervals(d) THEN d[n] - d[n + 1] ELSE 0

Summed(f, d, n) ==
    f = [i \in 0..n |-> IF i = 0 THEN 0 ELSE f[i - 1] + IntervalAt(d, i)]

(* The sum of the intervals is a recursive function, which exists for      *)
(* every length.                                                           *)
LEMMA SummedExists ==
    ASSUME NEW d, NEW n \in Nat
    PROVE  \E f : Summed(f, d, n)
<1>. DEFINE None == {k \in Nat : ~\E f : Summed(f, d, k)}
<1>1. SUFFICES ASSUME None # {}
               PROVE  FALSE
  OBVIOUS
<1>2. PICK k \in None : \A j \in None : k <= j
  BY <1>1, LeastNatural, Zenon
<1>3. CASE k = 0
  <2>. DEFINE g == [i \in 0..0 |-> 0]
  <2>1. Summed(g, d, 0)
    BY DEF Summed
  <2>. QED
    BY <1>2, <1>3, <2>1
<1>4. CASE k # 0
  <2>1. k - 1 \in Nat /\ k - 1 \notin None
    BY <1>2, <1>4
  <2>2. PICK f : Summed(f, d, k - 1)
    BY <2>1
  <2>. DEFINE g == [i \in 0..k |-> IF i = k THEN f[k - 1] + IntervalAt(d, k) ELSE f[i]]
  <2>3. \A i \in 0..(k - 1) : f[i] = IF i = 0 THEN 0 ELSE f[i - 1] + IntervalAt(d, i)
    BY <2>2 DEF Summed
  <2>4. \A i \in 0..(k - 1) : g[i] = f[i]
    BY <2>1
  <2>5. ASSUME NEW i \in 0..k
        PROVE  g[i] = IF i = 0 THEN 0 ELSE g[i - 1] + IntervalAt(d, i)
    <3>1. CASE i = k
      <4>1. g[i] = f[k - 1] + IntervalAt(d, k) /\ g[k - 1] = f[k - 1]
        BY <2>1, <2>4, <3>1
      <4>. HIDE DEF g
      <4>. QED
        BY <1>4, <3>1, <4>1
    <3>2. CASE i # k
      <4>1. i \in 0..(k - 1)
        BY <2>1, <3>2
      <4>2. i # 0 => i - 1 \in 0..(k - 1)
        BY <4>1
      <4>. HIDE DEF g
      <4>. QED
        BY <2>3, <2>4, <4>1, <4>2
    <3>. QED
      BY <3>1, <3>2
  <2>6. g = [i \in 0..k |-> g[i]]
    OBVIOUS
  <2>. HIDE DEF g
  <2>7. Summed(g, d, k)
    BY <2>5, <2>6 DEF Summed
  <2>. QED
    BY <1>2, <2>7
<1>. QED
  BY <1>3, <1>4

(* The intervals are finitely many.                                        *)
LEMMA IntervalsFinite ==
    ASSUME NEW d \in Seq(Nat), NEW n \in Nat
    PROVE  /\ IsFiniteSet(Intervals(d) \cap (1..n)) /\ Cardinality(Intervals(d) \cap (1..n)) \in Nat
           /\ IsFiniteSet(Intervals(d)) /\ Cardinality(Intervals(d)) \in Nat
<1>1. Len(d) \in Nat
  BY LenProperties
<1>2. IsFiniteSet(1..n) /\ IsFiniteSet(1..(Len(d) - 1))
  BY <1>1, FS_Interval
<1>3. IsFiniteSet(Intervals(d) \cap (1..n))
  BY <1>2, FS_Subset
<1>4. IsFiniteSet(Intervals(d))
  BY <1>2, FS_Subset DEF Intervals
<1>. QED
  BY <1>3, <1>4, FS_CardinalityType

(* Their sum lies between their number and their number times the longest  *)
(* window.                                                                 *)
LEMMA TotalIs ==
    ASSUME NEW d \in Seq(Nat)
    PROVE  /\ TotalInterval(d) \in Nat
           /\ Cardinality(Intervals(d)) <= TotalInterval(d)
           /\ TotalInterval(d) <= MaxWindow * Cardinality(Intervals(d))
<1>. DEFINE f == CHOOSE x : Summed(x, d, Len(d))
            C(n) == Cardinality(Intervals(d) \cap (1..n))
            Bounded(n) == f[n] \in Nat /\ C(n) <= f[n] /\ f[n] <= MaxWindow * C(n)
<1>0. /\ Len(d) \in Nat /\ \A i \in 1..Len(d) : d[i] \in Nat
      /\ MinWindow \in Nat /\ MaxWindow \in Nat
  BY LenProperties, ElementOfSeq, BoundsAre
<1>1. Summed(f, d, Len(d))
  BY <1>0, SummedExists
<1>2. TotalInterval(d) = f[Len(d)]
  BY DEF TotalInterval, Summed, IntervalAt
<1>. HIDE DEF f
<1>3. \A i \in 0..Len(d) : f[i] = IF i = 0 THEN 0 ELSE f[i - 1] + IntervalAt(d, i)
  BY <1>1 DEF Summed
<1>. DEFINE Out == {n \in 0..Len(d) : ~Bounded(n)}
<1>. HIDE DEF Bounded
<1>4. Out = {}
  <2>1. SUFFICES ASSUME Out # {}
                 PROVE  FALSE
    OBVIOUS
  <2>2. Out \in SUBSET Nat
    OBVIOUS
  <2>3. PICK k \in Out : \A j \in Out : k <= j
    BY <2>1, <2>2, LeastNatural, Zenon
  <2>4. CASE k = 0
    <3>1. f[k] = 0
      BY <1>0, <1>3, <2>3, <2>4
    <3>2. Intervals(d) \cap (1..k) = {}
      BY <2>4
    <3>3. C(k) = 0
      BY <3>2, FS_EmptySet
    <3>4. MaxWindow * 0 = 0
      BY <1>0
    <3>. QED
      BY <2>3, <3>1, <3>3, <3>4 DEF Bounded
  <2>5. CASE k # 0
    <3>1. k - 1 \in 0..Len(d) /\ k - 1 \notin Out /\ k \in 1..Len(d) /\ k - 1 \in Nat
      BY <1>0, <2>3, <2>5
    <3>. DEFINE q == f[k - 1]
                c == C(k - 1)
    <3>2. q \in Nat /\ c <= q /\ q <= MaxWindow * c /\ c \in Nat
      BY <3>1, IntervalsFinite DEF Bounded
    <3>3. f[k] = q + IntervalAt(d, k)
      BY <1>3, <2>3, <2>5
    <3>4. CASE k \in Intervals(d)
      <4>1. IntervalAt(d, k) \in Nat /\ 1 <= IntervalAt(d, k) /\ IntervalAt(d, k) <= MaxWindow
        <5>1. /\ k \in 1..(Len(d) - 1) /\ d[k] - d[k + 1] > MinWindow /\ d[k] - d[k + 1] < MaxWindow
          BY <3>4 DEF Intervals
        <5>2. d[k] \in Nat /\ d[k + 1] \in Nat
          BY <1>0, <5>1
        <5>. QED
          BY <1>0, <3>4, <5>1, <5>2 DEF IntervalAt
      <4>2. C(k) = c + 1
        <5>1. Intervals(d) \cap (1..k) = (Intervals(d) \cap (1..(k - 1))) \cup {k}
          BY <3>1, <3>4
        <5>2. k \notin Intervals(d) \cap (1..(k - 1))
          BY <3>1
        <5>3. IsFiniteSet(Intervals(d) \cap (1..(k - 1)))
          BY <3>1, IntervalsFinite
        <5>. HIDE DEF c
        <5>4. Cardinality((Intervals(d) \cap (1..(k - 1))) \cup {k})
                 = Cardinality(Intervals(d) \cap (1..(k - 1))) + 1
          BY <5>2, <5>3, FS_AddElement
        <5>. QED
          BY <5>1, <5>4 DEF c
      <4>. HIDE DEF q, c
      <4>3. MaxWindow * (c + 1) = MaxWindow * c + MaxWindow /\ MaxWindow * c \in Nat
        BY <1>0, <3>2
      <4>4. /\ q + IntervalAt(d, k) \in Nat /\ c + 1 <= q + IntervalAt(d, k)
            /\ q + IntervalAt(d, k) <= MaxWindow * (c + 1)
        BY <1>0, <3>2, <4>1, <4>3
      <4>. QED
        BY <2>3, <3>3, <4>2, <4>4 DEF Bounded
    <3>5. CASE k \notin Intervals(d)
      <4>1. Intervals(d) \cap (1..k) = Intervals(d) \cap (1..(k - 1))
        BY <3>1, <3>5
      <4>2. f[k] = q
        BY <3>2, <3>3, <3>5 DEF IntervalAt
      <4>. QED
        BY <2>3, <3>2, <4>1, <4>2 DEF Bounded
    <3>. QED
      BY <3>4, <3>5
  <2>. QED
    BY <2>4, <2>5
<1>5. Bounded(Len(d))
  <2>1. Len(d) \in 0..Len(d)
    BY <1>0
  <2>. QED
    BY <1>4, <2>1
<1>6. Intervals(d) \cap (1..Len(d)) = Intervals(d)
  BY <1>0 DEF Intervals
<1>. QED
  BY <1>2, <1>5, <1>6 DEF Bounded

(* The window refined by the intervals.                                    *)
LEMMA RefinedWindowUsable ==
    ASSUME NEW e \in Usable, NEW d \in Seq(Nat)
    PROVE  RefinedWindow(e, d) \in Usable
<1>. DEFINE n == Cardinality(Intervals(d))
            weight == Least(90, 30 + 6 * n)
            total == TotalInterval(d)
            num == n * e.window * (100 - weight) + total * weight
            new == Rounded(num, 100 * n)
<1>1. RefinedWindow(e, d) = IF n > 0 /\ 10 * Distance(new, e.window) > e.window
        THEN [e EXCEPT !.window = new, !.confidence = Most(@, weight)]
        ELSE e
  BY DEF RefinedWindow
<1>2. n \in Nat /\ total \in Nat /\ n <= total /\ total <= MaxWindow * n /\ MaxWindow \in Nat
  BY IntervalsFinite, TotalIs, BoundsAre
<1>3. e.window \in Nat /\ e.window >= 1 /\ e.window <= MaxWindow
  BY UsableFields
<1>. HIDE DEF n, total
<1>4. weight \in Nat /\ weight >= 30 /\ weight <= 90 /\ 100 - weight \in Nat
  BY <1>2 DEF Least
<1>. HIDE DEF weight
<1>5. ASSUME n > 0
      PROVE  new \in 1..MaxWindow
  <2>. DEFINE w == e.window
              v == 100 - weight
              m == MaxWindow * n
              a == n * w
  <2>1. a \in Nat /\ m \in Nat /\ n <= a /\ a <= m
    <3>1. w \in Nat /\ w >= 1 /\ w <= MaxWindow
      BY <1>3
    <3>. HIDE DEF w
    <3>2. w * n \in Nat /\ w * n >= n
      BY <1>2, <3>1, ProductGrows
    <3>3. w * n <= MaxWindow * n /\ MaxWindow * n \in Int
      BY <1>2, <3>1, ProductOrdered
    <3>4. n * w = w * n
      BY <1>2, <3>1
    <3>. QED
      BY <1>2, <3>2, <3>3, <3>4
  <2>2. v \in Nat /\ v + weight = 100
    BY <1>4
  <2>3. num = a * v + total * weight
    OBVIOUS
  <2>. HIDE DEF a, v, m, num
  <2>4. n * v <= a * v /\ a * v <= m * v /\ n * v \in Int /\ a * v \in Int /\ m * v \in Int
    BY <1>2, <2>1, <2>2, ProductOrdered
  <2>5. /\ n * weight <= total * weight /\ total * weight <= m * weight
        /\ n * weight \in Int /\ total * weight \in Int /\ m * weight \in Int
    BY <1>2, <1>4, <2>1, ProductOrdered DEF m
  <2>6. n * v + n * weight = 1 * (100 * n) /\ m * v + m * weight = 100 * m
    <3>1. n * v + n * weight = n * (v + weight) /\ m * v + m * weight = m * (v + weight)
      BY <1>2, <1>4, <2>1, <2>2
    <3>2. n * (v + weight) = n * 100 /\ m * (v + weight) = m * 100
      BY <2>2
    <3>. QED
      BY <1>2, <2>1, <3>1, <3>2
  <2>7. 100 * m = MaxWindow * (100 * n)
    BY <1>2 DEF m
  <2>8. num \in Int /\ 1 * (100 * n) <= num /\ num <= MaxWindow * (100 * n)
    <3>1. num \in Int /\ n * v + n * weight <= num /\ num <= m * v + m * weight
      BY <2>3, <2>4, <2>5
    <3>. QED
      BY <2>6, <2>7, <3>1
  <2>9. 100 * n \in Nat \ {0}
    BY <1>2, <1>5
  <2>. DEFINE den == 100 * n
  <2>10. num \in Int /\ den \in Nat \ {0} /\ 1 * den <= num /\ num <= MaxWindow * den /\ MaxWindow \in Int
    BY <1>2, <2>8, <2>9
  <2>. HIDE DEF den
  <2>11. Rounded(num, den) \in 1..MaxWindow
    BY <2>10, RoundedBetween
  <2>. QED
    BY <2>11 DEF den
<1>. HIDE DEF new
<1>6. CASE n > 0 /\ 10 * Distance(new, e.window) > e.window
  <2>1. Most(e.confidence, weight) \in 10..100
    <3>1. e.confidence \in Nat /\ e.confidence >= 10 /\ e.confidence <= 100
      BY UsableFields
    <3>2. weight \in Nat /\ weight <= 90
      BY <1>4
    <3>. DEFINE c == e.confidence
    <3>3. c \in Nat /\ c >= 10 /\ c <= 100
      BY <3>1
    <3>. HIDE DEF c
    <3>4. Most(c, weight) \in 10..100
      BY <3>2, <3>3 DEF Most
    <3>. QED
      BY <3>4 DEF c
  <2>2. new \in 1..MaxWindow /\ 1 \in Nat \ {0}
    BY <1>5, <1>6
  <2>3. [e EXCEPT !.window = new, !.confidence = Most(e.confidence, weight)] \in Usable
    BY <2>1, <2>2, UsableWith
  <2>. QED
    BY <1>1, <1>6, <2>3
<1>7. CASE ~(n > 0 /\ 10 * Distance(new, e.window) > e.window)
  BY <1>1, <1>7
<1>. QED
  BY <1>6, <1>7

(* What a sporadic limitation takes back.                                  *)
LEMMA SporadicUsable ==
    ASSUME NEW e \in Usable, NEW h, NEW limited
    PROVE  Sporadic(e, h, limited) \in Usable
<1>1. /\ e.confidence \in Nat /\ e.confidence >= 10 /\ e.confidence <= 100
      /\ e.limit \in Nat /\ e.limit >= 1
  BY UsableFields
<1>2. Least(e.confidence, 70) \in 10..100
  BY <1>1 DEF Least
<1>3. Most(1, (85 * e.limit) \div 100) \in Nat \ {0}
  BY <1>1 DEF Most
<1>. DEFINE l == IF limited > 3 THEN Most(1, (85 * e.limit) \div 100) ELSE e.limit
<1>4. l \in Nat \ {0} /\ 1 \in 1..MaxWindow
  BY <1>1, <1>3, BoundsAre
<1>. HIDE DEF l
<1>5. [e EXCEPT !.confidence = Least(e.confidence, 70), !.limit = l] \in Usable
  BY <1>2, <1>4, UsableWith
<1>6. Sporadic(e, h, limited)
        \in {[e EXCEPT !.confidence = Least(e.confidence, 70), !.limit = l], e}
  BY DEF Sporadic, l
<1>. QED
  BY <1>5, <1>6


(* What is left of a history that was cleaned is its newest part.          *)
LEMMA CleanedIs ==
    ASSUME NEW h, PastResponses(h), drNow \in Nat, NEW window \in Nat
    PROVE  PastResponses(Cleaned(h, drNow, window))
<1>. DEFINE old == {i \in DOMAIN h : h[i].at < drNow - 2 * window}
            oldest == CHOOSE i \in old : \A j \in old : i <= j
            cut == Least(oldest - 1, Len(h) - Enough)
<1>1. /\ h \in Seq(ResponseEntry) /\ DOMAIN h = 1..Len(h) /\ Len(h) \in Nat
      /\ \A i \in 1..Len(h) : h[i].at <= drNow
  BY LenProperties DEF PastResponses
<1>2. CASE old # {} /\ cut > 0
  <2>1. old \in SUBSET Nat
    BY <1>1
  <2>2. \E i \in old : \A j \in old : i <= j
    BY <1>2, <2>1, LeastNatural, Zenon
  <2>3. oldest \in Nat
    BY <2>1, <2>2
  <2>4. cut \in Int
    <3>. HIDE DEF oldest
    <3>. QED
      BY <1>1, <2>3, BoundsAre DEF Least
  <2>5. Cleaned(h, drNow, window) = First(h, cut)
    BY <1>2 DEF Cleaned
  <2>. HIDE DEF cut
  <2>6. /\ First(h, cut) \in Seq(ResponseEntry)
        /\ \A i \in 1..Len(First(h, cut)) : i \in 1..Len(h) /\ First(h, cut)[i] = h[i]
    BY <1>1, <2>4, FirstIs
  <2>. QED
    BY <1>1, <2>5, <2>6 DEF PastResponses
<1>3. CASE ~(old # {} /\ cut > 0)
  <2>1. Cleaned(h, drNow, window) = h
    BY <1>3 DEF Cleaned
  <2>. QED
    BY <2>1
<1>. QED
  BY <1>2, <1>3

(* A throttle is two windows and the backoff at most.                      *)
LEMMA ThrottleBounded ==
    ASSUME est \in Usable, runs \in CountedRuns, drNow \in Nat, NEW h, PastResponses(h)
    PROVE  Throttle(h, drNow) <= 250 * est.window
<1>. DEFINE seen == {i \in DOMAIN h : h[i].at >= drNow - est.window}
            recent == Cardinality(seen)
            opens == h[Len(h) - est.limit + 1].at + est.window - drNow
            wait == Most(0, 100 * Ceiling(opens * (200 - est.confidence), 100))
            backoff == IF est.confidence < 70 /\ runs.failure > 0 THEN 50 * est.window ELSE 0
            w == est.window
            l == est.limit
            c == est.confidence
<1>1. /\ w \in Nat /\ w >= 1 /\ l \in Nat /\ l >= 1 /\ c \in Nat /\ c >= 10 /\ c <= 100
  BY UsableFields
<1>2. /\ h \in Seq(ResponseEntry) /\ Len(h) \in Nat
      /\ \A i \in 1..Len(h) : h[i] \in ResponseEntry /\ h[i].at <= drNow
  BY LenProperties, ElementOfSeq DEF PastResponses
<1>3. Throttle(h, drNow) =
        IF recent < l THEN 0
        ELSE IF recent > 0 /\ Len(h) > l THEN wait + backoff
        ELSE (100 * w) \div (l + 1)
  BY DEF Throttle
<1>4. backoff \in Nat /\ backoff <= 50 * w
  BY <1>1
<1>. HIDE DEF recent, backoff
<1>5. ASSUME Len(h) > l
      PROVE  wait \in Nat /\ wait <= 200 * w
  <2>1. Len(h) - l + 1 \in 1..Len(h)
    BY <1>1, <1>2, <1>5
  <2>. DEFINE at == h[Len(h) - l + 1].at
              k == 200 - c
  <2>2. at \in Nat /\ at <= drNow
    BY <1>2, <2>1 DEF ResponseEntry
  <2>3. opens = at + w - drNow
    OBVIOUS
  <2>. HIDE DEF at
  <2>4. opens \in Int /\ opens <= w
    BY <1>1, <2>2, <2>3
  <2>. HIDE DEF opens
  <2>5. k \in Nat /\ k <= 190
    BY <1>1
  <2>6. wait = Most(0, 100 * Ceiling(opens * k, 100))
    OBVIOUS
  <2>. HIDE DEF k, w
  <2>7. opens * k <= w * k /\ opens * k \in Int /\ w * k \in Int
    BY <1>1, <2>4, <2>5, ProductOrdered
  <2>8. k * w <= 190 * w /\ k * w = w * k
    BY <1>1, <2>5, ProductOrdered
  <2>. DEFINE p == opens * k
  <2>9. p \in Int /\ p <= 190 * w
    BY <1>1, <2>7, <2>8
  <2>. HIDE DEF p
  <2>10. Ceiling(p, 100) \in Int /\ Ceiling(p, 100) <= 2 * w
    BY <1>1, <2>9 DEF Ceiling
  <2>. DEFINE q == Ceiling(p, 100)
  <2>11. q \in Int /\ q <= 2 * w
    BY <2>10
  <2>12. wait = Most(0, 100 * q)
    BY <2>6 DEF p
  <2>. HIDE DEF q, wait
  <2>. QED
    BY <1>1, <2>11, <2>12 DEF Most
<1>. HIDE DEF wait
<1>6. (100 * w) \div (l + 1) <= 100 * w /\ (100 * w) \div (l + 1) \in Int
  <2>. DEFINE a == 100 * w
              b == l + 1
  <2>1. a \in Nat /\ b \in Nat /\ b >= 1
    BY <1>1
  <2>. HIDE DEF a, b
  <2>2. a = b * (a \div b) + (a % b) /\ a % b \in 0..(b - 1) /\ a \div b \in Int
    BY <2>1
  <2>3. ASSUME a \div b > a
        PROVE  FALSE
    <3>. DEFINE q == a \div b
    <3>1. q \in Nat /\ q > a
      BY <2>1, <2>2, <2>3
    <3>. HIDE DEF q
    <3>2. b * q >= q
      BY <2>1, <3>1, ProductGrows
    <3>3. b * q \in Nat
      BY <2>1, <3>1, ProductGrows
    <3>. QED
      BY <2>1, <2>2, <3>1, <3>2, <3>3 DEF q
  <2>4. a \div b <= a
    BY <2>1, <2>2, <2>3
  <2>. QED
    BY <2>2, <2>4 DEF a, b
<1>. DEFINE third == (100 * w) \div (l + 1)
<1>7. third <= 100 * w /\ third \in Int
  BY <1>6
<1>. HIDE DEF third
<1>8. 0 <= 250 * w /\ third <= 250 * w
  BY <1>1, <1>7
<1>9. ASSUME Len(h) > l
      PROVE  wait + backoff <= 250 * w
  BY <1>1, <1>4, <1>5, <1>9
<1>. QED
  BY <1>3, <1>8, <1>9 DEF third

(* The first estimate is usable.                                           *)
LEMMA DRInvInit == DRInit => DRInv
<1>. SUFFICES ASSUME DRInit
              PROVE  DRInv
  OBVIOUS
<1>1. InitialEstimate \in Usable
  BY BoundsAre DEF InitialEstimate, Usable
<1>2. NoRuns \in CountedRuns
  BY DEF NoRuns, CountedRuns
<1>3. <<>> \in Seq(ResponseEntry) /\ <<>> \in Seq(Nat) /\ Len(<<>>) = 0
  OBVIOUS
<1>4. PastResponses(<<>>)
  BY <1>3 DEF PastResponses
<1>5. /\ saved.est = InitialEstimate /\ saved.history = <<>> /\ saved.detections = <<>>
      /\ saved.runs = NoRuns
  BY DEF DRInit
<1>. QED
  BY <1>1, <1>2, <1>3, <1>4, <1>5 DEF DRInit, DRInv

(* What a report leaves of the histories is typed like them.               *)
LEMMA Recorded ==
    ASSUME DRInv, NEW limited \in BOOLEAN
    PROVE  /\ PastResponses(First(<<[at |-> drNow, limited |-> limited]>> \o history, MaxHistory))
           /\ First(<<drNow>> \o detections, MaxDetections) \in Seq(Nat)
<1>. DEFINE new == [at |-> drNow, limited |-> limited]
            all == <<new>> \o history
<1>1. /\ drNow \in Nat /\ history \in Seq(ResponseEntry) /\ detections \in Seq(Nat)
      /\ Len(history) \in Nat /\ \A i \in 1..Len(history) : history[i].at <= drNow
  BY LenProperties DEF DRInv, PastResponses
<1>2. new \in ResponseEntry /\ new.at = drNow
  BY <1>1 DEF ResponseEntry
<1>. HIDE DEF new
<1>3. <<new>> \in Seq(ResponseEntry) /\ Len(<<new>>) = 1 /\ <<new>>[1] = new
  BY <1>2
<1>4. /\ all \in Seq(ResponseEntry) /\ Len(all) = Len(<<new>>) + Len(history)
      /\ \A i \in 1..Len(<<new>>) + Len(history) :
            all[i] = IF i <= Len(<<new>>) THEN <<new>>[i] ELSE history[i - Len(<<new>>)]
  BY <1>1, <1>3, ConcatProperties
<1>5. \A i \in 1..Len(all) : all[i].at <= drNow
  BY <1>1, <1>2, <1>3, <1>4
<1>. HIDE DEF all
<1>6. PastResponses(First(all, MaxHistory))
  <2>1. /\ First(all, MaxHistory) \in Seq(ResponseEntry)
        /\ \A i \in 1..Len(First(all, MaxHistory)) :
              i \in 1..Len(all) /\ First(all, MaxHistory)[i] = all[i]
    BY <1>4, BoundsAre, FirstIs
  <2>. QED
    BY <1>5, <2>1 DEF PastResponses
<1>7. First(<<drNow>> \o detections, MaxDetections) \in Seq(Nat)
  <2>. DEFINE both == <<drNow>> \o detections
  <2>1. both \in Seq(Nat) /\ MaxDetections \in Int
    BY <1>1, BoundsAre
  <2>. HIDE DEF both
  <2>2. First(both, MaxDetections) \in Seq(Nat)
    BY <2>1, FirstIs
  <2>. QED
    BY <2>2 DEF both
<1>. QED
  BY <1>6, <1>7 DEF all, new

(* A report keeps the estimate usable.                                     *)
LEMMA ReportKeeps ==
    ASSUME DRInv, NEW r \in Responses, NEW explore \in BOOLEAN, ReportResponse(r, explore)
    PROVE  DRInv'
<1>. DEFINE limited == IsRateLimited(r)
            h == First(<<[at |-> drNow, limited |-> limited]>> \o history, MaxHistory)
            d == IF limited THEN First(<<drNow>> \o detections, MaxDetections) ELSE detections
            u == [success |-> IF limited THEN 0 ELSE runs.success + 1,
                  failure |-> IF limited THEN runs.failure + 1 ELSE 0,
                  limited |-> runs.limited + (IF limited THEN 1 ELSE 0)]
            heard == FromHeaders(est, r)
            learnt == IF limited THEN Limited(heard, h, drNow)
                      ELSE Succeeded(heard, u.success, drNow, explore)
            enough == Len(d) >= 2 /\ learnt.iterations # 0
            lastly == Sporadic(RefinedWindow(RefinedLimit(learnt, h), d), h, u.limited)
            refined == IF enough THEN lastly ELSE learnt
<1>1. /\ history' = h /\ detections' = d /\ runs' = u /\ est' = Sporadic(refined, h, u.limited)
      /\ saved' = IF enough
                  THEN [est |-> refined, history |-> h, detections |-> d, runs |-> u]
                  ELSE saved
      /\ drNow' = drNow
  BY DEF ReportResponse
<1>2. /\ drNow \in Nat /\ est \in Usable /\ detections \in Seq(Nat) /\ runs \in CountedRuns
  BY DEF DRInv
<1>3. limited \in BOOLEAN
  BY DEF IsRateLimited, Responses
<1>. HIDE DEF limited
<1>4. PastResponses(h) /\ h \in Seq(ResponseEntry) /\ d \in Seq(Nat)
  BY <1>2, <1>3, Recorded DEF PastResponses
<1>. HIDE DEF h, d
<1>5. u \in CountedRuns /\ u.success \in Nat
  BY <1>2 DEF CountedRuns
<1>. HIDE DEF u
<1>6. heard \in Usable
  BY <1>2, HeadersUsable
<1>. HIDE DEF heard
<1>7. learnt \in Usable
  BY <1>2, <1>4, <1>5, <1>6, LimitedUsable, SucceededUsable
<1>. HIDE DEF learnt
<1>8. lastly \in Usable
  BY <1>4, <1>7, RefinedLimitUsable, RefinedWindowUsable, SporadicUsable
<1>9. refined \in Usable
  BY <1>7, <1>8
<1>. HIDE DEF refined, enough
<1>10. est' \in Usable
  BY <1>1, <1>9, SporadicUsable
<1>11. CASE enough
  <2>1. saved'.est = refined /\ saved'.history = h /\ saved'.detections = d /\ saved'.runs = u
    BY <1>1, <1>11
  <2>2. drNow' \in Nat /\ PastResponses(history)' /\ PastResponses(saved.history)'
    BY <1>1, <1>2, <1>4, <2>1 DEF PastResponses
  <2>. QED
    BY <1>1, <1>4, <1>5, <1>9, <1>10, <2>1, <2>2 DEF DRInv
<1>12. CASE ~enough
  <2>1. saved' = saved
    BY <1>1, <1>12
  <2>2. drNow' \in Nat /\ PastResponses(history)'
    BY <1>1, <1>2, <1>4 DEF PastResponses
  <2>3. PastResponses(saved.history)'
    BY <1>1, <2>1 DEF DRInv, PastResponses
  <2>. QED
    BY <1>1, <1>4, <1>5, <1>10, <2>1, <2>2, <2>3 DEF DRInv
<1>. QED
  BY <1>11, <1>12

(* So do throttles, time and restarts.                                     *)
LEMMA DRInvStep == DRInv /\ [DRNext]_drVars => DRInv'
<1>. SUFFICES ASSUME DRInv, [DRNext]_drVars
              PROVE  DRInv'
  OBVIOUS
<1>d. Draws \subseteq BOOLEAN
  BY DEF Draws
<1>1. ASSUME NEW r \in Responses, NEW explore \in BOOLEAN, ReportResponse(r, explore)
      PROVE  DRInv'
  BY <1>1, ReportKeeps
<1>2. CASE AskThrottle
  <2>1. /\ history' = Cleaned(history, drNow, est.window)
        /\ drNow' = drNow /\ est' = est /\ detections' = detections /\ runs' = runs /\ saved' = saved
    BY <1>2 DEF AskThrottle
  <2>2. PastResponses(Cleaned(history, drNow, est.window))
    <3>1. PastResponses(history) /\ drNow \in Nat /\ est.window \in Nat
      BY UsableFields DEF DRInv
    <3>. QED
      BY <3>1, CleanedIs
  <2>. QED
    BY <2>1, <2>2 DEF DRInv, PastResponses
<1>3. ASSUME NEW n \in {1, 3}, Pass(n)
      PROVE  DRInv'
  <2>1. /\ drNow' = drNow + n /\ drNow \in Nat
        /\ est' = est /\ history' = history /\ detections' = detections /\ runs' = runs
        /\ saved' = saved
    BY <1>3 DEF Pass, DRInv
  <2>2. ASSUME NEW h, PastResponses(h)
        PROVE  h \in Seq(ResponseEntry) /\ \A i \in 1..Len(h) : h[i].at <= drNow'
    <3>1. /\ h \in Seq(ResponseEntry)
          /\ \A i \in 1..Len(h) : h[i] \in ResponseEntry /\ h[i].at <= drNow
      BY <2>2, ElementOfSeq DEF PastResponses
    <3>2. ASSUME NEW i \in 1..Len(h)
          PROVE  h[i].at <= drNow'
      <4>1. h[i].at \in Nat /\ h[i].at <= drNow
        BY <3>1 DEF ResponseEntry
      <4>. QED
        BY <2>1, <4>1
    <3>. QED
      BY <3>1, <3>2
  <2>3. PastResponses(history)' /\ PastResponses(saved.history)'
    <3>1. PastResponses(history) /\ PastResponses(saved.history)
      BY DEF DRInv
    <3>2. /\ history \in Seq(ResponseEntry) /\ \A i \in 1..Len(history) : history[i].at <= drNow'
          /\ saved.history \in Seq(ResponseEntry)
          /\ \A i \in 1..Len(saved.history) : saved.history[i].at <= drNow'
      BY <2>2, <3>1
    <3>. QED
      BY <2>1, <3>2 DEF PastResponses
  <2>. QED
    BY <2>1, <2>3 DEF DRInv
<1>4. CASE LoadStatus
  BY <1>4 DEF LoadStatus, DRInv, PastResponses
<1>5. CASE UNCHANGED drVars
  BY <1>5 DEF drVars, DRInv, PastResponses
<1>. QED
  BY <1>d, <1>1, <1>2, <1>3, <1>4, <1>5 DEF DRNext

(***************************************************************************)
(* Whatever a server answers, the estimates of its limit stay usable, for  *)
(* every history and through restarts: no limit and no window of zero, no  *)
(* confidence above one, and no throttle above two and a half windows      *)
(* (dynamic-rate-limit.ts:406, 456, 515, 595).                             *)
(***************************************************************************)
THEOREM EstimatesStayUsable == DRSpec => []EstimatesUsable
<1>1. DRInv => EstimatesUsable
  <2>. SUFFICES ASSUME DRInv
                PROVE  EstimatesUsable
    OBVIOUS
  <2>1. /\ est \in Usable /\ runs \in CountedRuns /\ drNow \in Nat /\ PastResponses(history)
    BY DEF DRInv
  <2>2. est.limit >= 1 /\ est.window \in 1..MaxWindow /\ est.confidence \in 10..100 /\ est.window \in Nat
    BY <2>1, UsableFields DEF Usable
  <2>3. PastResponses(Cleaned(history, drNow, est.window))
    BY <2>1, <2>2, CleanedIs
  <2>4. Throttle(Cleaned(history, drNow, est.window), drNow) <= 250 * est.window
    BY <2>1, <2>3, ThrottleBounded
  <2>. QED
    BY <2>2, <2>4 DEF EstimatesUsable
<1>. QED
  BY <1>1, DRInvInit, DRInvStep, PTL DEF DRSpec
--------------------------------------------------------------------------------
(* The composition. What its type adds to the invariants above: each       *)
(* component keeps the bounds of its model and the sets its values are of. *)
HistoriesBounded ==
    /\ Len(history) <= MaxHistory /\ Len(saved.history) <= MaxHistory
    /\ Len(detections) <= MaxDetections /\ Len(saved.detections) <= MaxDetections
    /\ reports \in 0..MaxReports

MirrorsKnown ==
    /\ discovery.open \subseteq 1..discovery.current
    /\ found \in {"nothing", "null", "answer"}
    /\ apiStatus \in {"initializing", "ready", "error"}

AgentsKnown ==
    /\ flareEnabled \in BOOLEAN /\ clearance \in BOOLEAN
    /\ agent \in {"unset", "random", "solver"}
    /\ \A r \in HttpRequestIds : reqs[r].agent \in {"unset", "random", "solver"}

ListedSessions == [session : Profiles, user : Accounts]

SessionsKnown ==
    /\ \A s \in Profiles : current[s] <= MaxRotations
    /\ access \subseteq Profiles
    /\ shown \in {Nobody} \cup ListedSessions
    /\ \A c \in HttpCalls : Answered(c, "sessions") => requests[c].list \subseteq ListedSessions

(* A sequence cut at n is no longer than n, and no longer than it was.     *)
LEMMA FirstIsShort ==
    ASSUME NEW S, NEW s \in Seq(S), NEW n \in Nat
    PROVE  Len(First(s, n)) <= n /\ Len(First(s, n)) <= Len(s)
<1>. DEFINE k == Least(n, Len(s))
<1>1. Len(s) \in Nat /\ k \in Nat /\ k <= n /\ k <= Len(s)
  BY LenProperties DEF Least
<1>2. First(s, n) = SubSeq(s, 1, k)
  BY DEF First
<1>. HIDE DEF k
<1>3. CASE k >= 1
  <2>1. Len(SubSeq(s, 1, k)) = k
    BY <1>1, <1>3
  <2>. QED
    BY <1>1, <1>2, <2>1
<1>4. CASE k < 1
  <2>1. SubSeq(s, 1, k) = <<>>
    BY <1>1, <1>4
  <2>2. Len(<<>>) = 0
    OBVIOUS
  <2>. QED
    BY <1>1, <1>2, <2>1, <2>2
<1>. QED
  BY <1>1, <1>3, <1>4

(* Cleaning a history never makes it longer.                               *)
LEMMA CleanedIsShort ==
    ASSUME NEW h, PastResponses(h), drNow \in Nat, NEW window \in Nat
    PROVE  Len(Cleaned(h, drNow, window)) <= Len(h)
<1>. DEFINE old == {i \in DOMAIN h : h[i].at < drNow - 2 * window}
            oldest == CHOOSE i \in old : \A j \in old : i <= j
            cut == Least(oldest - 1, Len(h) - Enough)
<1>1. /\ h \in Seq(ResponseEntry) /\ DOMAIN h = 1..Len(h) /\ Len(h) \in Nat
  BY LenProperties DEF PastResponses
<1>2. CASE old # {} /\ cut > 0
  <2>1. old \in SUBSET Nat
    BY <1>1
  <2>2. \E i \in old : \A j \in old : i <= j
    BY <1>2, <2>1, LeastNatural, Zenon
  <2>3. oldest \in Nat
    BY <2>1, <2>2
  <2>4. cut \in Nat
    <3>. HIDE DEF oldest
    <3>. QED
      BY <1>1, <1>2, <2>3, BoundsAre DEF Least
  <2>5. Cleaned(h, drNow, window) = First(h, cut)
    BY <1>2 DEF Cleaned
  <2>. HIDE DEF cut
  <2>. QED
    BY <1>1, <2>4, <2>5, FirstIsShort
<1>3. CASE ~(old # {} /\ cut > 0)
  <2>1. Cleaned(h, drNow, window) = h
    BY <1>3 DEF Cleaned
  <2>. QED
    BY <1>1, <2>1
<1>. QED
  BY <1>2, <1>3

LEMMA HistoriesStep == DRInv /\ HistoriesBounded /\ [DRNext]_drVars => HistoriesBounded'
<1>. SUFFICES ASSUME DRInv, HistoriesBounded, [DRNext]_drVars
              PROVE  HistoriesBounded'
  OBVIOUS
<1>d. Draws \subseteq BOOLEAN
  BY DEF Draws
<1>b. MaxHistory \in Nat /\ MaxDetections \in Nat /\ MaxReports \in Nat
  BY DRAssumption
<1>t. /\ drNow \in Nat /\ history \in Seq(ResponseEntry) /\ detections \in Seq(Nat)
      /\ Len(history) \in Nat
  BY LenProperties DEF DRInv, PastResponses
<1>1. ASSUME NEW r \in Responses, NEW explore \in BOOLEAN, ReportResponse(r, explore)
      PROVE  HistoriesBounded'
  <2> DEFINE limited == IsRateLimited(r)
             h == First(<<[at |-> drNow, limited |-> limited]>> \o history, MaxHistory)
             d == IF limited THEN First(<<drNow>> \o detections, MaxDetections) ELSE detections
  <2>1. /\ history' = h /\ detections' = d /\ reports' = reports + 1 /\ reports < MaxReports
        /\ \/ saved' = saved
           \/ saved'.history = h /\ saved'.detections = d
    BY <1>1 DEF ReportResponse
  <2>2. limited \in BOOLEAN
    BY DEF IsRateLimited, Responses
  <2>. HIDE DEF limited
  <2>3. [at |-> drNow, limited |-> limited] \in ResponseEntry
    BY <1>t, <2>2 DEF ResponseEntry
  <2>4. /\ <<[at |-> drNow, limited |-> limited]>> \o history \in Seq(ResponseEntry)
        /\ <<drNow>> \o detections \in Seq(Nat)
    BY <1>t, <2>3
  <2>5. Len(h) <= MaxHistory
    BY <1>b, <2>4, FirstIsShort
  <2>6. Len(First(<<drNow>> \o detections, MaxDetections)) <= MaxDetections
    BY <1>b, <2>4, FirstIsShort
  <2>7. Len(d) <= MaxDetections
    BY <2>6 DEF HistoriesBounded
  <2>. HIDE DEF h, d
  <2>. QED
    BY <1>b, <2>1, <2>5, <2>7 DEF HistoriesBounded
<1>2. CASE AskThrottle
  <2>1. /\ history' = Cleaned(history, drNow, est.window)
        /\ UNCHANGED <<detections, saved, reports>>
    BY <1>2 DEF AskThrottle
  <2>2. PastResponses(history) /\ est.window \in Nat
    BY UsableFields DEF DRInv
  <2>3. Len(history') <= Len(history)
    BY <1>t, <2>1, <2>2, CleanedIsShort
  <2>4. PastResponses(Cleaned(history, drNow, est.window))
    BY <1>t, <2>2, CleanedIs
  <2>5. Len(history') \in Nat
    BY <2>1, <2>4, LenProperties DEF PastResponses
  <2>. QED
    BY <1>b, <1>t, <2>1, <2>3, <2>5 DEF HistoriesBounded
<1>3. ASSUME NEW n \in {1, 3}, Pass(n)
      PROVE  HistoriesBounded'
  BY <1>3 DEF Pass, HistoriesBounded
<1>4. CASE LoadStatus
  BY <1>4 DEF LoadStatus, HistoriesBounded
<1>5. CASE UNCHANGED drVars
  BY <1>5 DEF drVars, HistoriesBounded
<1>. QED
  BY <1>d, <1>1, <1>2, <1>3, <1>4, <1>5 DEF DRNext

(* A search for mirrors that is open has been started.                     *)
LEMMA MirrorsStep == MirrorInv /\ MirrorsKnown /\ [MNext]_mirrorVars => MirrorsKnown'
<1>. SUFFICES ASSUME MirrorInv, MirrorsKnown, [MNext]_mirrorVars
              PROVE  MirrorsKnown'
  OBVIOUS
<1>d. discovery \in Discoveries /\ discovery.current \in Nat
  BY DEF MirrorInv, LevelsCounted, Discoveries
<1>1. ASSUME NEW c \in Calls, Refuse(c) \/ Search(c) \/ Send(c)
      PROVE  MirrorsKnown'
  <2>1. UNCHANGED <<discovery, found, apiStatus>>
    BY <1>1 DEF Refuse, Search, Send
  <2>. QED
    BY <2>1 DEF MirrorsKnown
<1>2. ASSUME NEW c \in Calls, NEW reply \in Replies, Answer(c, reply)
      PROVE  MirrorsKnown'
  <2>1. UNCHANGED <<discovery, found>> /\ apiStatus' \in {apiStatus, "ready", "error"}
    BY <1>2 DEF Answer, Verdict
  <2>. QED
    BY <2>1 DEF MirrorsKnown
<1>3. ASSUME NEW c \in Calls, Store(c)
      PROVE  MirrorsKnown'
  <2>1. UNCHANGED <<discovery, apiStatus>> /\ found' \in {found, "answer", "null"}
    BY <1>3 DEF Store
  <2>. QED
    BY <2>1 DEF MirrorsKnown
<1>4. ASSUME NEW d, Discovered(d)
      PROVE  MirrorsKnown'
  <2>1. /\ UNCHANGED <<found, apiStatus>>
        /\ discovery' = [discovery EXCEPT !.open = @ \ {d}]
    BY <1>4 DEF Discovered
  <2>2. discovery'.open \subseteq discovery.open /\ discovery'.current = discovery.current
    BY <1>d, <2>1 DEF Discoveries
  <2>. QED
    BY <2>1, <2>2 DEF MirrorsKnown
<1>5. CASE Forget
  <2>1. UNCHANGED <<discovery, apiStatus>> /\ found' = "nothing"
    BY <1>5 DEF Forget
  <2>. QED
    BY <2>1 DEF MirrorsKnown
<1>6. CASE Reload
  <2>1. /\ UNCHANGED <<found>> /\ apiStatus' = "initializing"
        /\ discovery'.current = discovery.current + 1
        /\ discovery'.open \subseteq discovery.open \cup {discovery.current + 1}
    BY <1>6 DEF Reload
  <2>2. discovery'.open \subseteq 1..discovery'.current
    BY <1>d, <2>1 DEF MirrorsKnown
  <2>. QED
    BY <2>1, <2>2 DEF MirrorsKnown
<1>7. CASE UNCHANGED mirrorVars
  BY <1>7 DEF mirrorVars, MirrorsKnown
<1>. QED
  BY <1>1, <1>2, <1>3, <1>4, <1>5, <1>6, <1>7 DEF MNext

(* A request carries an agent that its domain had.                         *)
LEMMA AgentsStep == HttpInv /\ AgentsKnown /\ [HNext]_httpVars => AgentsKnown'
<1>. SUFFICES ASSUME HttpInv, AgentsKnown, [HNext]_httpVars
              PROVE  AgentsKnown'
  OBVIOUS
<1>t. DOMAIN reqs = HttpRequestIds
      /\ \A r \in HttpRequestIds : DOMAIN reqs[r] = {"stage", "agent", "cleared", "result"}
  BY DEF HttpInv, NotSent
<1>b. ASSUME NEW r \in HttpRequestIds, NEW stage, NEW result, ReqBecomes(r, stage, result)
      PROVE  \A x \in HttpRequestIds : reqs'[x].agent = reqs[x].agent
  BY <1>t, <1>b DEF ReqBecomes
<1>1. ASSUME NEW r \in HttpRequestIds, SendRequest(r)
      PROVE  AgentsKnown'
  <2>1. /\ UNCHANGED <<flareEnabled, clearance, agent>>
        /\ reqs' = [reqs EXCEPT ![r] = [@ EXCEPT !.stage = "fetching", !.agent = AgentOfDomain,
                                                 !.cleared = flareEnabled /\ clearance]]
    BY <1>1 DEF SendRequest
  <2>2. \A x \in HttpRequestIds : reqs'[x].agent \in {reqs[x].agent, AgentOfDomain}
    BY <1>t, <2>1
  <2>3. AgentOfDomain \in {"unset", "random", "solver"}
    BY DEF AgentOfDomain, AgentsKnown
  <2>. QED
    BY <2>1, <2>2, <2>3 DEF AgentsKnown
<1>2. ASSUME NEW r \in HttpRequestIds,
             RejectAddress(r) \/ FetchFails(r) \/ AskFlareSolverr(r) \/ SolverFails(r) \/ ReadBody(r)
      PROVE  AgentsKnown'
  <2>1. UNCHANGED <<flareEnabled, clearance, agent>> /\ \E stage, result : ReqBecomes(r, stage, result)
    BY <1>2 DEF RejectAddress, FetchFails, AskFlareSolverr, SolverFails, ReadBody
  <2>. QED
    BY <1>b, <2>1 DEF AgentsKnown
<1>3. ASSUME NEW r \in HttpRequestIds, NEW forbidden \in BOOLEAN, SiteResponds(r, forbidden)
      PROVE  AgentsKnown'
  <2>1. /\ flareEnabled' = flareEnabled /\ clearance' \in BOOLEAN
        /\ agent' = reqs[r].agent /\ ReqBecomes(r, "reading", "none")
    BY <1>3 DEF SiteResponds, JarAfter, AgentsKnown
  <2>. QED
    BY <1>b, <2>1 DEF AgentsKnown
<1>4. ASSUME NEW r \in HttpRequestIds, Solve(r)
      PROVE  AgentsKnown'
  <2>1. /\ flareEnabled' = flareEnabled /\ clearance' \in BOOLEAN
        /\ agent' \in {agent, "solver"} /\ ReqBecomes(r, "over", "solved")
    BY <1>4 DEF Solve, JarAfter, Solutions, AgentsKnown
  <2>. QED
    BY <1>b, <2>1 DEF AgentsKnown
<1>5. CASE Reconfigure \/ NextFrame \/ UNCHANGED httpVars
  <2>1. UNCHANGED <<clearance, agent, reqs>> /\ flareEnabled' \in BOOLEAN
    BY <1>5 DEF Reconfigure, NextFrame, httpVars, AgentsKnown
  <2>. QED
    BY <2>1 DEF AgentsKnown
<1>. QED
  BY <1>1, <1>2, <1>3, <1>4, <1>5 DEF HNext

(* What is shown and what is listed are sessions of the server.            *)
LEMMA SessionsStep == BrowserInv /\ SessionsKnown /\ [BrNext]_browserVars => SessionsKnown'
<1>. SUFFICES ASSUME BrowserInv, SessionsKnown, [BrNext]_browserVars
              PROVE  SessionsKnown'
  OBVIOUS
<1>t. /\ DOMAIN requests = HttpCalls /\ current \in [Profiles -> Nat]
      /\ \A c \in HttpCalls : CallInStep(requests[c], owner)
  BY DEF BrowserInv, BrowserTyped
<1>f. FirstToken <= MaxRotations /\ 0 <= MaxRotations
  BY BrowserAssumption DEF FirstToken
<1>k. NoCall.kind = "none"
  BY DEF NoCall
<1>q. ASSUME NEW c \in HttpCalls, NEW r, requests' = [requests EXCEPT ![c] = r],
             r.kind = "sessions" /\ r.stage = "answered" => r.list \subseteq ListedSessions,
             \A s \in Profiles : current'[s] <= MaxRotations,
             access' \subseteq Profiles, shown' \in {Nobody} \cup ListedSessions
      PROVE  SessionsKnown'
  <2>1. ASSUME NEW d \in HttpCalls, Answered(d, "sessions")'
        PROVE  requests'[d].list \subseteq ListedSessions
    <3>1. CASE d = c
      <4>1. requests'[d] = r
        BY <1>t, <1>q, <3>1
      <4>. QED
        BY <1>q, <2>1, <4>1 DEF Answered
    <3>2. CASE d # c
      <4>1. requests'[d] = requests[d]
        BY <1>q, <3>2
      <4>. QED
        BY <2>1, <4>1 DEF Answered, SessionsKnown
    <3>. QED
      BY <3>1, <3>2
  <2>. QED
    BY <1>q, <2>1 DEF SessionsKnown
<1>s. ASSUME NEW s \in Profiles, NEW n
      PROVE  SetCookies(s, n) \/ ClearCookies(s) => access' \subseteq Profiles
  BY DEF SetCookies, ClearCookies, SessionsKnown
<1>1. ASSUME NEW c \in HttpCalls, NEW fields, SendCall(c, fields), "stage" \notin DOMAIN fields,
             current' = current, access' = access, shown' \in {Nobody, shown}
      PROVE  SessionsKnown'
  <2>1. /\ requests' = [requests EXCEPT ![c] = CallWith(NoCall, "sent", fields)]
        /\ CallWith(NoCall, "sent", fields).stage = "sent"
    BY <1>1, CallWithFields DEF SendCall
  <2>. QED
    BY <1>1, <1>q, <2>1 DEF SessionsKnown
<1>2. ASSUME NEW c \in HttpCalls,
             \/ OpenPage(c) \/ AskLists(c)
             \/ \E u \in Accounts : SubmitLogin(c, u)
             \/ \E s \in Profiles, kind \in {"refresh", "logout"} : Request(c, kind, s)
      PROVE  SessionsKnown'
  <2>1. PICK fields : SendCall(c, fields) /\ "stage" \notin DOMAIN fields
    <3>1. CASE OpenPage(c)
      BY <3>1 DEF OpenPage
    <3>2. CASE AskLists(c)
      BY <3>2 DEF AskLists
    <3>3. ASSUME NEW u \in Accounts, SubmitLogin(c, u)
          PROVE  \E fields : SendCall(c, fields) /\ "stage" \notin DOMAIN fields
      BY <3>3 DEF SubmitLogin
    <3>4. ASSUME NEW s \in Profiles, NEW kind \in {"refresh", "logout"}, Request(c, kind, s)
          PROVE  \E fields : SendCall(c, fields) /\ "stage" \notin DOMAIN fields
      BY <3>4 DEF Request
    <3>. QED
      BY <1>2, <3>1, <3>2, <3>3, <3>4
  <2>2. current' = current /\ access' = access /\ shown' \in {Nobody, shown}
    BY <1>2 DEF OpenPage, AskLists, SubmitLogin, Request
  <2>. QED
    BY <1>1, <2>1, <2>2
<1>3. ASSUME NEW c \in HttpCalls, NEW kind \in {"login", "refresh", "logout", "lists"},
             requests[c].kind = kind, NEW fields, AnswerWith(c, fields),
             DOMAIN fields \cap {"stage", "kind"} = {},
             \A s \in Profiles : current'[s] <= MaxRotations, UNCHANGED <<access, shown>>
      PROVE  SessionsKnown'
  <2>1. /\ requests' = [requests EXCEPT ![c] = CallWith(requests[c], "answered", fields)]
        /\ CallWith(requests[c], "answered", fields).kind = kind
    BY <1>3, CallWithFields DEF AnswerWith
  <2>. QED
    BY <1>3, <1>q, <2>1 DEF SessionsKnown
<1>4. ASSUME NEW c \in HttpCalls, NEW s \in Profiles, HandleLogin(c, s)
      PROVE  SessionsKnown'
  <2>1. /\ requests[c].kind = "login" /\ UNCHANGED <<access, shown>>
        /\ current' = [current EXCEPT ![s] = FirstToken]
        /\ AnswerWith(c, [session |-> s, token |-> FirstToken])
    BY <1>4 DEF HandleLogin, Handled
  <2>2. \A x \in Profiles : current'[x] <= MaxRotations
    BY <1>t, <1>f, <2>1 DEF SessionsKnown
  <2>3. DOMAIN [session |-> s, token |-> FirstToken] \cap {"stage", "kind"} = {}
    OBVIOUS
  <2>. QED
    BY <1>3, <2>1, <2>2, <2>3
<1>5. ASSUME NEW c \in HttpCalls, HandleRefresh(c)
      PROVE  SessionsKnown'
  <2>1. requests[c].kind = "refresh" /\ UNCHANGED <<access, shown>>
    BY <1>5 DEF HandleRefresh, Handled
  <2>2. \/ current' = current
        \/ /\ current[requests[c].session] < MaxRotations
           /\ current' = [current EXCEPT ![requests[c].session] = @ + 1]
    BY <1>5 DEF HandleRefresh
  <2>3. \A x \in Profiles : current'[x] <= MaxRotations
    BY <1>t, <2>2, BrowserAssumption DEF SessionsKnown
  <2>4. PICK fields : AnswerWith(c, fields) /\ DOMAIN fields \cap {"stage", "kind"} = {}
    BY <1>5 DEF HandleRefresh
  <2>. QED
    BY <1>3, <2>1, <2>3, <2>4
<1>6. ASSUME NEW c \in HttpCalls, HandleLogout(c)
      PROVE  SessionsKnown'
  <2>1. requests[c].kind = "logout" /\ UNCHANGED <<access, shown>>
    BY <1>6 DEF HandleLogout, Handled
  <2>2. current' = current \/ current' = [current EXCEPT ![requests[c].session] = 0]
    BY <1>6 DEF HandleLogout
  <2>3. \A x \in Profiles : current'[x] <= MaxRotations
    BY <1>t, <1>f, <2>2 DEF SessionsKnown
  <2>4. PICK fields : AnswerWith(c, fields) /\ DOMAIN fields \cap {"stage", "kind"} = {}
    BY <1>6 DEF HandleLogout
  <2>. QED
    BY <1>3, <2>1, <2>3, <2>4
<1>7. ASSUME NEW c \in HttpCalls, HandleLists(c)
      PROVE  SessionsKnown'
  <2>1. requests[c].kind = "lists" /\ UNCHANGED <<current, access, shown>>
    BY <1>7 DEF HandleLists, Handled
  <2>2. PICK fields : AnswerWith(c, fields) /\ DOMAIN fields \cap {"stage", "kind"} = {}
    BY <1>7 DEF HandleLists
  <2>. QED
    BY <1>3, <2>1, <2>2 DEF SessionsKnown
<1>8. ASSUME NEW c \in HttpCalls, HandleSessions(c)
      PROVE  SessionsKnown'
  <2> DEFINE fields == [list |-> ListedFrom(requests[c].cookies), cookies |-> <<>>]
             r == CallWith(requests[c], "answered", fields)
  <2>1. /\ Handled(c, "sessions") /\ UNCHANGED <<current, access, shown>>
        /\ requests' = [requests EXCEPT ![c] = r]
    BY <1>8 DEF HandleSessions, AnswerWith
  <2>2. requests[c].cookies \in Seq(JarCookies)
    BY <1>t, <2>1 DEF CallInStep, Handled
  <2>3. ListedFrom(requests[c].cookies) \subseteq ListedSessions
    <3>1. ASSUME NEW q \in Seq(JarCookies), NEW i \in DOMAIN q
          PROVE  q[i].session \in Profiles /\ q[i].token \in Nat \ {0}
      <4>1. q[i] \in JarCookies
        BY ElementOfSeq, LenProperties
      <4>. QED
        BY <4>1 DEF JarCookies
    <3>2. ASSUME NEW k, k.session \in Profiles, k.token \in Nat \ {0}, Accepted(k.session, k.token)
          PROVE  owner[k.session] \in Accounts
      BY <3>2 DEF Accepted, BrowserInv, BrowserTyped
    <3>. QED
      BY <2>2, <3>1, <3>2 DEF ListedFrom, ListedSessions
  <2>4. r.list = ListedFrom(requests[c].cookies)
    <3>1. DOMAIN fields = {"list", "cookies"} /\ fields.list = ListedFrom(requests[c].cookies)
      OBVIOUS
    <3>. HIDE DEF fields
    <3>. QED
      BY <3>1, CallWithFields
  <2>. HIDE DEF r
  <2>. QED
    BY <1>q, <2>1, <2>3, <2>4 DEF SessionsKnown
<1>9. ASSUME NEW c \in HttpCalls, LoginAnswered(c)
      PROVE  SessionsKnown'
  <2>1. /\ Answered(c, "login") /\ SetCookies(requests[c].session, requests[c].token)
        /\ shown' = [session |-> requests[c].session, user |-> requests[c].user]
        /\ requests' = [requests EXCEPT ![c] = NoCall] /\ current' = current
    BY <1>9 DEF LoginAnswered
  <2>2. requests[c].session \in Profiles /\ requests[c].user \in Accounts
    BY <1>t, <2>1 DEF CallInStep, OwnerIs, Answered
  <2>3. access' \subseteq Profiles /\ shown' \in ListedSessions
    BY <1>s, <2>1, <2>2 DEF ListedSessions
  <2>. QED
    BY <1>k, <1>q, <2>1, <2>3 DEF SessionsKnown
<1>10. ASSUME NEW c \in HttpCalls, RefreshAnswered(c) \/ LogoutAnswered(c)
       PROVE  SessionsKnown'
  <2>1. /\ Answered(c, "refresh") \/ Answered(c, "logout")
        /\ requests' = [requests EXCEPT ![c] = NoCall] /\ UNCHANGED <<current, shown>>
        /\ \/ access' = access
           \/ ClearCookies(requests[c].session)
           \/ SetCookies(requests[c].session, requests[c].token)
    BY <1>10 DEF RefreshAnswered, LogoutAnswered
  <2>2. requests[c].session \in Profiles
    BY <1>t, <2>1 DEF CallInStep, Answered
  <2>3. access' \subseteq Profiles
    BY <1>s, <2>1, <2>2 DEF SessionsKnown
  <2>. QED
    BY <1>k, <1>q, <2>1, <2>3 DEF SessionsKnown
<1>11. ASSUME NEW c \in HttpCalls, SessionsAnswered(c)
       PROVE  SessionsKnown'
  <2>1. /\ Answered(c, "sessions") /\ shown' = Selected(requests[c].list)
        /\ requests' = [requests EXCEPT ![c] = NoCall] /\ UNCHANGED <<current, access>>
    BY <1>11 DEF SessionsAnswered
  <2>2. requests[c].list \subseteq ListedSessions
    BY <2>1 DEF SessionsKnown
  <2>3. Selected(requests[c].list) \in {Nobody, shown} \cup requests[c].list
    BY DEF Selected
  <2>. QED
    BY <1>k, <1>q, <2>1, <2>2, <2>3 DEF SessionsKnown
<1>12. ASSUME NEW c \in HttpCalls, ListsAnswered(c)
       PROVE  SessionsKnown'
  <2>1. requests' = [requests EXCEPT ![c] = NoCall] /\ UNCHANGED <<current, access, shown>>
    BY <1>12 DEF ListsAnswered
  <2>. QED
    BY <1>k, <1>q, <2>1 DEF SessionsKnown
<1>13. ASSUME NEW s \in Profiles, Evict(s) \/ RefreshExpires(s) \/ AccessExpires(s)
       PROVE  SessionsKnown'
  <2>1. /\ UNCHANGED <<requests, shown>> /\ access' \subseteq access
        /\ current' = current \/ current' = [current EXCEPT ![s] = 0]
    BY <1>13 DEF Evict, RefreshExpires, AccessExpires
  <2>2. \A x \in Profiles : current'[x] <= MaxRotations
    BY <1>t, <1>f, <2>1 DEF SessionsKnown
  <2>. QED
    BY <2>1, <2>2 DEF SessionsKnown, Answered
<1>14. CASE UNCHANGED browserVars
  BY <1>14 DEF browserVars, SessionsKnown, Answered
<1>. QED
  BY <1>2, <1>4, <1>5, <1>6, <1>7, <1>8, <1>9, <1>10, <1>11, <1>12, <1>13, <1>14 DEF BrNext

(* A step of the composition is a step of one component, and of the others *)
(* a stutter.                                                              *)
LEMMA EachComponentSteps ==
    ASSUME [ServingNext]_<<focus, rlVars, drVars, mirrorVars, httpVars,
                           schedulerVars, chunkStoreVars, browserVars, streamVars, keyVars>>
    PROVE  /\ [RLNext]_rlVars /\ [DRNext]_drVars /\ [MNext]_mirrorVars /\ [HNext]_httpVars
           /\ [SchNext]_schedulerVars /\ [ChNext]_chunkStoreVars
           /\ [BrNext]_browserVars /\ [StNext]_streamVars /\ [KNext]_keyVars
<1>1. CASE RLNext /\ RestRL
  BY <1>1 DEF RestRL
<1>2. CASE DRNext /\ RestDR
  BY <1>2 DEF RestDR
<1>3. CASE MNext /\ RestM
  BY <1>3 DEF RestM
<1>4. CASE HNext /\ RestH
  BY <1>4 DEF RestH
<1>5. CASE SchNext /\ RestSc
  BY <1>5 DEF RestSc
<1>6. CASE ChNext /\ RestCh
  BY <1>6 DEF RestCh
<1>7. CASE BrNext /\ RestBr
  BY <1>7 DEF RestBr
<1>8. CASE StNext /\ RestSt
  BY <1>8 DEF RestSt
<1>9. CASE KNext /\ RestK
  BY <1>9 DEF RestK
<1>10. CASE UNCHANGED <<focus, rlVars, drVars, mirrorVars, httpVars,
                        schedulerVars, chunkStoreVars, browserVars, streamVars, keyVars>>
  BY <1>10
<1>11. CASE ServingNext
  BY ZenonT(40), <1>1, <1>2, <1>3, <1>4, <1>5, <1>6, <1>7, <1>8, <1>9, <1>11 DEF ServingNext
<1>. QED
  BY Zenon, <1>10, <1>11

ServingInv ==
    /\ RLInv /\ rlNow <= RLMaxTime
    /\ DRInv /\ HistoriesBounded
    /\ MirrorInv /\ MirrorsKnown
    /\ HttpInv /\ AgentsKnown
    /\ SchInv
    /\ StoresOK
    /\ BrowserInv /\ SessionsKnown
    /\ StreamInv /\ StreamsKnown
    /\ KInv

LEMMA ServingInvInit == ServingInit => ServingInv
<1>. SUFFICES ASSUME ServingInit
              PROVE  ServingInv
  OBVIOUS
<1>i. /\ RLInit /\ DRInit /\ HInit /\ SchInit /\ ChInit /\ BrInit /\ StInit /\ KInit
      /\ \E a \in {"yts", "rarbg"} : MInit(a)
  BY Zenon DEF ServingInit
<1>1. /\ RLInv /\ DRInv /\ MirrorInv /\ HttpInv /\ SchInv /\ BrowserInv /\ StreamInv
      /\ KInv
  BY <1>i, RLInvInit, DRInvInit, MirrorInvInit, HttpInvInit, SchInvInit, BrowserInvInit,
     StreamInvInit, KInvInit
<1>2. StoresOK
  BY <1>i, StoresInit
<1>3. rlNow <= RLMaxTime
  BY <1>i, RLAssumption DEF RLInit
<1>4. HistoriesBounded
  <2>1. Len(<<>>) = 0
    OBVIOUS
  <2>. QED
    BY <1>i, <2>1, DRAssumption DEF DRInit, HistoriesBounded
<1>5. MirrorsKnown
  BY <1>i, MirrorsAssumption DEF MInit, MirrorsKnown
<1>6. AgentsKnown
  BY <1>i DEF HInit, NotSent, AgentsKnown
<1>7. SessionsKnown
  BY <1>i, BrowserAssumption DEF BrInit, NoCall, SessionsKnown, Answered
<1>8. StreamsKnown
  <2>1. /\ NoStream.queued = 0 /\ NoStream.state = "none" /\ NoStream.status = 0
    BY DEF NoStream
  <2>2. /\ ready = FALSE /\ torrent = FALSE /\ \A p \in Players : streams[p] = NoStream
    BY <1>i DEF StInit
  <2>3. StreamKnown(NoStream)
    BY <2>1 DEF StreamKnown, HighWaterMark
  <2>4. ready \in BOOLEAN /\ torrent \in BOOLEAN
    BY <2>2
  <2>. QED
    BY <2>2, <2>3, <2>4 DEF StreamsKnown
<1>. QED
  BY <1>1, <1>2, <1>3, <1>4, <1>5, <1>6, <1>7, <1>8 DEF ServingInv

LEMMA ServingInvStep ==
    ServingInv /\ [ServingNext]_<<focus, rlVars, drVars, mirrorVars, httpVars,
                                  schedulerVars, chunkStoreVars, browserVars, streamVars, keyVars>>
    => ServingInv'
<1>. SUFFICES ASSUME ServingInv,
                     [ServingNext]_<<focus, rlVars, drVars, mirrorVars, httpVars,
                                     schedulerVars, chunkStoreVars, browserVars, streamVars, keyVars>>
              PROVE  ServingInv'
  OBVIOUS
<1>s. /\ [RLNext]_rlVars /\ [DRNext]_drVars /\ [MNext]_mirrorVars /\ [HNext]_httpVars
      /\ [SchNext]_schedulerVars /\ [ChNext]_chunkStoreVars
      /\ [BrNext]_browserVars /\ [StNext]_streamVars /\ [KNext]_keyVars
  BY EachComponentSteps
<1>i. ServingInv
  OBVIOUS
<1>1. RLInv' /\ DRInv' /\ MirrorInv' /\ HttpInv' /\ SchInv' /\ BrowserInv' /\ StreamInv' /\ KInv'
  BY <1>s, <1>i, RLInvStep, DRInvStep, MirrorInvStep, HttpInvStep, SchInvStep, BrowserInvStep,
     StreamInvStep, KInvStep DEF ServingInv
<1>2. StoresOK'
  BY <1>s, <1>i, StoresStep DEF ServingInv
<1>3. (rlNow <= RLMaxTime)'
  <2>1. rlNow' = rlNow \/ (rlNow < RLMaxTime /\ rlNow' = rlNow + 1)
    BY <1>s DEF RLNext, rlVars, Tick, RejectOrServe, ApiThrottle, FetchSource
  <2>2. rlNow \in Nat /\ rlNow <= RLMaxTime /\ RLMaxTime \in Nat
    BY <1>i, RLAssumption DEF ServingInv, RLInv, RLTyped
  <2>. QED
    BY <2>1, <2>2
<1>4. HistoriesBounded' /\ MirrorsKnown' /\ AgentsKnown' /\ SessionsKnown' /\ StreamsKnown'
  BY <1>s, <1>i, HistoriesStep, MirrorsStep, AgentsStep, SessionsStep, StreamsStep DEF ServingInv
<1>. QED
  BY <1>1, <1>2, <1>3, <1>4 DEF ServingInv

(***************************************************************************)
(* Every variable of the components keeps its type, for every value of     *)
(* their constants: no clock, history, queue or token outgrows its bound   *)
(* (dynamic-rate-limit.ts:663-678, download.service.ts:633-690), no list   *)
(* of mirrors is empty (yts.api.ts), no profile has two cookies of one     *)
(* session (auth.routes.ts:108-173).                                       *)
(***************************************************************************)
THEOREM ServingKeepsItsTypes == ServingSpec => []ServingTypeOK
<1>1. ServingInv => ServingTypeOK
  <2>. SUFFICES ASSUME ServingInv
                PROVE  ServingTypeOK
    OBVIOUS
  <2>1. RLTypeOK
    <3>1. rlNow \in 0..RLMaxTime
      BY RLAssumption DEF ServingInv, RLInv, RLTyped
    <3>2. \A l \in Limiters : stamps[l] \in Seq(Nat)
      BY DEF ServingInv, RLInv, RLTyped
    <3>3. \A l \in Limiters : \A i \in DOMAIN stamps[l] : stamps[l][i] \in Nat
      BY <3>2, ElementOfSeq, LenProperties
    <3>. QED
      BY <3>1, <3>3 DEF RLTypeOK, ServingInv, RLInv, RLTyped
  <2>2. DRTypeOK
    BY DEF DRTypeOK, ServingInv, DRInv, HistoriesBounded, CountedRuns
  <2>3. MTypeOK
    <3>1. queueCount \in Nat
      BY FS_CardinalityType DEF ServingInv, MirrorInv, LevelsCounted
    <3>2. \A c \in Calls : calls[c] \in MirrorCalls
      BY DEF ServingInv, MirrorInv, LevelsCounted
    <3>3. \A c \in Calls : calls[c].stage \in {"idle", "entered", "sent", "storing", "storingNull",
                                               "done", "failed"}
      BY <3>2 DEF MirrorCalls
    <3>4. /\ api \in {"yts", "rarbg"} /\ mirrorIdx \in Nat /\ apiUrl \in Domains \cup {Configured}
          /\ mirrors \in Lists /\ movedIn \in Lists
      BY AddressKnown DEF ServingInv, MirrorInv, AddressInStep
    <3>. QED
      BY <3>1, <3>3, <3>4 DEF MTypeOK, ServingInv, MirrorsKnown
  <2>4. HTypeOK
    <3>1. starts \in SUBSET StatEntries /\ kept \in SUBSET StatEntries
      BY DEF ServingInv, HttpInv
    <3>2. \A x \in starts \cup kept : x.of \in HttpRequestIds /\ x.frame \in 0..MaxFrame
      BY <3>1 DEF StatEntries
    <3>. QED
      BY <3>2 DEF HTypeOK, ServingInv, HttpInv, AgentsKnown
  <2>5. SchTypeOK /\ ChTypeOK
    BY DEF ServingInv, SchInv, StoresOK
  <2>6. BrTypeOK
    <3>1. \A s \in Profiles : current[s] \in 0..MaxRotations
      BY BrowserAssumption DEF ServingInv, SessionsKnown, BrowserInv, BrowserTyped
    <3>. QED
      BY <3>1 DEF BrTypeOK, ServingInv, SessionsKnown, BrowserInv, BrowserTyped, ListedSessions
  <2>7. StTypeOK
    BY DEF StTypeOK, ServingInv, StreamsKnown, StreamKnown
  <2>8. KTypeOK
    BY DEF ServingInv, KInv
  <2>. QED
    BY <2>1, <2>2, <2>3, <2>4, <2>5, <2>6, <2>7, <2>8 DEF ServingTypeOK
<1>. QED
  BY <1>1, ServingInvInit, ServingInvStep, PTL DEF ServingSpec
================================================================================
