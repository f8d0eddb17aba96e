------------------------------ MODULE Scheduler ------------------------------
(***************************************************************************)
(* The scheduler of the background tasks (services/scheduler.ts) and the   *)
(* life of the process that uses it (app.ts): the services are configured  *)
(* before the tasks are scheduled, a task is run again one interval after  *)
(* it has settled, and a signal cancels the tasks, closes the database and *)
(* leaves the process five seconds.                                        *)
(***************************************************************************)
EXTENDS Naturals, FiniteSets

CONSTANTS
    TaskNames,
    MaxRecords     \* bound on the scheduleTask calls that are made

ASSUME SchedulerAssumption == MaxRecords \in Nat

VARIABLES
    phase,         \* of the process
    records,       \* every ScheduledTaskRecord ever made, by number
    tasks,         \* the map of the scheduler: name to record; 0 is none
    straggler      \* the records at work when the signal came

schedulerVars == <<phase, records, tasks, straggler>>

NoRecord == 0
Records == DOMAIN records

SchInit ==
    /\ phase = "configuring"
    /\ records = [r \in {} |-> 0]
    /\ tasks = [n \in TaskNames |-> NoRecord]
    /\ straggler = {}

\* runSetup and configureUsers have returned, or one of them has thrown;
\* with DISABLE_BACKGROUND_TASKS nothing is scheduled.
Boot ==
    /\ phase = "configuring"
    /\ phase' \in {"scheduling", "serving", "exited"}
    /\ UNCHANGED <<records, tasks, straggler>>

\* scheduleTask: a name that is taken is refused; otherwise the record is
\* there before the task is run for the first time, at once.
ScheduleTask(n) ==
    /\ phase = "scheduling" /\ Cardinality(Records) < MaxRecords
    /\ IF tasks[n] # NoRecord
       THEN UNCHANGED <<records, tasks>>
       ELSE LET r == Cardinality(Records) + 1
            IN  /\ records' = [x \in Records \cup {r} |->
                                 IF x = r THEN [name |-> n, state |-> "running", cancelled |-> FALSE]
                                 ELSE records[x]]
                /\ tasks' = [tasks EXCEPT ![n] = r]
    /\ UNCHANGED <<phase, straggler>>

Listen ==
    /\ phase = "scheduling"
    /\ phase' = "serving"
    /\ UNCHANGED <<records, tasks, straggler>>

Settles(r, state) == records' = [records EXCEPT ![r].state = state]

\* Mutation: the timer is set whether the task was cancelled or not.
TaskSettlesAnyway(r) ==
    /\ records[r].state = "running" /\ phase # "exited"
    /\ Settles(r, "waiting")
    /\ UNCHANGED <<phase, tasks, straggler>>

\* executeTask, finally: the task has settled, in whichever way.
TaskSettles(r) ==
    /\ records[r].state = "running" /\ phase # "exited"
    /\ Settles(r, IF records[r].cancelled THEN "over" ELSE "waiting")
    /\ UNCHANGED <<phase, tasks, straggler>>

\* The timer fires.
RunAgain(r) ==
    /\ records[r].state = "waiting" /\ phase # "exited"
    /\ Settles(r, "running")
    /\ UNCHANGED <<phase, tasks, straggler>>

\* cancelTask on a record: the timer is cleared, a run that is under way is
\* not waited for.
Cancelled(rec) ==
    [rec EXCEPT !.cancelled = TRUE, !.state = IF @ = "waiting" THEN "over" ELSE @]

\* cancelTask; refused for a name that is not scheduled.
CancelTask(n) ==
    /\ phase \in {"scheduling", "serving"}
    /\ tasks[n] # NoRecord
    /\ records' = [records EXCEPT ![tasks[n]] = Cancelled(@)]
    /\ tasks' = [tasks EXCEPT ![n] = NoRecord]
    /\ UNCHANGED <<phase, straggler>>

\* gracefulShutdown: every task that is listed is cancelled; a second signal
\* finds none.
Signal ==
    /\ phase \in {"serving", "stopping", "closed"}
    /\ straggler' = IF phase = "serving" THEN {r \in Records : records[r].state = "running"}
                    ELSE straggler
    /\ records' = [r \in Records |-> IF \E n \in TaskNames : tasks[n] = r
                                     THEN Cancelled(records[r]) ELSE records[r]]
    /\ tasks' = [n \in TaskNames |-> NoRecord]
    /\ phase' = IF phase = "serving" THEN "stopping" ELSE phase

\* db.close, while a task may be at work.
CloseDatabase ==
    /\ phase = "stopping"
    /\ phase' = "closed"
    /\ UNCHANGED <<records, tasks, straggler>>

\* Five seconds later.
Exit ==
    /\ phase = "closed"
    /\ phase' = "exited"
    /\ UNCHANGED <<records, tasks, straggler>>

SchNext ==
    \/ Boot
    \/ \E n \in TaskNames : ScheduleTask(n) \/ CancelTask(n)
    \/ Listen
    \/ \E r \in Records : TaskSettles(r) \/ RunAgain(r)
    \/ Signal
    \/ CloseDatabase
    \/ Exit

SchSpec == SchInit /\ [][SchNext]_schedulerVars

-----------------------------------------------------------------------------
Live(r) == records[r].state \in {"running", "waiting"}

SchTypeOK ==
    /\ phase \in {"configuring", "scheduling", "serving", "stopping", "closed", "exited"}
    /\ \A r \in Records : /\ records[r].name \in TaskNames
                          /\ records[r].state \in {"running", "waiting", "over"}
                          /\ records[r].cancelled \in BOOLEAN
    /\ tasks \in [TaskNames -> Records \cup {NoRecord}]
    /\ straggler \subseteq Records

(***************************************************************************)
(* A task does not overlap itself, unless one of the two runs was          *)
(* cancelled while it was at work and its name given to another; and once  *)
(* the signal has come the only work that goes on, while the database is   *)
(* being closed, is the run each task was then in: nothing is started      *)
(* again (scheduler.ts:54-63, 75-87; app.ts:183-202).                      *)
(***************************************************************************)
OnlyStragglersWork ==
    /\ \A r, q \in Records :
          (r # q /\ records[r].name = records[q].name /\ Live(r) /\ Live(q)) =>
             records[r].cancelled \/ records[q].cancelled
    /\ phase \in {"stopping", "closed", "exited"} =>
          \A r \in Records : Live(r) => r \in straggler /\ records[r].state = "running"
=============================================================================
