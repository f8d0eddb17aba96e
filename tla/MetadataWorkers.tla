---------------------------- MODULE MetadataWorkers ----------------------------
(***************************************************************************)
(* The worker pool of SourceMetadataFileService: getSourceMetadataFile     *)
(* queues a request and may create a worker; a worker takes requests off   *)
(* the queue and asks the services for the file, one service after the     *)
(* other, until the queue is empty.  A worker lets the others run at each  *)
(* await: around each service it tries or asks.                            *)
(***************************************************************************)
EXTENDS Naturals, Sequences, FiniteSets, SequencesExt

CONSTANTS
    Requests,       \* callers of getSourceMetadataFile, each with one call at a time
    Services,       \* the services, in the order createService made them
    Cap,            \* maxConcurrentRequests of each service
    RateLimited,    \* services that have a DynamicRateLimit
    NoRequest       \* what a worker that has no job works on

Names == Range(Services)

ASSUME ServicesAssumption ==
    /\ Services \in Seq(Names) /\ IsInjective(Services)
    /\ Cap \in [Names -> Nat \ {0}]
    /\ RateLimited \subseteq Names
ASSUME NoRequestAssumption == NoRequest \notin Requests

(* The constructor: the number of requests the services take at once.      *)
Concurrency == FoldFunctionOnSet(LAMBDA c, n : c + n, 0, Cap, Names)
Workers == 1 .. Concurrency

(* A sum of naturals is one: the provers cannot compute folds.             *)
ASSUME ConcurrencyAssumption == Concurrency \in Nat

VARIABLES
    queue,          \* requests that no worker has taken yet
    activeWorkers,  \* workers created; the code never counts one down
    worker,         \* worker[w]: where worker w is in its cycle
    job,            \* job[w]: the request that w has taken off the queue
    todo,           \* todo[w]: the services that w has still to try for its job
    activeRequests, \* activeRequests[s]: the workers that s is serving
    answer          \* answer[q]: what the promise of the last call of q holds

vars == <<queue, activeWorkers, worker, job, todo, activeRequests, answer>>

Running == {w \in Workers : worker[w] \notin {"none", "ended"}}
--------------------------------------------------------------------------------
Init ==
    /\ queue = <<>>
    /\ activeWorkers = 0
    /\ worker = [w \in Workers |-> "none"]
    /\ job = [w \in Workers |-> NoRequest]
    /\ todo = [w \in Workers |-> <<>>]
    /\ activeRequests = [s \in Names |-> {}]
    /\ answer = [q \in Requests |-> "none"]

RoomForOneMore == activeWorkers <= Concurrency                  \* mutant
RoomForWorker == activeWorkers < Concurrency

(* createWorker, then the push; setImmediate runs the worker later.        *)
GetSourceMetadataFile(q) ==
    /\ answer[q] # "waiting"
    /\ answer' = [answer EXCEPT ![q] = "waiting"]
    /\ queue' = Append(queue, q)
    /\ \/ /\ RoomForWorker
          /\ activeWorkers' = activeWorkers + 1
          /\ worker' = [worker EXCEPT ![activeWorkers + 1] = "cycle"]
       \/ /\ ~RoomForWorker
          /\ UNCHANGED <<activeWorkers, worker>>
    /\ UNCHANGED <<job, todo, activeRequests>>

SlotBeyondCap(s) == Cardinality(activeRequests[s]) <= Cap[s]   \* mutant
SlotFree(s) == Cardinality(activeRequests[s]) < Cap[s]

(* Idle services come first, in the order they were made; the score of     *)
(* getOptimizedServiceOrder, which is data here, orders only the others.   *)
Rank(s) == CHOOSE i \in DOMAIN Services : Services[i] = s
ServiceOrders ==
    {order \in SetToSeqs(Names) :
        \A i, j \in DOMAIN order : i < j /\ SlotFree(order[j]) =>
            SlotFree(order[i]) /\ Rank(order[i]) < Rank(order[j])}

PeekedQueue == queue                                            \* mutant
ShiftedQueue == Tail(queue)

(* The test of the loop in workerCycle and the start of processQueue.      *)
WorkerCycle(w) ==
    /\ worker[w] = "cycle"
    /\ \/ /\ queue = <<>>
          /\ worker' = [worker EXCEPT ![w] = "ended"]
          /\ UNCHANGED <<queue, job, todo>>
       \/ /\ queue # <<>>
          /\ worker' = [worker EXCEPT ![w] = "trying"]
          /\ job' = [job EXCEPT ![w] = Head(queue)]
          /\ queue' = ShiftedQueue
          /\ \E order \in ServiceOrders : todo' = [todo EXCEPT ![w] = order]
    /\ UNCHANGED <<activeWorkers, activeRequests, answer>>

(* convertToFileWith returns false: at its cap, or throttled.              *)
SkipService(w) ==
    /\ worker[w] = "trying"
    /\ todo[w] # <<>>
    /\ Head(todo[w]) \in RateLimited \/ ~SlotFree(Head(todo[w]))
    /\ todo' = [todo EXCEPT ![w] = Tail(@)]
    /\ UNCHANGED <<queue, activeWorkers, worker, job, activeRequests, answer>>

(* convertToFileWith up to the await of getSourceMetadata.                 *)
AskService(w) ==
    /\ worker[w] = "trying"
    /\ todo[w] # <<>>
    /\ SlotFree(Head(todo[w]))
    /\ activeRequests' = [activeRequests EXCEPT ![Head(todo[w])] = @ \cup {w}]
    /\ worker' = [worker EXCEPT ![w] = "asking"]
    /\ UNCHANGED <<queue, activeWorkers, job, todo, answer>>

(* Where the loop of workerCycle leaves a worker whose job is done.        *)
OneJobPerWorker == "ended"                                      \* mutant
AfterJob == "cycle"

Complete(w, result) ==
    /\ answer' = [answer EXCEPT ![job[w]] = result]
    /\ worker' = [worker EXCEPT ![w] = AfterJob]
    /\ job' = [job EXCEPT ![w] = NoRequest]
    /\ todo' = [todo EXCEPT ![w] = <<>>]

(* The finally block: the slot is given back, answer or error.             *)
KeepSlot(s, w) == activeRequests[s]                         \* mutant
Release(s, w) == activeRequests[s] \ {w}

ServiceAnswers(w) ==
    /\ worker[w] = "asking"
    /\ LET s == Head(todo[w])
       IN  activeRequests' = [activeRequests EXCEPT ![s] = Release(s, w)]
    /\ \/ Complete(w, "file")
       \/ /\ worker' = [worker EXCEPT ![w] = "trying"]
          /\ todo' = [todo EXCEPT ![w] = Tail(@)]
          /\ UNCHANGED <<job, answer>>
    /\ UNCHANGED <<queue, activeWorkers>>

(* All services failed or were skipped.                                    *)
GiveUp(w) ==
    /\ worker[w] = "trying"
    /\ todo[w] = <<>>
    /\ Complete(w, "null")
    /\ UNCHANGED <<queue, activeWorkers, activeRequests>>

Work(w) ==
    \/ WorkerCycle(w) \/ SkipService(w) \/ AskService(w)
    \/ ServiceAnswers(w) \/ GiveUp(w)

Next ==
    \/ \E q \in Requests : GetSourceMetadataFile(q)
    \/ \E w \in Workers : Work(w)

Spec == Init /\ [][Next]_vars

(* The event loop runs every callback, and every service answers or times  *)
(* out (5 s for the two caches, 120 s for a torrent).  Nobody has to call. *)
Fairness == \A w \in Workers : WF_vars(Work(w))
FairSpec == Spec /\ Fairness
--------------------------------------------------------------------------------
TypeOK ==
    /\ queue \in Seq(Requests)
    /\ activeWorkers \in 0 .. Concurrency
    /\ worker \in [Workers -> {"none", "cycle", "trying", "asking", "ended"}]
    /\ job \in [Workers -> Requests \cup {NoRequest}]
    /\ todo \in [Workers -> Seq(Names)]
    /\ activeRequests \in [Names -> SUBSET Workers]
    /\ answer \in [Requests -> {"none", "waiting", "file", "null"}]

(* No service is given more requests at once than it is configured for.    *)
CapsRespected == \A s \in Names : Cardinality(activeRequests[s]) <= Cap[s]

(* A service's slot is held by a worker that is waiting for that service:  *)
(* no error path of convertToFileWith leaks a slot or frees one early.     *)
SlotsAccountedFor ==
    \A s \in Names :
       activeRequests[s] = {w \in Workers : worker[w] = "asking" /\ Head(todo[w]) = s}

(* A call that waits is in the queue once or is the job of one worker,     *)
(* never both: no call is dropped, and none is done twice.                 *)
WaitingOnce ==
    \A q \in Requests :
       Cardinality({i \in DOMAIN queue : queue[i] = q} )
         + Cardinality({w \in Workers : job[w] = q})
         = IF answer[q] = "waiting" THEN 1 ELSE 0

(* While a worker is up, every call that waits is answered: whatever the   *)
(* services do, and however many calls are made meanwhile.                 *)
AnsweredWhileWorkersRun ==
    \A q \in Requests :
       (answer[q] = "waiting" /\ Running # {}) ~> answer[q] # "waiting"

(* What getSourceMetadataFile documents: "@returns The source metadata     *)
(* file as a Buffer, or null if conversion failed".  Once Concurrency      *)
(* workers have been created and have ended, no call is answered any more. *)
EveryCallAnswered ==
    \A q \in Requests : answer[q] = "waiting" ~> answer[q] # "waiting"
================================================================================
