------------------------- MODULE MetadataWorkersProofs -------------------------
(***************************************************************************)
(* Proofs about MetadataWorkers, for any services, caps and callers: the   *)
(* types, the caps, the slots, and that a call that waits is in one place. *)
(***************************************************************************)
EXTENDS MetadataWorkers, TLAPS, FiniteSetTheorems, SequenceTheorems

(* A worker has a job exactly while it works on it, a service to wait for  *)
(* while it waits, and no number beyond those that were created.           *)
WorkersConsistent ==
    \A w \in Workers :
       /\ worker[w] \in {"none", "cycle", "ended"} => job[w] = NoRequest
       /\ worker[w] \in {"trying", "asking"} => job[w] \in Requests
       /\ worker[w] = "asking" => todo[w] # <<>>
       /\ w > activeWorkers => worker[w] = "none"

Queued(q) == \E i \in DOMAIN queue : queue[i] = q
WorkedOn(q) == \E w \in Workers : job[w] = q

(* A call is in one place of the queue or in the hands of one worker,      *)
(* exactly as long as it waits.                                            *)
InOnePlace ==
    /\ \A i, j \in DOMAIN queue : queue[i] = queue[j] => i = j
    /\ \A v, w \in Workers : job[v] = job[w] /\ job[v] # NoRequest => v = w
    /\ \A q \in Requests : ~(Queued(q) /\ WorkedOn(q))
    /\ \A q \in Requests : answer[q] = "waiting" <=> Queued(q) \/ WorkedOn(q)

IInv == TypeOK /\ WorkersConsistent
--------------------------------------------------------------------------------
(* The orders in which a job may try the services are orders of names.     *)
LEMMA NamesFinite == IsFiniteSet(Names)
<1>1. Services \in [1 .. Len(Services) -> Names] /\ Len(Services) \in Nat
  BY ServicesAssumption, LenProperties
<1>2. Services \in Surjection(1 .. Len(Services), Names)
  BY <1>1 DEF Surjection, Names, Range
<1> QED
  BY <1>1, <1>2, FS_NatSurjection DEF ExistsSurjection

LEMMA OrdersTyped == ServiceOrders \subseteq Seq(Names)
<1>1. Cardinality(Names) \in Nat
  BY NamesFinite, FS_CardinalityType
<1>2. ServiceOrders \subseteq [1 .. Cardinality(Names) -> Names]
  BY DEF ServiceOrders, SetToSeqs
<1> QED
  BY <1>1, <1>2, SeqDef

LEMMA WorkersFinite == ASSUME NEW S \in SUBSET Workers PROVE IsFiniteSet(S)
<1>1. IsFiniteSet(Workers)
  BY ConcurrencyAssumption, FS_Interval DEF Workers
<1> QED
  BY <1>1, FS_Subset
--------------------------------------------------------------------------------
LEMMA InitInv == Init => IInv
  BY ConcurrencyAssumption DEF Init, IInv, TypeOK, WorkersConsistent, Workers

LEMMA CompleteInv ==
    ASSUME IInv, NEW w \in Workers, NEW result \in {"file", "null"},
           worker[w] \in {"trying", "asking"}, Complete(w, result),
           UNCHANGED <<queue, activeWorkers>>,
           activeRequests' \in [Names -> SUBSET Workers]
    PROVE  IInv'
  BY DEF IInv, TypeOK, WorkersConsistent, Complete, AfterJob

LEMMA InvStep == IInv /\ [Next]_vars => IInv'
<1> SUFFICES ASSUME IInv, [Next]_vars PROVE IInv'
    OBVIOUS
<1> USE ConcurrencyAssumption
<1>1. ASSUME NEW q \in Requests, GetSourceMetadataFile(q) PROVE IInv'
  <2>1. queue' \in Seq(Requests) /\ answer' \in [Requests -> {"none", "waiting", "file", "null"}]
    BY <1>1 DEF GetSourceMetadataFile, IInv, TypeOK
  <2>2. CASE RoomForWorker
    <3>1. activeWorkers + 1 \in Workers
      BY <2>2 DEF RoomForWorker, IInv, TypeOK, Workers
    <3>2. TypeOK'
      BY <1>1, <2>1, <2>2, <3>1 DEF GetSourceMetadataFile, IInv, TypeOK, RoomForWorker
    <3>3. job[activeWorkers + 1] = NoRequest
      BY <3>1 DEF IInv, TypeOK, WorkersConsistent, Workers
    <3> QED
      BY <1>1, <2>2, <3>1, <3>2, <3>3
         DEF GetSourceMetadataFile, IInv, TypeOK, WorkersConsistent, Workers
  <2>3. CASE ~RoomForWorker
    BY <1>1, <2>1, <2>3 DEF GetSourceMetadataFile, IInv, TypeOK, WorkersConsistent
  <2> QED
    BY <2>2, <2>3
<1>2. ASSUME NEW w \in Workers, WorkerCycle(w) PROVE IInv'
  <2>1. CASE queue = <<>>
    BY <1>2, <2>1 DEF WorkerCycle, IInv, TypeOK, WorkersConsistent
  <2>2. CASE queue # <<>>
    <3>1. Head(queue) \in Requests /\ Tail(queue) \in Seq(Requests)
      BY <2>2, HeadTailProperties DEF IInv, TypeOK
    <3>2. PICK order \in Seq(Names) : todo' = [todo EXCEPT ![w] = order]
      BY <1>2, <2>2, OrdersTyped DEF WorkerCycle
    <3>3. TypeOK'
      <4>1. /\ worker' = [worker EXCEPT ![w] = "trying"]
            /\ job' = [job EXCEPT ![w] = Head(queue)]
            /\ queue' = Tail(queue)
            /\ UNCHANGED <<activeWorkers, activeRequests, answer>>
        BY <1>2, <2>2 DEF WorkerCycle, ShiftedQueue
      <4>2. todo' \in [Workers -> Seq(Names)]
        BY <3>2 DEF IInv, TypeOK
      <4>3. /\ worker' \in [Workers -> {"none", "cycle", "trying", "asking", "ended"}]
            /\ job' \in [Workers -> Requests \cup {NoRequest}]
        BY <3>1, <4>1 DEF IInv, TypeOK
      <4> QED
        BY <3>1, <4>1, <4>2, <4>3 DEF IInv, TypeOK
    <3>4. WorkersConsistent'
      BY <1>2, <2>2, <3>1, <3>2 DEF WorkerCycle, IInv, TypeOK, WorkersConsistent
    <3> QED
      BY <3>3, <3>4 DEF IInv
  <2> QED
    BY <2>1, <2>2
<1>3. ASSUME NEW w \in Workers, SkipService(w) PROVE IInv'
  <2>1. Tail(todo[w]) \in Seq(Names)
    BY <1>3, HeadTailProperties DEF SkipService, IInv, TypeOK
  <2> QED
    BY <1>3, <2>1 DEF SkipService, IInv, TypeOK, WorkersConsistent
<1>4. ASSUME NEW w \in Workers, AskService(w) PROVE IInv'
  <2>1. Head(todo[w]) \in Names
    BY <1>4, HeadTailProperties DEF AskService, IInv, TypeOK
  <2> QED
    BY <1>4, <2>1 DEF AskService, IInv, TypeOK, WorkersConsistent
<1>5. ASSUME NEW w \in Workers, ServiceAnswers(w) PROVE IInv'
  <2>1. Head(todo[w]) \in Names /\ Tail(todo[w]) \in Seq(Names)
    BY <1>5, HeadTailProperties DEF ServiceAnswers, IInv, TypeOK, WorkersConsistent
  <2>2. activeRequests' \in [Names -> SUBSET Workers]
    BY <1>5, <2>1 DEF ServiceAnswers, Release, IInv, TypeOK
  <2>3. CASE Complete(w, "file")
    BY <1>5, <2>2, <2>3, CompleteInv DEF ServiceAnswers
  <2>4. CASE ~Complete(w, "file")
    <3>1. /\ worker[w] = "asking"
          /\ worker' = [worker EXCEPT ![w] = "trying"]
          /\ todo' = [todo EXCEPT ![w] = Tail(@)]
          /\ UNCHANGED <<queue, activeWorkers, job, answer>>
      BY <1>5, <2>4 DEF ServiceAnswers
    <3>2. TypeOK'
      BY <2>1, <2>2, <3>1 DEF IInv, TypeOK
    <3> QED
      BY <3>1, <3>2 DEF IInv, TypeOK, WorkersConsistent
  <2> QED
    BY <2>3, <2>4
<1>6. ASSUME NEW w \in Workers, GiveUp(w) PROVE IInv'
  BY <1>6, CompleteInv DEF GiveUp, IInv, TypeOK
<1>7. CASE UNCHANGED vars
  BY <1>7 DEF vars, IInv, TypeOK, WorkersConsistent
<1> QED
  BY <1>1, <1>2, <1>3, <1>4, <1>5, <1>6, <1>7 DEF Next, Work

(* Every variable of the pool keeps its type, for any services and callers.*)
THEOREM PoolTypeCorrect == Spec => []TypeOK
<1>1. Spec => []IInv
  BY InitInv, InvStep, PTL DEF Spec
<1>2. IInv => TypeOK
  BY DEF IInv
<1> QED
  BY <1>1, <1>2, PTL
--------------------------------------------------------------------------------
LEMMA SlotsStep == IInv /\ SlotsAccountedFor /\ [Next]_vars => SlotsAccountedFor'
<1> SUFFICES ASSUME IInv, SlotsAccountedFor, [Next]_vars PROVE SlotsAccountedFor'
    OBVIOUS
<1> USE ConcurrencyAssumption DEF SlotsAccountedFor
<1>1. ASSUME NEW q \in Requests, GetSourceMetadataFile(q) PROVE SlotsAccountedFor'
  <2>1. CASE RoomForWorker
    <3>1. activeWorkers + 1 \in Workers /\ worker[activeWorkers + 1] = "none"
      BY <2>1 DEF RoomForWorker, IInv, TypeOK, WorkersConsistent, Workers
    <3> QED
      BY <1>1, <2>1, <3>1 DEF GetSourceMetadataFile, IInv, TypeOK
  <2>2. CASE ~RoomForWorker
    BY <1>1, <2>2 DEF GetSourceMetadataFile
  <2> QED
    BY <2>1, <2>2
<1>2. ASSUME NEW w \in Workers, WorkerCycle(w) PROVE SlotsAccountedFor'
  BY <1>2 DEF WorkerCycle, IInv, TypeOK
<1>3. ASSUME NEW w \in Workers, SkipService(w) PROVE SlotsAccountedFor'
  BY <1>3 DEF SkipService, IInv, TypeOK
<1>4. ASSUME NEW w \in Workers, AskService(w) PROVE SlotsAccountedFor'
  <2>1. Head(todo[w]) \in Names
    BY <1>4, HeadTailProperties DEF AskService, IInv, TypeOK
  <2> QED
    BY <1>4, <2>1 DEF AskService, IInv, TypeOK
<1>5. ASSUME NEW w \in Workers, ServiceAnswers(w) PROVE SlotsAccountedFor'
  <2>1. Head(todo[w]) \in Names
    BY <1>5, HeadTailProperties DEF ServiceAnswers, IInv, TypeOK, WorkersConsistent
  <2>2. /\ worker'[w] # "asking"
        /\ \A v \in Workers \ {w} : worker'[v] = worker[v] /\ todo'[v] = todo[v]
    BY <1>5 DEF ServiceAnswers, Complete, AfterJob, IInv, TypeOK
  <2> QED
    BY <1>5, <2>1, <2>2 DEF ServiceAnswers, Release, IInv, TypeOK
<1>6. ASSUME NEW w \in Workers, GiveUp(w) PROVE SlotsAccountedFor'
  BY <1>6 DEF GiveUp, Complete, AfterJob, IInv, TypeOK
<1>7. CASE UNCHANGED vars
  BY <1>7 DEF vars
<1> QED
  BY <1>1, <1>2, <1>3, <1>4, <1>5, <1>6, <1>7 DEF Next, Work

(* A slot of a service is held by the worker that waits for it, and by no  *)
(* other: no path through convertToFileWith leaks one or frees one early.  *)
THEOREM NoSlotLeaks == Spec => []SlotsAccountedFor
<1>1. Init => SlotsAccountedFor
  BY DEF Init, SlotsAccountedFor
<1> QED
  BY <1>1, InitInv, InvStep, SlotsStep, PTL DEF Spec
--------------------------------------------------------------------------------
LEMMA CapsStep == IInv /\ CapsRespected /\ [Next]_vars => CapsRespected'
<1> SUFFICES ASSUME IInv, CapsRespected, [Next]_vars, NEW s \in Names
             PROVE  Cardinality(activeRequests'[s]) <= Cap[s]
    BY DEF CapsRespected
<1>1. IsFiniteSet(activeRequests[s])
  BY WorkersFinite DEF IInv, TypeOK
<1>2. Cardinality(activeRequests[s]) \in Nat /\ Cap[s] \in Nat
  BY <1>1, FS_CardinalityType, ServicesAssumption
<1>3. CASE activeRequests'[s] = activeRequests[s]
  BY <1>3 DEF CapsRespected
<1>4. ASSUME NEW w \in Workers, AskService(w), activeRequests'[s] # activeRequests[s]
      PROVE  Cardinality(activeRequests'[s]) <= Cap[s]
  <2>1. SlotFree(s) /\ activeRequests'[s] = activeRequests[s] \cup {w}
    BY <1>4 DEF AskService, IInv, TypeOK
  <2>2. \/ Cardinality(activeRequests'[s]) = Cardinality(activeRequests[s])
        \/ Cardinality(activeRequests'[s]) = Cardinality(activeRequests[s]) + 1
    BY <1>1, <2>1, FS_AddElement, Zenon
  <2> QED
    BY <1>2, <2>1, <2>2 DEF SlotFree
<1>5. ASSUME NEW w \in Workers, ServiceAnswers(w), activeRequests'[s] # activeRequests[s]
      PROVE  Cardinality(activeRequests'[s]) <= Cap[s]
  <2>1. activeRequests'[s] = activeRequests[s] \ {w}
    BY <1>5 DEF ServiceAnswers, Release, IInv, TypeOK
  <2>2. \/ Cardinality(activeRequests'[s]) = Cardinality(activeRequests[s])
        \/ Cardinality(activeRequests'[s]) = Cardinality(activeRequests[s]) - 1
    BY <1>1, <2>1, FS_RemoveElement, Zenon
  <2> QED
    BY <1>2, <2>2 DEF CapsRespected
<1> QED
  BY <1>3, <1>4, <1>5
     DEF Next, vars, GetSourceMetadataFile, Work, WorkerCycle, SkipService, GiveUp

(* No service is asked by more workers at once than it is configured for,  *)
(* however many call and whatever the services answer.                     *)
THEOREM CapsHold == Spec => []CapsRespected
<1>1. Init => CapsRespected
  BY FS_EmptySet, ServicesAssumption DEF Init, CapsRespected
<1> QED
  BY <1>1, InitInv, InvStep, CapsStep, PTL DEF Spec
--------------------------------------------------------------------------------
LEMMA CompleteInOnePlace ==
    ASSUME IInv, InOnePlace, NEW w \in Workers, NEW result \in {"file", "null"},
           worker[w] \in {"trying", "asking"}, Complete(w, result), UNCHANGED queue
    PROVE  InOnePlace'
<1>1. job[w] \in Requests /\ job[w] # NoRequest
  BY NoRequestAssumption DEF IInv, WorkersConsistent
<1>2. \A q \in Requests : Queued(q)' <=> Queued(q)
  BY DEF Queued
<1>3. \A q \in Requests : WorkedOn(q)' <=> WorkedOn(q) /\ q # job[w]
  BY <1>1, NoRequestAssumption DEF WorkedOn, Complete, InOnePlace, IInv, TypeOK
<1>4. ~Queued(job[w])
  BY <1>1 DEF InOnePlace, WorkedOn
<1> QED
  BY <1>1, <1>2, <1>3, <1>4 DEF InOnePlace, Complete, IInv, TypeOK

LEMMA InOnePlaceStep == IInv /\ InOnePlace /\ [Next]_vars => InOnePlace'
<1> SUFFICES ASSUME IInv, InOnePlace, [Next]_vars PROVE InOnePlace'
    OBVIOUS
<1>1. ASSUME NEW q \in Requests, GetSourceMetadataFile(q) PROVE InOnePlace'
  <2>1. ~Queued(q) /\ ~WorkedOn(q)
    BY <1>1 DEF GetSourceMetadataFile, InOnePlace
  <2>2. /\ DOMAIN queue = 1 .. Len(queue) /\ Len(queue) \in Nat
        /\ DOMAIN queue' = 1 .. Len(queue) + 1
        /\ \A i \in 1 .. Len(queue) : queue'[i] = queue[i]
        /\ queue'[Len(queue) + 1] = q
    BY <1>1, AppendProperties, LenProperties DEF GetSourceMetadataFile, IInv, TypeOK
  <2>3. \A p \in Requests : Queued(p)' <=> Queued(p) \/ p = q
    BY <2>2 DEF Queued
  <2>4. \A p \in Requests : WorkedOn(p)' <=> WorkedOn(p)
    BY <1>1 DEF GetSourceMetadataFile, WorkedOn
  <2>5. \A i, j \in DOMAIN queue' : queue'[i] = queue'[j] => i = j
    BY <2>1, <2>2 DEF InOnePlace, Queued
  <2>6. \A p \in Requests : answer'[p] = "waiting" <=> answer[p] = "waiting" \/ p = q
    BY <1>1 DEF GetSourceMetadataFile, IInv, TypeOK
  <2> QED
    BY <1>1, <2>1, <2>3, <2>4, <2>5, <2>6 DEF GetSourceMetadataFile, InOnePlace
<1>2. ASSUME NEW w \in Workers, WorkerCycle(w) PROVE InOnePlace'
  <2>1. CASE queue = <<>>
    BY <1>2, <2>1 DEF WorkerCycle, InOnePlace, Queued, WorkedOn
  <2>2. CASE queue # <<>>
    <3> DEFINE q == Head(queue)
    <3>1. /\ DOMAIN queue = 1 .. Len(queue) /\ Len(queue) \in Nat \ {0}
          /\ q \in Requests /\ q = queue[1]
          /\ DOMAIN Tail(queue) = 1 .. Len(queue) - 1
          /\ \A i \in 1 .. Len(queue) - 1 : Tail(queue)[i] = queue[i + 1]
      BY <2>2, HeadTailProperties, LenProperties, EmptySeq DEF IInv, TypeOK
    <3>2. queue' = Tail(queue) /\ job' = [job EXCEPT ![w] = q] /\ UNCHANGED answer
      BY <1>2, <2>2 DEF WorkerCycle, ShiftedQueue
    <3>3. job[w] = NoRequest
      BY <1>2 DEF WorkerCycle, IInv, WorkersConsistent
    <3>4. Queued(q) /\ ~WorkedOn(q)
      BY <3>1 DEF Queued, InOnePlace
    <3>5. \A p \in Requests : Queued(p)' <=> Queued(p) /\ p # q
      <4> SUFFICES ASSUME NEW p \in Requests PROVE Queued(p)' <=> Queued(p) /\ p # q
          OBVIOUS
      <4>1. ASSUME NEW i \in 1 .. Len(queue) - 1
            PROVE  i + 1 \in DOMAIN queue /\ queue[i + 1] # q
        BY <3>1 DEF InOnePlace
      <4>2. Queued(p)' => Queued(p) /\ p # q
        BY <3>1, <3>2, <4>1 DEF Queued
      <4>3. ASSUME NEW i \in DOMAIN queue, queue[i] = p, p # q PROVE Queued(p)'
        <5>1. i - 1 \in 1 .. Len(queue) - 1 /\ Tail(queue)[i - 1] = p
          BY <3>1, <4>3
        <5> QED
          BY <3>1, <3>2, <5>1 DEF Queued
      <4> QED
        BY <4>2, <4>3 DEF Queued
    <3>6. \A p \in Requests : WorkedOn(p)' <=> WorkedOn(p) \/ p = q
      BY <3>2, <3>3, NoRequestAssumption DEF WorkedOn, IInv, TypeOK
    <3>7. \A i, j \in DOMAIN queue' : queue'[i] = queue'[j] => i = j
      <4> SUFFICES ASSUME NEW i \in 1 .. Len(queue) - 1, NEW j \in 1 .. Len(queue) - 1,
                          queue[i + 1] = queue[j + 1]
                   PROVE  i = j
          BY <3>1, <3>2
      <4>1. i + 1 \in DOMAIN queue /\ j + 1 \in DOMAIN queue
        BY <3>1
      <4> QED
        BY <4>1 DEF InOnePlace
    <3>8. \A v, u \in Workers : job'[v] = job'[u] /\ job'[v] # NoRequest => v = u
      BY <3>2, <3>4 DEF InOnePlace, WorkedOn, IInv, TypeOK
    <3> HIDE DEF q
    <3> QED
      BY <3>2, <3>4, <3>5, <3>6, <3>7, <3>8 DEF InOnePlace
  <2> QED
    BY <2>1, <2>2
<1>3. ASSUME NEW w \in Workers, SkipService(w) \/ AskService(w) PROVE InOnePlace'
  BY <1>3 DEF SkipService, AskService, InOnePlace, Queued, WorkedOn
<1>4. ASSUME NEW w \in Workers, ServiceAnswers(w) PROVE InOnePlace'
  <2>1. CASE Complete(w, "file")
    BY <1>4, <2>1, CompleteInOnePlace DEF ServiceAnswers
  <2>2. CASE ~Complete(w, "file")
    BY <1>4, <2>2 DEF ServiceAnswers, InOnePlace, Queued, WorkedOn
  <2> QED
    BY <2>1, <2>2
<1>5. ASSUME NEW w \in Workers, GiveUp(w) PROVE InOnePlace'
  BY <1>5, CompleteInOnePlace DEF GiveUp
<1>6. CASE UNCHANGED vars
  BY <1>6 DEF vars, InOnePlace, Queued, WorkedOn
<1> QED
  BY <1>1, <1>2, <1>3, <1>4, <1>5, <1>6 DEF Next, Work

(* What one place means in numbers.                                        *)
LEMMA PlacesCounted == IInv /\ InOnePlace => WaitingOnce
<1> SUFFICES ASSUME IInv, InOnePlace, NEW q \in Requests
             PROVE  Cardinality({i \in DOMAIN queue : queue[i] = q})
                      + Cardinality({w \in Workers : job[w] = q})
                      = IF answer[q] = "waiting" THEN 1 ELSE 0
    BY DEF WaitingOnce
<1> DEFINE places == {i \in DOMAIN queue : queue[i] = q}
           hands == {w \in Workers : job[w] = q}
<1>1. /\ ~Queued(q) => places = {}
      /\ Queued(q) => \E i : places = {i}
  <2>1. ASSUME NEW i \in DOMAIN queue, queue[i] = q PROVE places = {i}
    BY <2>1 DEF InOnePlace
  <2> QED
    BY <2>1 DEF Queued
<1>2. /\ ~WorkedOn(q) => hands = {}
      /\ WorkedOn(q) => \E w : hands = {w}
  <2>1. ASSUME NEW w \in Workers, job[w] = q PROVE hands = {w}
    BY <2>1, NoRequestAssumption DEF InOnePlace
  <2> QED
    BY <2>1 DEF WorkedOn
<1>3. /\ Cardinality(places) = IF Queued(q) THEN 1 ELSE 0
      /\ Cardinality(hands) = IF WorkedOn(q) THEN 1 ELSE 0
  BY <1>1, <1>2, FS_EmptySet, FS_Singleton
<1> QED
  BY <1>3 DEF InOnePlace

(* A call that waits is in the queue once or in the hands of one worker,   *)
(* for any number of callers: none is dropped, and none is done twice.     *)
THEOREM NoneLostOrDoubled == Spec => []WaitingOnce
<1>1. Init => InOnePlace
  BY NoRequestAssumption DEF Init, InOnePlace, Queued, WorkedOn
<1> QED
  BY <1>1, InitInv, InvStep, InOnePlaceStep, PlacesCounted, PTL DEF Spec
================================================================================
