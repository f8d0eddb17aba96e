----------------------------- MODULE VpnGateProofs -----------------------------
(***************************************************************************)
(* Proofs about VpnGate: the types, and that no search behind the VPN goes *)
(* ahead on a state nobody has reported.  The second needs an invariant on *)
(* the promise of the current start: when it is resolved, either its probe *)
(* or an event has set the state since that start.                         *)
(***************************************************************************)
EXTENDS VpnGate, TLAPS

(* What startPromise is for: once it is resolved, the state is an answer   *)
(* and not the leftover of an earlier configuration.                       *)
StartHeard ==
    searchOnlyBehindVpn =>
       /\ startPromise = vpnProbeVersion /\ vpnProbeVersion # 0
       /\ probe[startPromise] = "resolved" => heard

LEMMA InitTyped == Init => TypeOK
<1> SUFFICES ASSUME Init PROVE TypeOK
    OBVIOUS
<1>1. DetectionTyped
  BY DEF Init, DetectionTyped, Answers
<1>2. SourceTyped
  <2>1. 0 \in Versions /\ vpnProbeVersion \in Versions
    BY ProbesAssumption DEF Init, Versions
  <2>2. /\ searchOnlyBehindVpn \in BOOLEAN
        /\ vpnConnected \in BOOLEAN
        /\ heard \in BOOLEAN
    BY DEF Init
  <2>3. /\ probe \in [Versions -> {"none", "asking", "resolved"}]
        /\ probe[0] = "resolved"
    BY <2>1 DEF Init
  <2>4. probe \in [Versions -> Answers \cup {"none", "asking", "resolved", "rejected"}]
    BY <2>3
  <2>5. startPromise = vpnProbeVersion
    BY DEF Init
  <2> QED
    BY <2>1, <2>2, <2>3, <2>4, <2>5 DEF SourceTyped
<1>3. SearchesTyped
  BY DEF Init, SearchesTyped
<1> QED
  BY <1>1, <1>2, <1>3 DEF TypeOK

LEMMA DetectionStep == TypeOK /\ [Next]_vars => DetectionTyped'
<1> SUFFICES ASSUME TypeOK, [Next]_vars PROVE DetectionTyped'
    OBVIOUS
<1> USE DEF TypeOK, DetectionTyped, Answers, detection
<1>1. CASE ConnectionChanges
  BY <1>1 DEF ConnectionChanges
<1>2. CASE UpdateConfig
  BY <1>2 DEF UpdateConfig, IntervalCleared
<1>3. CASE Reload
  BY <1>3 DEF Reload
<1>4. ASSUME NEW c \in Checks, Check(c) PROVE DetectionTyped'
  BY <1>4 DEF Check, StartCheck, AnswerCheck, FailCheck, EndCheck
<1>5. ASSUME NEW v \in Versions, Probe(v) PROVE DetectionTyped'
  BY <1>5 DEF Probe, AnswerProbe, FailProbe, EndProbe
<1>6. ASSUME NEW q \in Searches, Search(q) PROVE DetectionTyped'
  BY <1>6 DEF Search, Begin, Resume, End
<1>7. CASE UNCHANGED vars
  BY <1>7 DEF vars
<1> QED
  BY <1>1, <1>2, <1>3, <1>4, <1>5, <1>6, <1>7 DEF Next

LEMMA NotifyTyped ==
    ASSUME TypeOK, NEW a, Notify(a)
    PROVE  vpnConnected' \in BOOLEAN /\ heard' \in BOOLEAN
BY DEF TypeOK, SourceTyped, Notify

LEMMA SourceStep == TypeOK /\ [Next]_vars => SourceTyped'
<1> SUFFICES ASSUME TypeOK, [Next]_vars PROVE SourceTyped'
    OBVIOUS
<1> USE DEF TypeOK, SourceTyped, Answers, source
<1>1. CASE ConnectionChanges
  BY <1>1 DEF ConnectionChanges
<1>2. CASE UpdateConfig
  BY <1>2 DEF UpdateConfig
<1>3. CASE Reload
  <2>1. /\ searchOnlyBehindVpn' \in BOOLEAN
        /\ vpnConnected' \in BOOLEAN
        /\ heard' \in BOOLEAN
    BY <1>3 DEF Reload, Registered, DetectionTyped
  <2>2. CASE vpnProbeVersion < MaxProbes /\ vpnProbeVersion' = vpnProbeVersion + 1
             /\ probe' = [probe EXCEPT ![vpnProbeVersion'] = "asking"]
             /\ startPromise' = vpnProbeVersion'
    BY <2>1, <2>2, ProbesAssumption DEF Versions
  <2>3. CASE UNCHANGED <<probe, vpnProbeVersion>> /\ startPromise' = 0
    BY <2>1, <2>3
  <2> QED
    BY <1>3, <2>2, <2>3 DEF Reload, NewPromise
<1>4. ASSUME NEW c \in Checks, Check(c) PROVE SourceTyped'
  BY <1>4, NotifyTyped DEF Check, StartCheck, AnswerCheck, FailCheck, EndCheck
<1>5. ASSUME NEW v \in Versions, Probe(v) PROVE SourceTyped'
  <2>1. ASSUME NEW p \in Answers \cup {"rejected"}, probe[v] # "resolved",
               probe' = [probe EXCEPT ![v] = p],
               UNCHANGED <<searchOnlyBehindVpn, vpnConnected, vpnProbeVersion,
                           startPromise, heard>>
        PROVE  SourceTyped'
    BY <2>1
  <2>2. CASE AnswerProbe(v)
    BY <2>1, <2>2 DEF AnswerProbe, DetectionTyped
  <2>3. CASE FailProbe(v)
    BY <2>1, <2>3 DEF FailProbe
  <2>4. CASE EndProbe(v)
    BY <2>4, NotifyTyped DEF EndProbe
  <2> QED
    BY <1>5, <2>2, <2>3, <2>4 DEF Probe
<1>6. ASSUME NEW q \in Searches, Search(q) PROVE SourceTyped'
  BY <1>6 DEF Search, Begin, Resume, End
<1>7. CASE UNCHANGED vars
  BY <1>7 DEF vars
<1> QED
  BY <1>1, <1>2, <1>3, <1>4, <1>5, <1>6, <1>7 DEF Next

LEMMA SearchesStep == TypeOK /\ [Next]_vars => SearchesTyped'
<1> SUFFICES ASSUME TypeOK, [Next]_vars PROVE SearchesTyped'
    OBVIOUS
<1> USE DEF TypeOK, SearchesTyped, searching
<1>1. CASE ConnectionChanges \/ UpdateConfig \/ Reload
  BY <1>1 DEF ConnectionChanges, UpdateConfig, Reload
<1>2. ASSUME NEW c \in Checks, Check(c) PROVE SearchesTyped'
  BY <1>2 DEF Check, StartCheck, AnswerCheck, FailCheck, EndCheck
<1>3. ASSUME NEW v \in Versions, Probe(v) PROVE SearchesTyped'
  BY <1>3 DEF Probe, AnswerProbe, FailProbe, EndProbe
<1>4. ASSUME NEW q \in Searches, Search(q) PROVE SearchesTyped'
  <2>1. ASSUME NEW kind \in Kinds, Begin(q, kind) PROVE SearchesTyped'
    <3>1. startPromise \in Versions
      BY ProbesAssumption DEF SourceTyped, Versions
    <3>2. [kind |-> kind, awaits |-> startPromise] \in Task
      BY <3>1 DEF Task
    <3> QED
      BY <2>1, <3>2, NoTaskAssumption DEF Begin
  <2>2. CASE Resume(q)
    BY <2>2 DEF Resume
  <2>3. CASE End(q)
    BY <2>3 DEF End
  <2> QED
    BY <1>4, <2>1, <2>2, <2>3 DEF Search
<1>5. CASE UNCHANGED vars
  BY <1>5 DEF vars
<1> QED
  BY <1>1, <1>2, <1>3, <1>4, <1>5 DEF Next

(* Every variable of VpnGate keeps its type, for any number of checks,     *)
(* searches and restarts, and the interval runs exactly while the check is *)
(* enabled.                                                                *)
THEOREM GateTypeCorrect == Spec => []TypeOK
<1>1. TypeOK /\ [Next]_vars => TypeOK'
  BY DetectionStep, SourceStep, SearchesStep DEF TypeOK
<1> QED
  BY InitTyped, <1>1, PTL DEF Spec
--------------------------------------------------------------------------------
LEMMA InitHeard == Init => StartHeard
<1> SUFFICES ASSUME Init, searchOnlyBehindVpn
             PROVE  /\ startPromise = vpnProbeVersion /\ vpnProbeVersion # 0
                    /\ probe[startPromise] # "resolved"
    BY DEF StartHeard
<1>1. vpnProbeVersion = 1 /\ startPromise = 1
  BY DEF Init
<1>2. 1 \in Versions
  BY ProbesAssumption DEF Versions
<1> QED
  BY <1>1, <1>2 DEF Init

LEMMA StartHeardStep == TypeOK /\ StartHeard /\ [Next]_vars => StartHeard'
<1> SUFFICES ASSUME TypeOK, StartHeard, [Next]_vars PROVE StartHeard'
    OBVIOUS
<1> USE DEF StartHeard, source
<1>1. CASE ConnectionChanges
  BY <1>1 DEF ConnectionChanges
<1>2. CASE UpdateConfig
  BY <1>2 DEF UpdateConfig
<1>3. CASE Reload
  <2> SUFFICES ASSUME searchOnlyBehindVpn'
               PROVE  /\ startPromise' = vpnProbeVersion' /\ vpnProbeVersion' # 0
                      /\ probe'[startPromise'] # "resolved"
      OBVIOUS
  <2>1. /\ vpnProbeVersion' = vpnProbeVersion + 1 /\ vpnProbeVersion' \in Versions
        /\ probe' = [probe EXCEPT ![vpnProbeVersion'] = "asking"]
        /\ startPromise' = vpnProbeVersion'
    BY <1>3, ProbesAssumption DEF Reload, NewPromise, TypeOK, SourceTyped, Versions
  <2> QED
    BY <2>1 DEF TypeOK, SourceTyped, Versions
<1>4. ASSUME NEW c \in Checks, Check(c) PROVE StartHeard'
  BY <1>4 DEF Check, StartCheck, AnswerCheck, FailCheck, EndCheck, Notify
<1>5. ASSUME NEW v \in Versions, Probe(v) PROVE StartHeard'
  <2>1. CASE AnswerProbe(v) \/ FailProbe(v)
    BY <2>1 DEF AnswerProbe, FailProbe, TypeOK, SourceTyped, DetectionTyped, Answers
  <2>2. CASE EndProbe(v)
    BY <2>2 DEF EndProbe, Notify, TypeOK, SourceTyped
  <2> QED
    BY <1>5, <2>1, <2>2 DEF Probe
<1>6. ASSUME NEW q \in Searches, Search(q) PROVE StartHeard'
  BY <1>6 DEF Search, Begin, Resume, End
<1>7. CASE UNCHANGED vars
  BY <1>7 DEF vars
<1> QED
  BY <1>1, <1>2, <1>3, <1>4, <1>5, <1>6, <1>7 DEF Next

(* A search resumes only on a resolved promise.                            *)
LEMMA PassesResolved ==
    ASSUME TypeOK, [Next]_vars, NEW q \in Searches, Passes(q)
    PROVE  probe[task[q].awaits] = "resolved"
<1> USE DEF Passes, TypeOK, SearchesTyped, searching
<1>1. ASSUME NEW p \in Searches, Search(p) PROVE probe[task[q].awaits] = "resolved"
  BY <1>1 DEF Search, Begin, Resume, End
<1>2. pc' # pc
  OBVIOUS
<1>3. \E p \in Searches : Search(p)
  BY <1>2 DEF Next, vars, ConnectionChanges, UpdateConfig, Reload, Check, StartCheck,
              AnswerCheck, FailCheck, EndCheck, Probe, AnswerProbe, FailProbe, EndProbe
<1> QED
  BY <1>1, <1>3

(* Behind the VPN, a search that awaited the promise of the current start  *)
(* of SourceService goes ahead only on an answer received since then, for  *)
(* any number of checks, searches and restarts.                            *)
THEOREM NoneBlind == Spec => NoBlindSearch
<1>1. TypeOK /\ StartHeard /\ [Next]_vars =>
         [\A q \in Searches :
             Passes(q) /\ searchOnlyBehindVpn /\ task[q].awaits = startPromise
                => heard]_vars
  BY PassesResolved DEF StartHeard
<1>2. Spec => [](TypeOK /\ StartHeard)
  BY GateTypeCorrect, InitHeard, StartHeardStep, PTL DEF Spec
<1> QED
  BY <1>1, <1>2, PTL DEF Spec, NoBlindSearch
================================================================================
