-------------------------------- MODULE VpnGate --------------------------------
(***************************************************************************)
(* VpnDetectionService asks every few seconds whether the connection goes  *)
(* through the VPN and tells its listeners when the answer changes;        *)
(* SourceService asks once more whenever it (re)starts, listens to those   *)
(* events, and lets its searches through while vpnConnected holds.         *)
(* A request to a provider takes its time: the provider sees the           *)
(* connection at one moment and the answer is used at a later one.         *)
(***************************************************************************)
EXTENDS Naturals

CONSTANTS
    Checks,     \* runs of checkVpnStatus that can be in flight together
    Searches,   \* searches that can be in flight together
    MaxProbes,  \* bound of the model on vpnProbeVersion
    NoTask      \* the search is not running

ASSUME ProbesAssumption == MaxProbes \in Nat \ {0}

Versions == 0 .. MaxProbes      \* 0: the promise that is resolved from the start
Kinds == {"search", "files", "stats"}
Task == [kind : Kinds, awaits : Versions]

ASSUME NoTaskAssumption == NoTask \notin Task

VARIABLES
    vpn,                \* "up" or "down": what a provider sees
    disableVpnCheck,    \* DISABLE_VPN_CHECK
    disabled,           \* VpnDetectionService.disabled
    interval,           \* monitoringInterval: "none", "running" or "cleared"
    lastVpnStatus,      \* "unknown", "up" or "down"
    check,              \* check[c]: what the run c of checkVpnStatus waits for
    searchOnlyBehindVpn,\* while it holds, the two listeners are registered
    vpnConnected,
    probe,              \* probe[v]: the promise of refreshVpnState, by version
    vpnProbeVersion,
    startPromise,       \* the version whose promise the searches await
    pc, task,           \* where each search is, its kind and what it awaits
    heard               \* history: vpnConnected is from an answer since the (re)start

detection == <<disabled, interval, lastVpnStatus, check>>
source == <<searchOnlyBehindVpn, vpnConnected, probe, vpnProbeVersion, startPromise, heard>>
searching == <<pc, task>>
vars == <<vpn, disableVpnCheck, detection, source, searching>>

Answers == {"up", "down"}
--------------------------------------------------------------------------------
Init ==
    /\ vpn \in Answers
    /\ disableVpnCheck \in BOOLEAN
    /\ disabled = disableVpnCheck
    /\ interval = IF disabled THEN "none" ELSE "running"
    /\ lastVpnStatus = IF disabled THEN "up" ELSE "unknown"
    /\ check = [c \in Checks |-> "idle"]
    /\ searchOnlyBehindVpn = ~disableVpnCheck
    /\ vpnConnected = disableVpnCheck
    /\ vpnProbeVersion = IF disableVpnCheck THEN 0 ELSE 1
    /\ startPromise = vpnProbeVersion
    /\ probe = [v \in Versions |-> IF v = 0 THEN "resolved"
                                   ELSE IF v = vpnProbeVersion THEN "asking" ELSE "none"]
    /\ pc = [q \in Searches |-> "idle"]
    /\ task = [q \in Searches |-> NoTask]
    /\ heard = FALSE

(* The tunnel comes up or goes down.                                       *)
ConnectionChanges ==
    /\ vpn' \in Answers \ {vpn}
    /\ UNCHANGED <<disableVpnCheck, detection, source, searching>>
--------------------------------------------------------------------------------
(* checkVpnStatus.                                                         *)
StartCheck(c) ==
    /\ interval = "running"
    /\ check[c] = "idle"
    /\ check' = [check EXCEPT ![c] = "asking"]
    /\ UNCHANGED <<vpn, disableVpnCheck, disabled, interval, lastVpnStatus,
                   source, searching>>

AnswerCheck(c) ==
    /\ check[c] = "asking"
    /\ check' = [check EXCEPT ![c] = vpn]
    /\ UNCHANGED <<vpn, disableVpnCheck, disabled, interval, lastVpnStatus,
                   source, searching>>

FailCheck(c) ==
    /\ check[c] = "asking"
    /\ check' = [check EXCEPT ![c] = "idle"]
    /\ UNCHANGED <<vpn, disableVpnCheck, disabled, interval, lastVpnStatus,
                   source, searching>>

(* The listeners of SourceService.                                         *)
Notify(answer) ==
    \/ /\ searchOnlyBehindVpn
       /\ vpnConnected' = (answer = "up")
       /\ heard' = TRUE
    \/ /\ ~searchOnlyBehindVpn
       /\ UNCHANGED <<vpnConnected, heard>>

EndCheck(c) ==
    /\ check[c] \in Answers
    /\ \/ /\ check[c] # lastVpnStatus
          /\ Notify(check[c])
          /\ lastVpnStatus' = check[c]
       \/ /\ check[c] = lastVpnStatus
          /\ UNCHANGED <<lastVpnStatus, vpnConnected, heard>>
    /\ check' = [check EXCEPT ![c] = "idle"]
    /\ UNCHANGED <<vpn, disableVpnCheck, disabled, interval, searchOnlyBehindVpn,
                   probe, vpnProbeVersion, startPromise, searching>>

(* What clearInterval leaves in monitoringInterval.                        *)
IntervalKept == "cleared"                                       \* mutant
IntervalCleared == "none"

(* updateConfigs of DISABLE_VPN_CHECK reloads the service VPN, to which    *)
(* the variable belongs, and no other.                                     *)
UpdateConfig ==
    /\ disableVpnCheck' = ~disableVpnCheck
    /\ disabled' = disableVpnCheck'
    /\ \/ /\ disabled'
          /\ interval' = IntervalCleared
          /\ lastVpnStatus' = "up"
       \/ /\ ~disabled'
          /\ interval' = IF interval = "none" THEN "running" ELSE interval
          /\ UNCHANGED lastVpnStatus
    /\ UNCHANGED <<vpn, check, source, searching>>
--------------------------------------------------------------------------------
(* refreshVpnState.                                                        *)
AnswerProbe(v) ==
    /\ probe[v] = "asking"
    /\ probe' = [probe EXCEPT ![v] = vpn]
    /\ UNCHANGED <<vpn, disableVpnCheck, detection, searchOnlyBehindVpn, vpnConnected,
                   vpnProbeVersion, startPromise, heard, searching>>

FailProbe(v) ==
    /\ probe[v] = "asking"
    /\ probe' = [probe EXCEPT ![v] = "rejected"]
    /\ UNCHANGED <<vpn, disableVpnCheck, detection, searchOnlyBehindVpn, vpnConnected,
                   vpnProbeVersion, startPromise, heard, searching>>

EndProbe(v) ==
    /\ probe[v] \in Answers
    /\ \/ /\ v = vpnProbeVersion
          /\ Notify(probe[v])
       \/ /\ v # vpnProbeVersion
          /\ UNCHANGED <<vpnConnected, heard>>
    /\ probe' = [probe EXCEPT ![v] = "resolved"]
    /\ UNCHANGED <<vpn, disableVpnCheck, detection, searchOnlyBehindVpn,
                   vpnProbeVersion, startPromise, searching>>

(* The promise that a reload leaves to the searches, when it has a probe.  *)
PromiseKept(v) == startPromise                                  \* mutant
NewPromise(v) == v

(* on calls a new listener at once when the last status is known.          *)
Registered ==
    vpnConnected' = IF lastVpnStatus = "unknown" THEN vpnConnected
                    ELSE lastVpnStatus = "up"

(* reload of SourceService, which an administrator restarts.               *)
Reload ==
    /\ searchOnlyBehindVpn' = ~disableVpnCheck
    /\ heard' = FALSE
    /\ \/ /\ ~searchOnlyBehindVpn'
          /\ vpnConnected' = TRUE
          /\ startPromise' = 0
          /\ UNCHANGED <<probe, vpnProbeVersion>>
       \/ /\ searchOnlyBehindVpn'
          /\ vpnProbeVersion < MaxProbes
          /\ vpnProbeVersion' = vpnProbeVersion + 1
          /\ probe' = [probe EXCEPT ![vpnProbeVersion'] = "asking"]
          /\ startPromise' = NewPromise(vpnProbeVersion')
          /\ Registered
    /\ UNCHANGED <<vpn, disableVpnCheck, detection, searching>>
--------------------------------------------------------------------------------
(* A search of a movie, of missing files or of statistics, up to its first *)
(* await: the searches of movies wait only behind the VPN.  (The scheduled *)
(* search of movies asks twice; between the two it only reads a movie.)    *)
Begin(q, kind) ==
    /\ pc[q] = "idle"
    /\ \/ /\ kind = "search" /\ ~searchOnlyBehindVpn
          /\ pc' = [pc EXCEPT ![q] = "searching"]
          /\ UNCHANGED task
       \/ /\ kind = "search" => searchOnlyBehindVpn
          /\ pc' = [pc EXCEPT ![q] = "waiting"]
          /\ task' = [task EXCEPT ![q] = [kind |-> kind, awaits |-> startPromise]]
    /\ UNCHANGED <<vpn, disableVpnCheck, detection, source>>

GateOpen(kind) == vpnConnected \/ (kind = "files" /\ ~searchOnlyBehindVpn)

(* The search goes on when its promise is resolved, and throws when it is  *)
(* rejected; it sleeps and returns when the gate is closed.                *)
Resume(q) ==
    /\ pc[q] = "waiting"
    /\ LET k == task[q]
           passes == probe[k.awaits] = "resolved" /\ GateOpen(k.kind)
       IN  /\ probe[k.awaits] \in {"resolved", "rejected"}
           /\ pc' = [pc EXCEPT ![q] = IF passes THEN "searching" ELSE "idle"]
    /\ task' = [task EXCEPT ![q] = NoTask]
    /\ UNCHANGED <<vpn, disableVpnCheck, detection, source>>

End(q) ==
    /\ pc[q] = "searching"
    /\ pc' = [pc EXCEPT ![q] = "idle"]
    /\ UNCHANGED <<vpn, disableVpnCheck, detection, source, task>>

Check(c) == StartCheck(c) \/ AnswerCheck(c) \/ FailCheck(c) \/ EndCheck(c)
Probe(v) == AnswerProbe(v) \/ FailProbe(v) \/ EndProbe(v)
Search(q) == (\E kind \in Kinds : Begin(q, kind)) \/ Resume(q) \/ End(q)

Next ==
    \/ ConnectionChanges \/ UpdateConfig \/ Reload
    \/ \E c \in Checks : Check(c)
    \/ \E v \in Versions : Probe(v)
    \/ \E q \in Searches : Search(q)

Spec == Init /\ [][Next]_vars

(* The interval fires, what a provider has answered is processed, and not  *)
(* every request fails.                                                    *)
Fairness ==
    /\ \A c \in Checks :
          WF_vars(StartCheck(c)) /\ SF_vars(AnswerCheck(c)) /\ WF_vars(EndCheck(c))
    /\ \A v \in Versions : WF_vars(AnswerProbe(v) \/ FailProbe(v)) /\ WF_vars(EndProbe(v))
FairSpec == Spec /\ Fairness
--------------------------------------------------------------------------------
DetectionTyped ==
    /\ vpn \in Answers
    /\ disableVpnCheck \in BOOLEAN
    /\ disabled = disableVpnCheck
    /\ interval = IF disabled THEN "none" ELSE "running"
    /\ lastVpnStatus \in Answers \cup {"unknown"}
    /\ check \in [Checks -> Answers \cup {"idle", "asking"}]

SourceTyped ==
    /\ searchOnlyBehindVpn \in BOOLEAN
    /\ vpnConnected \in BOOLEAN
    /\ probe \in [Versions -> Answers \cup {"none", "asking", "resolved", "rejected"}]
    /\ probe[0] = "resolved"
    /\ vpnProbeVersion \in Versions
    /\ startPromise \in {0, vpnProbeVersion}
    /\ heard \in BOOLEAN

SearchesTyped ==
    /\ pc \in [Searches -> {"idle", "waiting", "searching"}]
    /\ task \in [Searches -> Task \cup {NoTask}]
    /\ \A q \in Searches : pc[q] = "waiting" <=> task[q] # NoTask

(* Every variable has its type, and the interval runs exactly while the    *)
(* check is enabled.                                                       *)
TypeOK == DetectionTyped /\ SourceTyped /\ SearchesTyped

Passes(q) == pc[q] = "waiting" /\ pc'[q] = "searching"

(* Behind the VPN a search goes ahead only on an answer that was received  *)
(* since SourceService last (re)started, and never on the status that      *)
(* VpnDetectionService assumed while it was disabled (it sets              *)
(* lastVpnStatus to true then): unless the search began before a reload    *)
(* and still awaits the promise of the old start.                          *)
NoBlindSearch ==
    [][\A q \in Searches :
          Passes(q) /\ searchOnlyBehindVpn /\ task[q].awaits = startPromise
             => heard]_vars

(* Whatever checks overlap, fail or end in the wrong order, and however    *)
(* often the check was disabled and enabled: once the connection stays as  *)
(* it is and the check stays enabled, lastVpnStatus gets there and stays.  *)
MonitorConverges ==
    \A answer \in Answers :
       <>[](vpn = answer /\ ~disabled) => <>[](lastVpnStatus = answer)
================================================================================
