---- MODULE Monitoring ----
(***************************************************************************)
(* The monitoring contract: calls and errors that reporters count per      *)
(* operation, alerts with a time between two of them, the health that      *)
(* alerts and the admin set, and the newest snapshots of the totals in a   *)
(* ring. Time is the block number; 0 is the time of what never happened.   *)
(*                                                                         *)
(* With it, the registry of deployed code: versions of named contracts,    *)
(* given in order or by the caller, each with the hash of its code.        *)
(***************************************************************************)
EXTENDS BlockClock, SequencesExt, FiniteSetsExt

CONSTANTS
    MonitoringAdmin, MonitorAccounts,  \* the first admin, and all callers
    MonitoredOperations, Cooldown, RingSize, MaxSubscribers,
    ThresholdArgs,                     \* thresholds of alerts, in basis points
    MaxCalls, MaxSnapshots             \* bounds

VARIABLES
    monitorAdmin, reporters, health, monitorPaused,
    calls, errors, operationCalls, operationErrors,
    alertThresholds, alertActive, alertLast, subscribers,
    ring, snapshotCount, healthContracts

callVars == <<calls, errors, operationCalls, operationErrors>>
alertVars == <<alertThresholds, alertActive, alertLast>>
ringVars == <<ring, snapshotCount>>
watcherVars == <<subscribers, healthContracts, reporters, monitorAdmin>>
monitoringVars == <<callVars, alertVars, ringVars, watcherVars, health, monitorPaused>>

ASSUME MonitoringConstants ==
    /\ MonitoringAdmin \in MonitorAccounts
    /\ Cooldown \in Nat /\ RingSize \in Nat \ {0} /\ MaxSubscribers \in Nat /\ ThresholdArgs \subseteq Nat
    /\ MaxCalls \in Nat /\ MaxSnapshots \in Nat

AlertTypes == {"HighErrorRate", "SystemDegraded"}
HealthStatuses == {"Healthy", "Degraded", "Critical", "Paused"}
Bips == 10000
DefaultThreshold == 1000
MetricsSnapshot == [id : Nat, calls : Nat, errors : Nat]

MonitoringInit ==
    /\ monitorAdmin = MonitoringAdmin /\ reporters = {} /\ health = "Healthy" /\ monitorPaused = FALSE
    /\ calls = 0 /\ errors = 0
    /\ operationCalls = [o \in MonitoredOperations |-> 0] /\ operationErrors = [o \in MonitoredOperations |-> 0]
    /\ alertThresholds = [t \in AlertTypes |-> DefaultThreshold]
    /\ alertActive = [t \in AlertTypes |-> FALSE] /\ alertLast = [t \in AlertTypes |-> 0]
    /\ subscribers = << >> /\ ring = << >> /\ snapshotCount = 0 /\ healthContracts = {}

IsReporter(caller) == caller = monitorAdmin \/ caller \in reporters

ErrorRate(e, c) == IF c = 0 THEN 0 ELSE (e * Bips) \div c
HealthStatus(rate) == IF rate >= 2500 THEN "Critical" ELSE IF rate >= 1000 THEN "Degraded" ELSE "Healthy"

\* What an operation that leads to this rate sets off. The health follows the rate only
\* as an alert is triggered, and only away from Healthy.
HighErrorAlert(rate) ==
    /\ alertActive["HighErrorRate"] /\ rate > alertThresholds["HighErrorRate"]
    /\ block - alertLast["HighErrorRate"] >= Cooldown
DegradedAlert(rate) ==
    /\ alertActive["SystemDegraded"] /\ HealthStatus(rate) # "Healthy"
    /\ block - alertLast["SystemDegraded"] >= Cooldown

TriggerAlerts(rate) ==
    /\ alertLast' = [t \in AlertTypes |->
           IF (IF t = "HighErrorRate" THEN HighErrorAlert(rate) ELSE DegradedAlert(rate)) THEN block ELSE alertLast[t]]
    /\ health' = IF DegradedAlert(rate) /\ health = "Healthy" THEN HealthStatus(rate) ELSE health

RecordOperation(caller, operation, success) ==
    LET failed == IF success THEN 0 ELSE 1 IN
    /\ ~monitorPaused /\ IsReporter(caller)
    /\ operationCalls' = [operationCalls EXCEPT ![operation] = @ + 1]
    /\ operationErrors' = [operationErrors EXCEPT ![operation] = @ + failed]
    /\ calls' = calls + 1 /\ errors' = errors + failed
    /\ TriggerAlerts(ErrorRate(errors + failed, calls + 1))
    /\ UNCHANGED <<alertThresholds, alertActive, ringVars, watcherVars, monitorPaused>>

TakeMetricsSnapshot(caller) ==
    LET slot == snapshotCount % RingSize IN
    /\ ~monitorPaused /\ IsReporter(caller)
    /\ ring' = [s \in DOMAIN ring \cup {slot} |-> IF s = slot THEN [id |-> snapshotCount, calls |-> calls, errors |-> errors] ELSE ring[s]]
    /\ snapshotCount' = snapshotCount + 1
    /\ UNCHANGED <<callVars, alertVars, watcherVars, health, monitorPaused>>

HealthCheck ==
    [status |-> IF monitorPaused THEN "Paused" ELSE HealthStatus(ErrorRate(errors, calls)), accepting |-> ~monitorPaused]
PerformanceMetrics(operation) ==
    [calls |-> operationCalls[operation], errors |-> operationErrors[operation],
     rate |-> ErrorRate(operationErrors[operation], operationCalls[operation])]

----
\* The admin

SetHealthStatus(caller, status) ==
    /\ caller = monitorAdmin
    /\ health' = status
    /\ UNCHANGED <<callVars, alertVars, ringVars, watcherVars, monitorPaused>>

SetAlertConfig(caller, type, threshold, active) ==
    /\ caller = monitorAdmin /\ threshold <= Bips
    /\ alertThresholds' = [alertThresholds EXCEPT ![type] = threshold]
    /\ alertActive' = [alertActive EXCEPT ![type] = active]
    /\ UNCHANGED <<callVars, alertLast, ringVars, watcherVars, health, monitorPaused>>

PauseMonitoring(caller) ==
    /\ caller = monitorAdmin /\ ~monitorPaused
    /\ monitorPaused' = TRUE /\ health' = "Paused"
    /\ UNCHANGED <<callVars, alertVars, ringVars, watcherVars>>

\* Healthy again, whatever the rate of errors and the health before the pause.
ResumeMonitoring(caller) ==
    /\ caller = monitorAdmin /\ monitorPaused
    /\ monitorPaused' = FALSE /\ health' = "Healthy"
    /\ UNCHANGED <<callVars, alertVars, ringVars, watcherVars>>

\* The limit is checked first, so that a full list refuses even its members.
SubscribeAlerts(caller, account) ==
    /\ caller = monitorAdmin /\ Len(subscribers) < MaxSubscribers
    /\ account \notin Range(subscribers)
    /\ subscribers' = Append(subscribers, account)
    /\ UNCHANGED <<callVars, alertVars, ringVars, healthContracts, reporters, monitorAdmin, health, monitorPaused>>

\* The last one takes the place of the one that leaves.
UnsubscribeAlerts(caller, account) ==
    /\ caller = monitorAdmin
    /\ \E i \in DOMAIN subscribers :
          /\ subscribers[i] = account /\ \A j \in 1..(i - 1) : subscribers[j] # account
          /\ subscribers' = Front([subscribers EXCEPT ![i] = Last(subscribers)])
    /\ UNCHANGED <<callVars, alertVars, ringVars, healthContracts, reporters, monitorAdmin, health, monitorPaused>>

SetReporter(caller, account, may) ==
    /\ caller = monitorAdmin
    /\ reporters' = IF may THEN reporters \cup {account} ELSE reporters \ {account}
    /\ UNCHANGED <<callVars, alertVars, ringVars, subscribers, healthContracts, monitorAdmin, health, monitorPaused>>

SetHealthContract(caller, account, watched) ==
    /\ caller = monitorAdmin
    /\ healthContracts' = IF watched THEN healthContracts \cup {account} ELSE healthContracts \ {account}
    /\ UNCHANGED <<callVars, alertVars, ringVars, subscribers, reporters, monitorAdmin, health, monitorPaused>>

TransferMonitoringAdmin(caller, account) ==
    /\ caller = monitorAdmin
    /\ monitorAdmin' = account
    /\ UNCHANGED <<callVars, alertVars, ringVars, subscribers, healthContracts, reporters, health, monitorPaused>>

\* Counting, with the settings it reads, and administration, apart.
ReportingNext ==
    \E caller \in MonitorAccounts :
        \/ \E o \in MonitoredOperations, success \in BOOLEAN : calls < MaxCalls /\ RecordOperation(caller, o, success)
        \/ snapshotCount < MaxSnapshots /\ TakeMetricsSnapshot(caller)
        \/ \E t \in AlertTypes, threshold \in ThresholdArgs : SetAlertConfig(caller, t, threshold, TRUE)
        \/ PauseMonitoring(caller) \/ ResumeMonitoring(caller)

WatchersNext ==
    \E caller, account \in MonitorAccounts :
        \/ SubscribeAlerts(caller, account) \/ UnsubscribeAlerts(caller, account)
        \/ \E b \in BOOLEAN : SetReporter(caller, account, b) \/ SetHealthContract(caller, account, b)
        \/ TransferMonitoringAdmin(caller, account)
        \/ \E status \in HealthStatuses : SetHealthStatus(caller, status)

----
\* Properties

MonitoringTypeOK ==
    /\ health \in HealthStatuses /\ reporters \subseteq MonitorAccounts
    /\ HealthCheck.status \in HealthStatuses
    /\ \A s \in DOMAIN ring : s \in 0..(RingSize - 1) /\ ring[s] \in MetricsSnapshot

\* Totals are the sums over the operations, the ring holds exactly the newest snapshots,
\* none newer with fewer calls or errors, and subscribers are listed once and within the limit
\* (record_operation, take_metrics_snapshot, unsubscribe_alerts).
MonitoringBooksAgree ==
    /\ MonitoringTypeOK
    /\ calls = MapThenSumSet(LAMBDA o : PerformanceMetrics(o).calls, MonitoredOperations)
    /\ errors = MapThenSumSet(LAMBDA o : PerformanceMetrics(o).errors, MonitoredOperations)
    /\ \A o \in MonitoredOperations : PerformanceMetrics(o).rate <= Bips
    /\ {ring[s].id : s \in DOMAIN ring} = Max({0, snapshotCount - RingSize}) .. (snapshotCount - 1)
    /\ \A s, t \in DOMAIN ring : ring[s].id <= ring[t].id => ring[s].calls <= ring[t].calls /\ ring[s].errors <= ring[t].errors
    /\ IsInjective(subscribers) /\ Len(subscribers) <= MaxSubscribers

----
\* The version registry

CONSTANTS RegistryAdmin, Publishers, ContractNames, CodeHashes, MaxVersion  \* bound: the last version

VARIABLES deployments, latestVersions, nextVersions, nameIndex

versionVars == <<deployments, latestVersions, nextVersions, nameIndex>>

ASSUME VersionConstants == RegistryAdmin \in Publishers /\ MaxVersion \in Nat

VersionsInit == deployments = << >> /\ latestVersions = << >> /\ nextVersions = << >> /\ nameIndex = << >>

Kept(f, key, value) == [k \in DOMAIN f \cup {key} |-> IF k = key THEN value ELSE f[k]]
Of(f, key, otherwise) == IF key \in DOMAIN f THEN f[key] ELSE otherwise

NextVersion(name) == Of(nextVersions, name, 1)
LatestVersion(name) == Of(latestVersions, name, 0)

Index(name) == nameIndex' = IF name \in DOMAIN latestVersions THEN nameIndex ELSE Append(nameIndex, name)

RegisterDeployment(caller, name, hash) ==
    /\ caller = RegistryAdmin
    /\ <<name, NextVersion(name)>> \notin DOMAIN deployments
    /\ deployments' = Kept(deployments, <<name, NextVersion(name)>>, hash)
    /\ latestVersions' = Kept(latestVersions, name, NextVersion(name))
    /\ nextVersions' = Kept(nextVersions, name, NextVersion(name) + 1)
    /\ Index(name)

\* An older version may be filled in later.
RegisterDeploymentWithVersion(caller, name, version, hash) ==
    /\ caller = RegistryAdmin /\ version >= 1
    /\ <<name, version>> \notin DOMAIN deployments
    /\ deployments' = Kept(deployments, <<name, version>>, hash)
    /\ latestVersions' = IF version > LatestVersion(name) THEN Kept(latestVersions, name, version) ELSE latestVersions
    /\ nextVersions' = IF version >= NextVersion(name) THEN Kept(nextVersions, name, version + 1) ELSE nextVersions
    /\ Index(name)

DeploymentHistory(name) == {v \in 1..LatestVersion(name) : <<name, v>> \in DOMAIN deployments}

VersionsNext ==
    \E caller \in Publishers, name \in ContractNames, hash \in CodeHashes :
        \/ NextVersion(name) <= MaxVersion /\ RegisterDeployment(caller, name, hash)
        \/ \E version \in 0..MaxVersion : RegisterDeploymentWithVersion(caller, name, version, hash)

\* However versions are registered, the next one is free and beyond all that exist, the
\* latest is the largest, the history holds every version, and each name is listed once
\* (register_deployment, register_deployment_with_version, get_deployment_history).
VersionBooksAgree ==
    /\ \A name \in DOMAIN latestVersions :
          /\ <<name, LatestVersion(name)>> \in DOMAIN deployments
          /\ NextVersion(name) = LatestVersion(name) + 1
    /\ \A d \in DOMAIN deployments : d[2] \in DeploymentHistory(d[1])
    /\ {nameIndex[i] : i \in DOMAIN nameIndex} = DOMAIN latestVersions
    /\ Len(nameIndex) = Cardinality(DOMAIN latestVersions)
====
