------------------------------- MODULE Rules --------------------------------
(***************************************************************************)
(* The deterministic rule engine on a snapshot.  Reasons and summaries are *)
(* left out; rule IDs are distinct, so that the sorted matches are a set.  *)
(***************************************************************************)
EXTENDS Snapshot

CONSTANTS
    IgnoredNamespaces,            \* rules.ignoredNamespaces
    CrashLoopRestartThreshold,
    CrashLoopCriticalThreshold,
    MinimumAge,                   \* age from which a condition counts
    EventQuietPeriod              \* age from which an Event is quiet

ASSUME RulesAssumption ==
    /\ CrashLoopRestartThreshold \in Nat \ {0}
    /\ CrashLoopCriticalThreshold \in Nat /\ CrashLoopCriticalThreshold >= CrashLoopRestartThreshold
    /\ MinimumAge \in Nat \ {0} /\ EventQuietPeriod \in Nat \ {0}

severityRank == [critical |-> 3, warning |-> 2, info |-> 1]

Match(id, severity) == {[rule |-> id, severity |-> severity]}

\* The age of the first of the chosen conditions that has one, or NoTime.
FirstAge(conditions, chosen) ==
    LET dated == {i \in chosen : conditions[i].age # NoTime}
    IN  IF dated = {} THEN NoTime ELSE conditions[Min(dated)].age

conditionTransition(conditions, type, status, reason) ==
    FirstAge(conditions, {i \in DOMAIN conditions : /\ conditions[i].type = type /\ conditions[i].status = status
                                                    /\ reason \in {"", conditions[i].reason}})

unavailableTransition(conditions) ==
    FirstAge(conditions, {i \in DOMAIN conditions : /\ conditions[i].status = "False"
                                                    /\ conditions[i].type \in {"Available", "Ready", "Progressing"}})

\* Mutant: the condition must be older than the age from which it counts.
MutOldEnough(age) == age # NoTime /\ age > MinimumAge

OldEnough(age) == age # NoTime /\ age >= MinimumAge

-----------------------------------------------------------------------------

podCrashLoop(s) ==
    LET looping == {c \in Range(s.containers) :
                       /\ c.state = "waiting" /\ c.reason = "CrashLoopBackOff"
                       /\ c.restarts >= CrashLoopRestartThreshold}
        critical == \E c \in looping : c.restarts >= CrashLoopCriticalThreshold
    IN  IF /\ s.source.kind = "Pod" /\ looping # {}
           /\ OldEnough(conditionTransition(s.conditions, "Ready", "False", ""))
          THEN Match("pod-crash-loop", IF critical THEN "critical" ELSE "warning") ELSE {}

podUnschedulable(s) ==
    IF /\ s.source.kind = "Pod"
       /\ OldEnough(conditionTransition(s.conditions, "PodScheduled", "False", "Unschedulable"))
      THEN Match("pod-unschedulable", "warning") ELSE {}

imagePullFailure(s) ==
    IF /\ s.source.kind = "Pod"
       /\ OldEnough(conditionTransition(s.conditions, "Ready", "False", ""))
       /\ \E c \in Range(s.containers) :
              c.state = "waiting" /\ c.reason \in {"ErrImagePull", "ImagePullBackOff"}
      THEN Match("image-pull-failure", "warning") ELSE {}

isWorkloadKind(kind) == kind \in {"Deployment", "StatefulSet", "DaemonSet"}

workloadUnavailable(s) ==
    IF /\ s.workload # None /\ isWorkloadKind(s.source.kind)
       /\ s.workload.desired > 0 /\ s.workload.available < s.workload.desired
       /\ s.workload.unavailable > 0
       /\ OldEnough(unavailableTransition(s.conditions))
      THEN Match("workload-unavailable", IF s.workload.available = 0 THEN "critical" ELSE "warning") ELSE {}

\* The condition, or as many failures as the backoff limit allows, at least one.
failedJob(s) ==
    IF /\ s.source.kind = "Job" /\ s.job # None
       /\ \/ \E c \in Range(s.conditions) : c.type = "Failed" /\ c.status = "True"
          \/ s.job.failed >= (IF s.job.backoffLimit < 1 THEN 1 ELSE s.job.backoffLimit)
      THEN Match("job-failed", "critical") ELSE {}

eventIsQuiet(s) == s.event.lastObserved # NoTime /\ s.event.lastObserved >= EventQuietPeriod

semanticWarningReasons ==
    {"FailedAttachVolume", "FailedCreate", "FailedDelete", "FailedMount", "FailedUpdate", "Unhealthy"}

warningEvent(s) ==
    IF /\ s.source.kind = "Event" /\ s.event # None
       /\ s.event.type = "Warning" /\ ~eventIsQuiet(s)
       /\ s.event.reason \in semanticWarningReasons
      THEN Match("warning-event", "warning") ELSE {}

ignoredReason(s) ==
    \/ s.source.namespace \in IgnoredNamespaces
    \/ \E l \in s.labels, i \in IgnoredLabels : i.key = l.key /\ i.value \in {None, l.value}

-----------------------------------------------------------------------------

highestSeverity(matches) ==
    (CHOOSE m \in matches : \A n \in matches : severityRank[m.severity] >= severityRank[n.severity]).severity

decisionFor(matches) ==
    [severity |-> highestSeverity(matches),
     action |-> IF highestSeverity(matches) = "critical" THEN "page" ELSE "notify",
     reasons |-> {m.rule : m \in matches}, rules |-> {m.rule : m \in matches}]

Result(disposition, matches, decision, questions) ==
    [disposition |-> disposition, rules |-> {m.rule : m \in matches},
     decision |-> decision, questionSet |-> questions]

ignoredDecision ==
    [severity |-> "info", action |-> "suppress", reasons |-> {"ignored"}, rules |-> {"ignored"}]

RuleIDs ==
    {"pod-crash-loop", "pod-unschedulable", "image-pull-failure", "job-failed", "workload-unavailable",
     "warning-event", "ignored", "recovered"}

\* The decisions of the rules.
Decision ==
    [severity : {"critical", "warning", "info"}, action : {"page", "notify", "record", "suppress"},
     reasons : SUBSET RuleIDs, rules : SUBSET RuleIDs]

ASSUME NilIsNoDecision == None \notin Decision

\* The status of the incident as it was read, None if there is none.
recovered(previous) == previous = "open"

Matches(s) ==
    podCrashLoop(s) \cup podUnschedulable(s) \cup imagePullFailure(s)
        \cup failedJob(s) \cup workloadUnavailable(s) \cup warningEvent(s)

Evaluate(s, previous) ==
    LET matches == Matches(s)
    IN  CASE ignoredReason(s) ->
               Result("suppress", Match("ignored", "info"), ignoredDecision, None)
          [] ~ignoredReason(s) /\ matches = {} /\ recovered(previous) ->
               Result("terminal", Match("recovered", "info"),
                      [severity |-> "info", action |-> "record", reasons |-> {"recovered"}, rules |-> {"recovered"}], None)
          [] ~ignoredReason(s) /\ matches = {} /\ ~recovered(previous) ->
               Result("no_match", {}, None, None)
          [] ~ignoredReason(s) /\ matches # {} ->
               IF {m.rule : m \in matches} = {"warning-event"}
                 THEN Result("semantic", matches, None, "operational-triage-v1")
                 ELSE Result("terminal", matches, decisionFor(matches), None)

=============================================================================
