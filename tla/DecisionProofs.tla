--------------------------- MODULE DecisionProofs ---------------------------
(***************************************************************************)
(* Proofs about what Evaluation decides: for any objects that the API can  *)
(* return, any answers and any configuration, from the object's own status *)
(* through normalizer, rules and composer to the decision.                 *)
(***************************************************************************)
EXTENDS EvaluationProofs, OperatorProofs

-----------------------------------------------------------------------------
(* From the object to the rules.                                           *)

\* The conditions that the normalizer reads: entries that are maps.
Readable(o) == {i \in DOMAIN o.conditions : o.conditions[i].status # "malformed"}

\* Only a custom object has entries that are none.
Wellformed(o) == \A i \in DOMAIN o.conditions : o.conditions[i].status = "malformed" => o.kind = "Custom"

\* What a snapshot has of its object, kind by kind.
LEMMA SnapshotParts ==
    ASSUME NEW o, Supported(o), Wellformed(o)
    PROVE  LET s == snapshot(o)
           IN  /\ s.source = source(o) /\ s.labels = labels(o.labels)
               /\ s.conditions = sortConditions(o.conditions, Readable(o))
               /\ s.containers = IF o.kind = "Pod" THEN PodContainers(o.containers) ELSE <<>>
               /\ s.workload = IF isWorkloadKind(o.kind) THEN s.workload ELSE None
               /\ o.kind = "Deployment" => s.workload = normalizeDeployment(o).workload
               /\ s.job = IF o.kind = "Job" THEN normalizeJob(o).job ELSE None
               /\ s.event = IF o.kind = "Event" THEN normalizeEvent(o).event ELSE None
<1> DEFINE D == DOMAIN o.conditions
<1>1. ASSUME NEW C PROVE Common(o, C) = [source |-> source(o), labels |-> labels(o.labels),
                                         conditions |-> sortConditions(o.conditions, C),
                                         containers |-> <<>>, workload |-> None, job |-> None, event |-> None]
  BY DEF Common
<1>2. o.kind # "Custom" => Readable(o) = D
  BY DEF Wellformed, Readable
<1>3. CASE o.kind = "Pod"
  <2>1. snapshot(o) = [Common(o, D) EXCEPT !.containers = PodContainers(o.containers)]
    BY <1>3 DEF snapshot, normalizePod, PodContainers
  <2> QED
    BY <1>1, <1>2, <1>3, <2>1 DEF isWorkloadKind
<1>4. CASE o.kind = "Deployment"
  <2>1. snapshot(o) = normalizeDeployment(o) /\ \E w : normalizeDeployment(o) = [Common(o, D) EXCEPT !.workload = w]
    BY <1>4, Zenon DEF snapshot, normalizeDeployment
  <2> QED
    BY <1>1, <1>2, <1>4, <2>1 DEF isWorkloadKind
<1>5. CASE o.kind = "StatefulSet"
  <2>1. \E w : snapshot(o) = [Common(o, D) EXCEPT !.workload = w]
    BY <1>5 DEF snapshot, normalizeStatefulSet
  <2> QED
    BY <1>1, <1>2, <1>5, <2>1 DEF isWorkloadKind
<1>6. CASE o.kind = "DaemonSet"
  <2>1. \E w : snapshot(o) = [Common(o, D) EXCEPT !.workload = w]
    BY <1>6 DEF snapshot, normalizeDaemonSet
  <2> QED
    BY <1>1, <1>2, <1>6, <2>1 DEF isWorkloadKind
<1>7. CASE o.kind = "Job"
  <2>1. snapshot(o) = normalizeJob(o) /\ \E w : normalizeJob(o) = [Common(o, D) EXCEPT !.job = w]
    BY <1>7 DEF snapshot, normalizeJob
  <2> QED
    BY <1>1, <1>2, <1>7, <2>1 DEF isWorkloadKind
<1>8. CASE o.kind = "Event"
  <2>1. snapshot(o) = normalizeEvent(o) /\ \E w : normalizeEvent(o) = [Common(o, D) EXCEPT !.event = w]
    BY <1>8, Zenon DEF snapshot, normalizeEvent
  <2> QED
    BY <1>1, <1>2, <1>8, <2>1 DEF isWorkloadKind
<1>9. CASE o.kind = "Custom"
  <2>1. snapshot(o) = Common(o, Readable(o))
    BY <1>9 DEF snapshot, normalizeUnstructured, Readable
  <2> QED
    BY <1>1, <1>9, <2>1 DEF isWorkloadKind
<1> QED
  BY <1>3, <1>4, <1>5, <1>6, <1>7, <1>8, <1>9, Zenon DEF Supported

\* What the rules look at.
LEMMA EvaluateDepends ==
    ASSUME NEW s, NEW t, NEW previous,
           s.source.kind = t.source.kind, s.source.namespace = t.source.namespace, s.labels = t.labels,
           s.conditions = t.conditions, s.containers = t.containers, s.workload = t.workload, s.job = t.job,
           s.event = None <=> t.event = None,
           s.event # None => /\ s.event.type = t.event.type /\ s.event.reason = t.event.reason
                             /\ s.event.lastObserved = t.event.lastObserved
    PROVE  Evaluate(s, previous) = Evaluate(t, previous)
<1>1. podCrashLoop(s) = podCrashLoop(t)
  BY DEF podCrashLoop
<1>2. podUnschedulable(s) = podUnschedulable(t) /\ imagePullFailure(s) = imagePullFailure(t)
  BY DEF podUnschedulable, imagePullFailure
<1>3. workloadUnavailable(s) = workloadUnavailable(t) /\ failedJob(s) = failedJob(t)
  BY DEF workloadUnavailable, failedJob
<1>4. warningEvent(s) = warningEvent(t)
  BY DEF warningEvent, eventIsQuiet
<1>5. Matches(s) = Matches(t)
  BY <1>1, <1>2, <1>3, <1>4 DEF Matches
<1>6. ignoredReason(s) <=> ignoredReason(t)
  BY DEF ignoredReason
<1> QED
  BY <1>5, <1>6 DEF Evaluate

\* The lists of an object are finite sequences (ObjectsAssumption).
LEMMA ObjectLists ==
    ASSUME NEW o \in Objects
    PROVE  /\ Len(o.conditions) \in Nat /\ DOMAIN o.conditions = 1 .. Len(o.conditions)
           /\ Len(o.containers) \in Nat /\ DOMAIN o.containers = 1 .. Len(o.containers)
<1>1. \E X, Y : o.conditions \in Seq(X) /\ o.containers \in Seq(Y)
  BY ObjectsAssumption
<1> QED
  BY <1>1

\* What the assumption on objects says of one of them.
LEMMA ObjectFacts ==
    ASSUME NEW o \in Objects
    PROVE  /\ Wellformed(o) /\ WordContainers(o.containers)
           /\ IsFiniteSet(Readable(o)) /\ WordConditions(o.conditions, Readable(o))
           /\ \A i \in DOMAIN o.conditions :
                  o.conditions[i] \in [type : Words, status : Words \cup {"malformed"}, reason : Words, age : Nat \cup {NoTime}]
           /\ o.kind # "Custom" => \A i, j \in DOMAIN o.conditions :
                                       o.conditions[i].type = o.conditions[j].type => o.conditions[i] = o.conditions[j]
<1> DEFINE Cond == [type : Words, status : Words \cup {"malformed"}, reason : Words, age : Nat \cup {NoTime}]
           Cont == [name : Words, is : STRING, reason : Words, restarts : Nat]
<1>1. /\ o.conditions \in Seq(Cond) /\ o.containers \in Seq(Cont)
      /\ \A i \in DOMAIN o.conditions : o.conditions[i].status = "malformed" => o.kind = "Custom"
      /\ o.kind # "Custom" => \A i, j \in DOMAIN o.conditions :
                                  o.conditions[i].type = o.conditions[j].type => o.conditions[i] = o.conditions[j]
      /\ \A i, j \in DOMAIN o.containers : o.containers[i].name = o.containers[j].name => o.containers[i] = o.containers[j]
  BY ObjectsAssumption, Zenon
<1>2. /\ Len(o.conditions) \in Nat /\ DOMAIN o.conditions = 1 .. Len(o.conditions) /\ \A i \in DOMAIN o.conditions : o.conditions[i] \in Cond
      /\ Len(o.containers) \in Nat /\ DOMAIN o.containers = 1 .. Len(o.containers) /\ \A i \in DOMAIN o.containers : o.containers[i] \in Cont
  <2> HIDE DEF Cond, Cont
  <2> QED
    BY <1>1
<1>3. IsFiniteSet(Readable(o))
  <2>1. IsFiniteSet(1 .. Len(o.conditions))
    <3>1. ASSUME NEW k \in Nat PROVE IsFiniteSet(1 .. k)
      BY FS_Interval
    <3> QED
      BY <1>2, <3>1, Zenon
  <2>2. Readable(o) \subseteq 1 .. Len(o.conditions)
    BY <1>2, Zenon DEF Readable
  <2> QED
    BY <2>1, <2>2, FS_Subset, Zenon
<1>4. WordConditions(o.conditions, Readable(o))
  BY <1>2 DEF WordConditions, Readable
<1>5. WordContainers(o.containers)
  BY <1>1, <1>2 DEF WordContainers
<1> QED
  BY <1>1, <1>2, <1>3, <1>4, <1>5 DEF Wellformed

\* Normalize fails or returns the snapshot of a supported object.
LEMMA NormalizedSnapshot ==
    ASSUME NEW o \in Objects, Normalize(o) # None
    PROVE  Supported(o) /\ Wellformed(o) /\ Normalize(o) = snapshot(o)
  BY ObjectFacts DEF Normalize

-----------------------------------------------------------------------------
(* What is down.                                                           *)

\* conditionTransition and unavailableTransition return the time of the first
\* condition that has one.
LEMMA EarliestAge ==
    ASSUME NEW cs, NEW chosen, chosen \subseteq Nat, NEW a \in chosen, cs[a].age # NoTime
    PROVE  \E i \in chosen : i <= a /\ cs[i].age # NoTime /\ FirstAge(cs, chosen) = cs[i].age
<1> DEFINE dated == {i \in chosen : cs[i].age # NoTime}
<1>1. dated \subseteq Nat /\ a \in dated
  BY Zenon
<1>2. Min(dated) \in dated /\ Min(dated) <= a
  <2> HIDE DEF dated
  <2>1. \E x \in dated : \A y \in dated : x <= y
    BY <1>1, LeastNumber, Zenon
  <2> QED
    BY <1>1, <2>1, Zenon DEF Min
<1>3. FirstAge(cs, chosen) = cs[Min(dated)].age
  BY <1>1 DEF FirstAge
<1> QED
  BY <1>2, <1>3, Zenon

\* The conditions of a snapshot are those of its object, in the order of types.
LEMMA SnapshotConditions ==
    ASSUME NEW o \in Objects, Supported(o), o.kind # "Custom"
    PROVE  LET S == snapshot(o).conditions
           IN  \E n \in Nat :
                  /\ DOMAIN S = 1 .. n
                  /\ \A i \in 1 .. n : \E c \in DOMAIN o.conditions : S[i] = o.conditions[c]
                  /\ \A c \in DOMAIN o.conditions : \E i \in 1 .. n : S[i] = o.conditions[c]
                  /\ \A i, j \in 1 .. n : i < j => ~(Rank(S[j].type) < Rank(S[i].type))
<1> DEFINE C == Readable(o)
           n == Cardinality(C)
           S == sortConditions(o.conditions, C)
<1>1. C = DOMAIN o.conditions
  BY ObjectFacts, Zenon DEF Wellformed, Readable
<1>2. IsFiniteSet(C) /\ WordConditions(o.conditions, C) /\ snapshot(o).conditions = S
  BY ObjectFacts, SnapshotParts, Zenon
<1> HIDE DEF C
<1>3. /\ n \in Nat /\ DOMAIN S = 1 .. n /\ S = [i \in 1 .. n |-> S[i]]
      /\ \A i \in 1 .. n : \E c \in C : S[i] = o.conditions[c]
      /\ \A c \in C : \E i \in 1 .. n : S[i] = o.conditions[c]
      /\ \A i, j \in 1 .. n : i < j => ~Before(ConditionKey(S[j]), ConditionKey(S[i]))
  BY <1>2, SortedConditions, Zenon
<1> HIDE DEF S, n
<1>4. ASSUME NEW c, NEW d, Rank(c.type) < Rank(d.type) PROVE Before(ConditionKey(c), ConditionKey(d))
  <2> DEFINE p == ConditionKey(c)
             q == ConditionKey(d)
  <2>1. 1 \in DOMAIN p /\ p[1] = c.type /\ q[1] = d.type /\ 1 .. 1 - 1 = {}
    BY DEF ConditionKey
  <2> HIDE DEF p, q
  <2>2. Before(p, q)
    BY <1>4, <2>1 DEF Before
  <2> QED
    BY <2>2 DEF p, q
<1>5. \A i, j \in 1 .. n : i < j => ~(Rank(S[j].type) < Rank(S[i].type))
  BY <1>3, <1>4
<1>6. /\ n \in Nat /\ DOMAIN S = 1 .. n
      /\ \A i \in 1 .. n : \E c \in DOMAIN o.conditions : S[i] = o.conditions[c]
      /\ \A c \in DOMAIN o.conditions : \E i \in 1 .. n : S[i] = o.conditions[c]
      /\ \A i, j \in 1 .. n : i < j => ~(Rank(S[j].type) < Rank(S[i].type))
  BY <1>1, <1>3, <1>5, Zenon
<1> QED
  BY <1>2, <1>6, ZenonT(30)

\* The rules raise a critical alarm about whatever is down.
LEMMA DownRaisesAlarm ==
    ASSUME NEW o \in Objects, Normalize(o) # None, Down(o)
    PROVE  \E m \in Matches(Normalize(o)) : m.severity = "critical" /\ m.rule # "warning-event"
<1> DEFINE s == snapshot(o)
           S == s.conditions
           Cond == [type : Words, status : Words \cup {"malformed"}, reason : Words, age : Nat \cup {NoTime}]
<1>1. Supported(o) /\ Wellformed(o) /\ Normalize(o) = s
  BY NormalizedSnapshot
<1>2. s.source.kind = o.kind
  <2>1. s.source = source(o)
    BY <1>1, SnapshotParts
  <2> HIDE DEF s
  <2> QED
    BY <2>1 DEF source
<1>3. o.kind \in {"Pod", "Job", "Deployment"}
  BY DEF Down
<1>4. PICK n \in Nat : /\ DOMAIN S = 1 .. n
                       /\ \A i \in 1 .. n : \E c \in DOMAIN o.conditions : S[i] = o.conditions[c]
                       /\ \A c \in DOMAIN o.conditions : \E i \in 1 .. n : S[i] = o.conditions[c]
                       /\ \A i, j \in 1 .. n : i < j => ~(Rank(S[j].type) < Rank(S[i].type))
  BY <1>1, <1>3, SnapshotConditions, Zenon
<1>5. \A i \in DOMAIN o.conditions : o.conditions[i] \in Cond
  BY ObjectFacts, Zenon
<1>6. \A i, j \in DOMAIN o.conditions : o.conditions[i].type = o.conditions[j].type => o.conditions[i] = o.conditions[j]
  BY <1>3, ObjectFacts, Zenon
<1>7. \A i, j \in 1 .. n : S[i].type = S[j].type => S[i] = S[j]
  BY <1>4, <1>6
<1>8. \A i \in 1 .. n : S[i].type \in Words /\ S[i].age \in Nat \cup {NoTime}
  BY <1>4, <1>5, Zenon
<1>9. MinimumAge \in Nat /\ MinimumAge >= 1 /\ CrashLoopCriticalThreshold \in Nat
      /\ CrashLoopRestartThreshold \in Nat /\ CrashLoopCriticalThreshold >= CrashLoopRestartThreshold
  BY RulesAssumption
<1> HIDE DEF s
<1>10. ASSUME NEW id, id # "warning-event", Match(id, "critical") \subseteq Matches(s)
       PROVE  \E m \in Matches(s) : m.severity = "critical" /\ m.rule # "warning-event"
  <2> DEFINE m == [rule |-> id, severity |-> "critical"]
  <2>1. m \in Matches(s) /\ m.severity = "critical" /\ m.rule # "warning-event"
    BY <1>10 DEF Match
  <2> QED
    BY <2>1
<1>11. CASE o.kind = "Pod"
  <2>1. PICK b \in DOMAIN o.containers : /\ o.containers[b].is = "waiting" /\ o.containers[b].reason = "CrashLoopBackOff"
                                         /\ o.containers[b].restarts >= CrashLoopCriticalThreshold
    BY <1>11 DEF Down
  <2>2. PICK a \in 1 .. n : S[a].type = "Ready" /\ S[a].status = "False" /\ S[a].age >= MinimumAge
    BY <1>4, <1>11, Zenon DEF Down
  <2>3. containerState(o.containers[b]) \in Range(s.containers)
    <3>1. s.containers = PodContainers(o.containers)
      BY <1>1, <1>11, SnapshotParts DEF s
    <3>2. \E i \in DOMAIN PodContainers(o.containers) : PodContainers(o.containers)[i] = containerState(o.containers[b])
      <4>1. WordContainers(o.containers)
        BY ObjectFacts, Zenon
      <4> QED
        BY <4>1, SortedContainers, Zenon
    <3> QED
      BY <3>1, <3>2, Zenon DEF Range
  <2>4. o.containers[b].restarts \in Nat
    <3> DEFINE Cont == [name : Words, is : STRING, reason : Words, restarts : Nat]
    <3>1. o.containers \in Seq(Cont)
      BY ObjectsAssumption, Zenon
    <3>2. o.containers[b] \in Cont
      <4> HIDE DEF Cont
      <4> QED
        BY <3>1
    <3> QED
      BY <3>2
  <2>5. OldEnough(conditionTransition(S, "Ready", "False", ""))
    <3> DEFINE chosen == {i \in DOMAIN S : S[i].type = "Ready" /\ S[i].status = "False" /\ "" \in {"", S[i].reason}}
    <3>1. chosen \subseteq Nat /\ a \in chosen /\ S[a].age # NoTime
      BY <1>4, <1>8, <1>9, <2>2 DEF NoTime
    <3>2. PICK i \in chosen : i <= a /\ S[i].age # NoTime /\ FirstAge(S, chosen) = S[i].age
      <4> HIDE DEF chosen
      <4> QED
        BY <3>1, EarliestAge, Zenon
    <3>3. S[i] = S[a]
      BY <1>4, <1>7, <2>2, Zenon
    <3> QED
      BY <2>2, <3>2, <3>3, Zenon DEF OldEnough, conditionTransition
  <2>6. podCrashLoop(s) = Match("pod-crash-loop", "critical")
    <3> DEFINE c == containerState(o.containers[b])
    <3>1. c.state = "waiting" /\ c.reason = "CrashLoopBackOff" /\ c.restarts = o.containers[b].restarts
      BY <2>1 DEF containerState
    <3>2. c.restarts >= CrashLoopCriticalThreshold /\ c.restarts >= CrashLoopRestartThreshold
      BY <1>9, <2>1, <2>4, <3>1
    <3> HIDE DEF c
    <3>3. c \in Range(s.containers)
      BY <2>3 DEF c
    <3> QED
      BY <1>2, <1>11, <2>5, <3>1, <3>2, <3>3, Zenon DEF podCrashLoop
  <2> QED
    BY <1>1, <1>10, <2>6 DEF Matches
<1>12. CASE o.kind = "Job"
  <2>1. PICK a \in 1 .. n : S[a].type = "Failed" /\ S[a].status = "True"
    BY <1>4, <1>12, Zenon DEF Down
  <2>2. S[a] \in Range(S)
    BY <1>4, Zenon DEF Range
  <2>3. s.job # None
    BY <1>1, <1>12, SnapshotParts, NilIsNoStatus DEF s
  <2>4. failedJob(s) = Match("job-failed", "critical")
    BY <1>2, <1>12, <2>1, <2>2, <2>3, Zenon DEF failedJob
  <2> QED
    BY <1>1, <1>10, <2>4 DEF Matches
<1>13. CASE o.kind = "Deployment"
  <2>1. PICK a \in 1 .. n : S[a].type = "Available" /\ S[a].status = "False" /\ S[a].age >= MinimumAge
    BY <1>4, <1>13, Zenon DEF Down
  <2>2. OldEnough(unavailableTransition(S))
    <3> DEFINE chosen == {i \in DOMAIN S : S[i].status = "False" /\ S[i].type \in {"Available", "Ready", "Progressing"}}
    <3>1. chosen \subseteq Nat /\ a \in chosen /\ S[a].age # NoTime
      BY <1>4, <1>8, <1>9, <2>1 DEF NoTime
    <3>2. PICK i \in chosen : i <= a /\ S[i].age # NoTime /\ FirstAge(S, chosen) = S[i].age
      <4> HIDE DEF chosen
      <4> QED
        BY <3>1, EarliestAge, Zenon
    <3>3. i \in 1 .. n /\ a \in 1 .. n
      BY <1>4
    <3>4. S[i].type = "Available"
      <4> SUFFICES ASSUME S[i].type \in {"Ready", "Progressing"} PROVE FALSE
        OBVIOUS
      <4>1. Rank(S[a].type) < Rank(S[i].type)
        <5>1. /\ Rank(S[a].type) \in DOMAIN Dictionary /\ Dictionary[Rank(S[a].type)] = "Available"
              /\ Rank(S[i].type) \in DOMAIN Dictionary /\ Dictionary[Rank(S[i].type)] \in {"Progressing", "Ready"}
          BY <1>8, <2>1, <3>3, WordRank, Zenon
        <5> QED
          BY <5>1, DictionaryAssumption, Zenon
      <4>2. i < a
        BY <2>1, <3>2, <3>3
      <4> QED
        BY <1>4, <3>3, <4>1, <4>2, Zenon
    <3>5. S[i] = S[a]
      BY <1>7, <2>1, <3>3, <3>4
    <3> QED
      BY <2>1, <3>2, <3>5, Zenon DEF OldEnough, unavailableTransition
  <2>3. s.workload = [desired |-> replicas(o.replicas), ready |-> o.ready, available |-> o.available,
                      unavailable |-> o.unavailable]
    <3>1. s.workload = normalizeDeployment(o).workload
      BY <1>1, <1>13, SnapshotParts DEF s
    <3> QED
      BY <3>1 DEF normalizeDeployment, Common
  <2>4. s.workload # None
    BY <1>1, <1>13, SnapshotParts, NilIsNoStatus DEF s
  <2>5. replicas(o.replicas) \in Nat /\ replicas(o.replicas) > 0
    BY <1>13, ObjectsAssumption DEF replicas, Down
  <2>6. o.available = 0 /\ o.unavailable > 0
    BY <1>13, Zenon DEF Down
  <2>7. workloadUnavailable(s) = Match("workload-unavailable", "critical")
    BY <1>2, <1>13, <2>2, <2>3, <2>4, <2>5, <2>6 DEF workloadUnavailable, isWorkloadKind
  <2> QED
    BY <1>1, <1>10, <2>7 DEF Matches
<1> QED
  BY <1>3, <1>11, <1>12, <1>13

\* A critical alarm is the rules' own decision to page.
LEMMA AlarmPages ==
    ASSUME NEW s, NEW previous, ~ignoredReason(s), \E m \in Matches(s) : m.severity = "critical" /\ m.rule # "warning-event"
    PROVE  LET r == Evaluate(s, previous)
           IN  r.disposition = "terminal" /\ r.decision # None /\ r.decision.action = "page"
<1>1. Matches(s) # {} /\ {m.rule : m \in Matches(s)} # {"warning-event"}
  OBVIOUS
<1>2. Evaluate(s, previous) = Result("terminal", Matches(s), decisionFor(Matches(s)), None)
  BY <1>1 DEF Evaluate
<1>3. highestSeverity(Matches(s)) = "critical"
  BY <1>1, MatchShape, HighestSeverity
<1>4. decisionFor(Matches(s)) # None
  BY <1>1, DecisionForTyped, NilIsNoDecision
<1>5. decisionFor(Matches(s)).action = "page"
  BY <1>3 DEF decisionFor
<1> QED
  BY <1>2, <1>4, <1>5 DEF Result

-----------------------------------------------------------------------------
(* The content hash.                                                       *)

\* The hash keeps conditions and containers of a snapshot as they are, except
\* for the times of the conditions.
LEMMA HashKeeps ==
    ASSUME NEW o \in Objects, Normalize(o) # None
    PROVE  LET s == Normalize(o)
           IN  /\ ContentHash(s).conditions = [i \in DOMAIN s.conditions |-> Strip(s.conditions[i])]
               /\ ContentHash(s).containers = s.containers
<1> DEFINE s == Normalize(o)
<1>1. /\ s.conditions = sortConditions(o.conditions, Readable(o))
      /\ s.containers = IF o.kind = "Pod" THEN PodContainers(o.containers) ELSE <<>>
  BY NormalizedSnapshot, SnapshotParts
<1> HIDE DEF s
<1>2. ContentHash(s).conditions = [i \in DOMAIN s.conditions |-> Strip(s.conditions[i])]
  BY <1>1, ObjectFacts, StrippedConditions DEF ContentHash
<1>3. ContentHash(s).containers = sortSlice(s.containers, DOMAIN s.containers,
           [i \in DOMAIN s.containers |-> <<s.containers[i].name, s.containers[i].state, s.containers[i].reason>>])
  BY DEF ContentHash
<1>4. CASE o.kind = "Pod"
  <2>1. WordContainers(o.containers)
    BY ObjectFacts
  <2>2. s.containers = PodContainers(o.containers)
    BY <1>1, <1>4
  <2>3. ContentHash(s).containers = s.containers
    BY <1>3, <2>1, <2>2, HashedContainers, Zenon
  <2> QED
    BY <1>2, <2>3 DEF s
<1>5. CASE o.kind # "Pod"
  <2> DEFINE n == 0
             key == [i \in 1 .. n |-> <<s.containers[i].name, s.containers[i].state, s.containers[i].reason>>]
  <2>1. n \in Nat /\ DOMAIN s.containers = 1 .. n /\ [i \in 1 .. n |-> s.containers[i]] = s.containers
    BY <1>1, <1>5
  <2>2. key \in [1 .. n -> Keys(3)] /\ KeysDecide(1 .. n, key, s.containers) /\ KeysAscend(n, key)
    BY DEF KeysDecide, KeysAscend
  <2> HIDE DEF n
  <2>3. sortSlice(s.containers, 1 .. n, key) = [i \in 1 .. n |-> s.containers[i]]
    <3> HIDE DEF key
    <3> QED
      BY <2>1, <2>2, SliceOfSorted
  <2> QED
    BY <1>2, <1>3, <2>1, <2>3 DEF s
<1> QED
  BY <1>4, <1>5

\* A condition of a snapshot is its part in the hash and its time.
LEMMA HashAndAges ==
    ASSUME NEW o \in Objects, NEW p \in Objects, Normalize(o) # None, Normalize(p) # None,
           ContentHash(Normalize(p)) = ContentHash(Normalize(o)), Ages(Normalize(p)) = Ages(Normalize(o))
    PROVE  Normalize(p).conditions = Normalize(o).conditions
<1> DEFINE s == Normalize(o)
           t == Normalize(p)
           Cond == [type : Words, status : Words \cup {"malformed"}, reason : Words, age : Nat \cup {NoTime}]
<1>1. ASSUME NEW x \in Objects, Normalize(x) # None
      PROVE  /\ \E n \in Nat : /\ DOMAIN Normalize(x).conditions = 1 .. n
                               /\ Normalize(x).conditions = [i \in 1 .. n |-> Normalize(x).conditions[i]]
             /\ \A i \in DOMAIN Normalize(x).conditions : Normalize(x).conditions[i] \in Cond
  <2>1. Normalize(x).conditions = sortConditions(x.conditions, Readable(x))
    BY <1>1, NormalizedSnapshot, SnapshotParts
  <2>2. \A i \in Readable(x) : x.conditions[i] \in Cond
    BY ObjectFacts, Zenon DEF Readable
  <2> DEFINE S == sortConditions(x.conditions, Readable(x))
             n == Cardinality(Readable(x))
  <2>3. n \in Nat /\ DOMAIN S = 1 .. n /\ S = [i \in 1 .. n |-> S[i]] /\ \A i \in 1 .. n : \E c \in Readable(x) : S[i] = x.conditions[c]
    <3>1. IsFiniteSet(Readable(x)) /\ WordConditions(x.conditions, Readable(x))
      BY ObjectFacts, Zenon
    <3> QED
      BY <3>1, SortedConditions
  <2> HIDE DEF S, n, Cond
  <2> QED
    BY <2>1, <2>2, <2>3 DEF S
<1> HIDE DEF s, t
<1>2. [i \in DOMAIN t.conditions |-> Strip(t.conditions[i])] = [i \in DOMAIN s.conditions |-> Strip(s.conditions[i])]
  BY HashKeeps, Zenon DEF s, t
<1>3. DOMAIN t.conditions = DOMAIN s.conditions
  <2> DEFINE f == [i \in DOMAIN t.conditions |-> Strip(t.conditions[i])]
             g == [i \in DOMAIN s.conditions |-> Strip(s.conditions[i])]
  <2>1. DOMAIN f = DOMAIN t.conditions /\ DOMAIN g = DOMAIN s.conditions
    OBVIOUS
  <2> QED
    BY <1>2, <2>1
<1>4. ASSUME NEW i \in DOMAIN s.conditions PROVE Strip(t.conditions[i]) = Strip(s.conditions[i])
  BY <1>2, <1>3
<1>5. ASSUME NEW i \in DOMAIN s.conditions PROVE t.conditions[i].age = s.conditions[i].age
  <2>1. [j \in DOMAIN t.conditions |-> t.conditions[j].age] = [j \in DOMAIN s.conditions |-> s.conditions[j].age]
    BY DEF Ages, s, t
  <2> QED
    BY <1>3, <2>1
<1>6. ASSUME NEW i \in DOMAIN s.conditions PROVE t.conditions[i] = s.conditions[i]
  <2>1. t.conditions[i] \in Cond /\ s.conditions[i] \in Cond
    BY <1>1, <1>3 DEF s, t
  <2>2. ASSUME NEW c \in Cond, NEW d \in Cond, Strip(c) = Strip(d), c.age = d.age PROVE c = d
    BY <2>2 DEF Strip
  <2> HIDE DEF Cond
  <2> QED
    BY <1>4, <1>5, <2>1, <2>2
<1>7. PICK n \in Nat : DOMAIN s.conditions = 1 .. n /\ s.conditions = [i \in 1 .. n |-> s.conditions[i]]
  BY <1>1, Zenon DEF s
<1>8. PICK m \in Nat : DOMAIN t.conditions = 1 .. m /\ t.conditions = [i \in 1 .. m |-> t.conditions[i]]
  BY <1>1, Zenon DEF t
<1>9. t.conditions = s.conditions
  BY <1>3, <1>6, <1>7, <1>8, Zenon
<1> QED
  BY <1>9 DEF s, t

\* The hash tells apart what the rules do.
LEMMA HashTells ==
    ASSUME NEW o \in Objects, NEW p \in Objects, p.kind = o.kind, p.uid = o.uid,
           Normalize(o) # None, Normalize(p) # None,
           ContentHash(Normalize(p)) = ContentHash(Normalize(o)), Ages(Normalize(p)) = Ages(Normalize(o)),
           NEW previous
    PROVE  Evaluate(Normalize(p), previous) = Evaluate(Normalize(o), previous)
<1> DEFINE s == Normalize(o)
           t == Normalize(p)
<1>1. t.conditions = s.conditions
  BY HashAndAges
<1>2. t.containers = s.containers
  BY HashKeeps, Zenon
<1>3. ASSUME NEW x \in Objects, Normalize(x) # None
      PROVE  /\ Normalize(x).source.kind = x.kind /\ Normalize(x).source.namespace = x.namespace
             /\ Normalize(x).event = None <=> x.kind # "Event"
  <2>1. Supported(x) /\ Wellformed(x) /\ Normalize(x) = snapshot(x)
    BY <1>3, NormalizedSnapshot
  <2>2. /\ Normalize(x).source = source(x)
        /\ Normalize(x).event = IF x.kind = "Event" THEN normalizeEvent(x).event ELSE None
    BY <2>1, SnapshotParts
  <2> QED
    BY <2>2, NilIsNoStatus DEF source
<1>4. p.namespace = o.namespace
  BY ObjectsAssumption
<1>5. t.labels = s.labels /\ t.workload = s.workload /\ t.job = s.job
  BY Zenon DEF ContentHash
<1>6. s.event = None <=> t.event = None
  BY <1>3
<1>7. s.event # None => s.event.type = t.event.type /\ s.event.reason = t.event.reason
  BY <1>6, Zenon DEF ContentHash
<1>8. s.event # None => s.event.lastObserved = t.event.lastObserved
  BY <1>6 DEF Ages
<1>9. s.source.kind = t.source.kind /\ s.source.namespace = t.source.namespace
  BY <1>3, <1>4
<1> HIDE DEF s, t
<1>10. Evaluate(s, previous) = Evaluate(t, previous)
  BY <1>1, <1>2, <1>5, <1>6, <1>7, <1>8, <1>9, EvaluateDepends
<1> QED
  BY <1>10 DEF s, t

-----------------------------------------------------------------------------
(* The order of listing.                                                   *)

\* The object, with conditions and containers listed the other way round.
Relisted(o) == [o EXCEPT !.conditions = Backwards(@), !.containers = Backwards(@)]

\* Listing backwards changes nothing but the two lists.
LEMMA RelistedFields ==
    ASSUME NEW o \in Objects
    PROVE  /\ Relisted(o).conditions = Backwards(o.conditions) /\ Relisted(o).containers = Backwards(o.containers)
           /\ \A f \in ObjectFields \ {"conditions", "containers"} : Relisted(o)[f] = o[f]
<1>1. DOMAIN o = ObjectFields
  BY ObjectsAssumption
<1>2. "conditions" \in ObjectFields /\ "containers" \in ObjectFields
  BY DEF ObjectFields
<1> QED
  BY <1>1, <1>2, Zenon DEF Relisted

\* The element at i of a list that is read backwards.
LEMMA BackwardsFacts ==
    ASSUME NEW n \in Nat, NEW seq, DOMAIN seq = 1 .. n, Len(seq) = n
    PROVE  DOMAIN Backwards(seq) = 1 .. n /\ \A i \in 1 .. n : Backwards(seq)[i] = seq[n + 1 - i] /\ n + 1 - i \in 1 .. n
  BY DEF Backwards

\* Where the chosen elements of a list are, counted from its end.
FromEnd(n, C) == {i \in 1 .. n : n + 1 - i \in C}

\* Reading backwards pairs the chosen elements with themselves.
LEMMA Reversal ==
    ASSUME NEW n \in Nat, NEW C \in SUBSET (1 .. n)
    PROVE  [i \in C |-> n + 1 - i] \in Bijection(C, FromEnd(n, C))
<1> DEFINE h == [i \in C |-> n + 1 - i]
           D == FromEnd(n, C)
<1>1. \A x \in C : h[x] \in D
  BY DEF FromEnd
<1>2. \A x, y \in C : h[x] = h[y] => x = y
  OBVIOUS
<1>3. ASSUME NEW y \in D PROVE \E x \in C : h[x] = y
  <2>1. n + 1 - y \in C /\ h[n + 1 - y] = y
    BY DEF FromEnd
  <2> QED
    BY <2>1, Zenon
<1>4. h \in [C -> D]
  BY <1>1
<1> HIDE DEF h, D
<1>5. h \in Bijection(C, D)
  BY <1>2, <1>3, <1>4, IsBijection, Zenon
<1> QED
  BY <1>5 DEF h, D

\* Listed the other way round, the conditions are sorted into the same order, up
\* to the times of conditions that agree in everything else.
LEMMA RelistedConditions ==
    ASSUME NEW n \in Nat, NEW cs, DOMAIN cs = 1 .. n, Len(cs) = n, NEW C \in SUBSET (1 .. n), WordConditions(cs, C)
    PROVE  WordConditions(Backwards(cs), FromEnd(n, C)) /\ SortedAlike(cs, C, Backwards(cs), FromEnd(n, C))
<1> DEFINE D == FromEnd(n, C)
           back == Backwards(cs)
           h == [i \in C |-> n + 1 - i]
<1>1. h \in Bijection(C, D)
  BY Reversal
<1>2. DOMAIN back = 1 .. n /\ \A i \in 1 .. n : back[i] = cs[n + 1 - i]
  BY BackwardsFacts
<1>3. WordConditions(back, D)
  BY <1>2 DEF WordConditions, FromEnd
<1>4. IsFiniteSet(C)
  <2>1. IsFiniteSet(1 .. n)
    BY FS_Interval
  <2> QED
    BY <2>1, FS_Subset, Zenon
<1>5. ASSUME NEW x \in C PROVE back[h[x]] = cs[x]
  <2>1. h[x] \in 1 .. n /\ n + 1 - h[x] = x
    OBVIOUS
  <2> HIDE DEF back, h
  <2> QED
    BY <1>2, <2>1
<1> HIDE DEF D, back, h
<1>6. SortedAlike(cs, C, back, D)
  <2>1. Corresponds(h, C, D, cs, back)
    BY <1>1, <1>5 DEF Corresponds
  <2> QED
    BY <1>3, <1>4, <2>1, ConditionSlicesAgree
<1> QED
  BY <1>3, <1>6 DEF D, back

\* Listed the other way round, the containers are sorted into the same order.
LEMMA RelistedContainers ==
    ASSUME NEW n \in Nat, NEW cc, DOMAIN cc = 1 .. n, Len(cc) = n, WordContainers(cc)
    PROVE  PodContainers(Backwards(cc)) = PodContainers(cc)
<1> DEFINE C == 1 .. n
           back == Backwards(cc)
           h == [i \in C |-> n + 1 - i]
           seq == [i \in C |-> containerState(cc[i])]
           tail == [i \in C |-> containerState(back[i])]
           key == [i \in C |-> <<cc[i].name>>]
           lock == [i \in C |-> <<back[i].name>>]
<1>1. DOMAIN back = C /\ \A i \in C : back[i] = cc[n + 1 - i] /\ n + 1 - i \in C
  BY BackwardsFacts
<1>2. h \in Bijection(C, C)
  <2>1. FromEnd(n, C) = C
    BY DEF FromEnd
  <2>2. h \in Bijection(C, FromEnd(n, C))
    <3>1. C \in SUBSET (1 .. n)
      OBVIOUS
    <3> HIDE DEF C
    <3> QED
      BY <3>1, Reversal
  <2> QED
    BY <2>1, <2>2
<1>3. IsFiniteSet(C)
  BY FS_Interval
<1>4. \A i \in C : cc[i].name \in Words
  BY DEF WordContainers
<1>5. key \in [C -> Keys(1)] /\ lock \in [C -> Keys(1)]
  <2> HIDE DEF C, back
  <2> QED
    BY <1>1, <1>4, Single
<1>6. ASSUME NEW x \in C PROVE back[h[x]] = cc[x] /\ h[x] \in C
  <2>1. h[x] = n + 1 - x /\ n + 1 - h[x] = x /\ h[x] \in C
    OBVIOUS
  <2> HIDE DEF back, h, C
  <2> QED
    BY <1>1, <2>1
<1>7. SameElements(h, C, C, key, lock, seq, tail)
  <2> HIDE DEF back, h, C
  <2> QED
    BY <1>2, <1>6 DEF SameElements
<1>8. KeysDecide(C, key, seq)
  BY DEF KeysDecide, WordContainers
<1>9. sortSlice(seq, C, key) = sortSlice(tail, C, lock)
  <2> HIDE DEF C, back, h, seq, tail, key, lock
  <2> QED
    BY <1>3, <1>5, <1>7, <1>8, SlicesAgree
<1>10. PodContainers(cc) = sortSlice(seq, C, key)
  BY DEF PodContainers
<1>11. PodContainers(back) = sortSlice(tail, C, lock)
  <2> HIDE DEF C, back
  <2> QED
    BY <1>1 DEF PodContainers
<1> QED
  BY <1>9, <1>10, <1>11

\* The snapshot of a built-in kind does not depend on the order of listing.
LEMMA RelistedSnapshot ==
    ASSUME NEW o \in Objects, Supported(o), o.kind # "Custom"
    PROVE  Supported(Relisted(o)) /\ snapshot(Relisted(o)) = snapshot(o)
<1> DEFINE r == Relisted(o)
           n == Len(o.conditions)
           N == 1 .. n
<1>1. /\ r.conditions = Backwards(o.conditions) /\ r.containers = Backwards(o.containers)
      /\ r.kind = o.kind /\ r.namespace = o.namespace /\ r.uid = o.uid /\ r.generation = o.generation
      /\ r.owners = o.owners /\ r.labels = o.labels /\ r.replicas = o.replicas /\ r.ready = o.ready
      /\ r.available = o.available /\ r.unavailable = o.unavailable /\ r.failed = o.failed
      /\ r.backoffLimit = o.backoffLimit /\ r.type = o.type /\ r.reason = o.reason /\ r.message = o.message
      /\ r.regarding = o.regarding /\ r.count = o.count /\ r.eventTime = o.eventTime
      /\ r.lastTimestamp = o.lastTimestamp /\ r.readable = o.readable
  <2> HIDE DEF r
  <2> QED
    BY RelistedFields DEF ObjectFields, r
<1>2. /\ n \in Nat /\ DOMAIN o.conditions = N
      /\ Len(o.containers) \in Nat /\ DOMAIN o.containers = 1 .. Len(o.containers)
  BY ObjectLists
<1>3. N = Readable(o) /\ FromEnd(n, N) = N
  <2>1. Readable(o) = DOMAIN o.conditions
    BY ObjectFacts, Zenon DEF Wellformed, Readable
  <2> HIDE DEF n
  <2>2. \A i \in 1 .. n : n + 1 - i \in 1 .. n
    BY <1>2
  <2>3. FromEnd(n, N) = N
    BY <2>2 DEF FromEnd
  <2> QED
    BY <1>2, <2>1, <2>3
<1>4. sortConditions(Backwards(o.conditions), N) = sortConditions(o.conditions, N)
  <2>1. SortedAlike(o.conditions, N, Backwards(o.conditions), FromEnd(n, N))
    <3>1. WordConditions(o.conditions, N)
      BY <1>3, ObjectFacts
    <3>2. N \in SUBSET (1 .. n)
      OBVIOUS
    <3> HIDE DEF n, N
    <3> QED
      BY <1>2, <3>1, <3>2, RelistedConditions, Zenon DEF n, N
  <2>2. \A i, j \in N : o.conditions[i].type = o.conditions[j].type => o.conditions[i] = o.conditions[j]
    BY <1>2, ObjectFacts
  <2> HIDE DEF N
  <2> QED
    BY <1>3, <2>1, <2>2 DEF SortedAlike
<1>5. DOMAIN r.conditions = N
  BY <1>1, <1>2, Zenon DEF Backwards
<1>6. PodContainers(r.containers) = PodContainers(o.containers)
  BY <1>1, <1>2, ObjectFacts, RelistedContainers, Zenon
<1> HIDE DEF r, n, N
<1>7. source(r) = source(o)
  BY <1>1, Zenon DEF source
<1>8. Common(r, DOMAIN r.conditions) = Common(o, DOMAIN o.conditions)
  BY <1>1, <1>2, <1>4, <1>5, <1>7, Zenon DEF Common
<1>9. normalizePod(r) = normalizePod(o)
  BY <1>6, <1>8 DEF normalizePod, PodContainers
<1>10. /\ normalizeDeployment(r) = normalizeDeployment(o) /\ normalizeStatefulSet(r) = normalizeStatefulSet(o)
       /\ normalizeDaemonSet(r) = normalizeDaemonSet(o)
  BY <1>1, <1>8 DEF normalizeDeployment, normalizeStatefulSet, normalizeDaemonSet
<1>11. normalizeJob(r) = normalizeJob(o) /\ normalizeEvent(r) = normalizeEvent(o)
  BY <1>1, <1>8 DEF normalizeJob, normalizeEvent
<1>12. Supported(r) /\ snapshot(r) = snapshot(o)
  BY <1>1, <1>9, <1>10, <1>11 DEF Supported, snapshot
<1> QED
  BY <1>12 DEF r

\* No rule is about a custom object.
LEMMA CustomMatchesNothing ==
    ASSUME NEW s, s.source.kind = "Custom"
    PROVE  Matches(s) = {}
<1>1. podCrashLoop(s) = {} /\ podUnschedulable(s) = {} /\ imagePullFailure(s) = {}
  BY DEF podCrashLoop, podUnschedulable, imagePullFailure
<1>2. failedJob(s) = {} /\ workloadUnavailable(s) = {} /\ warningEvent(s) = {}
  BY Zenon DEF failedJob, workloadUnavailable, warningEvent, isWorkloadKind
<1> QED
  BY <1>1, <1>2 DEF Matches

\* The times of a custom object's conditions may depend on the order of listing,
\* but neither its hash nor what the rules say of it does.
LEMMA RelistedCustom ==
    ASSUME NEW o \in Objects, Supported(o), o.kind = "Custom", NEW previous
    PROVE  LET s == snapshot(o)
               t == snapshot(Relisted(o))
           IN  /\ Supported(Relisted(o)) /\ Size(t) = Size(s)
               /\ ContentHash(t) = ContentHash(s) /\ Evaluate(t, previous) = Evaluate(s, previous)
<1> DEFINE r == Relisted(o)
           n == Len(o.conditions)
           C == Readable(o)
           D == FromEnd(n, C)
           s == snapshot(o)
           t == snapshot(r)
<1>1. /\ r.conditions = Backwards(o.conditions)
      /\ r.kind = o.kind /\ r.namespace = o.namespace /\ r.uid = o.uid /\ r.generation = o.generation
      /\ r.owners = o.owners /\ r.labels = o.labels /\ r.readable = o.readable
  <2> HIDE DEF r
  <2> QED
    BY RelistedFields DEF ObjectFields, r
<1>2. n \in Nat /\ DOMAIN o.conditions = 1 .. n /\ C \in SUBSET (1 .. n) /\ IsFiniteSet(C) /\ WordConditions(o.conditions, C)
  BY ObjectLists, ObjectFacts, ZenonT(30) DEF Readable
<1>3. Supported(r) /\ Wellformed(r) /\ Wellformed(o)
  BY <1>1, ObjectFacts, Zenon DEF Supported, Wellformed
<1>4. Readable(r) = D
  <2>1. DOMAIN r.conditions = 1 .. n /\ \A i \in 1 .. n : r.conditions[i] = o.conditions[n + 1 - i]
    <3>1. Len(o.conditions) = n
      OBVIOUS
    <3> HIDE DEF n, r
    <3>2. DOMAIN Backwards(o.conditions) = 1 .. n /\ \A i \in 1 .. n : Backwards(o.conditions)[i] = o.conditions[n + 1 - i]
      BY <1>2, <3>1, BackwardsFacts
    <3> QED
      BY <1>1, <3>2, Zenon
  <2> HIDE DEF r, n
  <2> QED
    BY <1>2, <2>1 DEF Readable, FromEnd
<1>5. /\ s.source = source(o) /\ s.labels = labels(o.labels) /\ s.conditions = sortConditions(o.conditions, C)
      /\ s.containers = <<>> /\ s.workload = None /\ s.job = None /\ s.event = None
  BY <1>3, SnapshotParts, ZenonT(30) DEF isWorkloadKind
<1>6. /\ t.source = source(r) /\ t.labels = labels(r.labels) /\ t.conditions = sortConditions(r.conditions, D)
      /\ t.containers = <<>> /\ t.workload = None /\ t.job = None /\ t.event = None
  <2> HIDE DEF r, D
  <2>1. r.kind = "Custom"
    BY <1>1
  <2> QED
    BY <1>3, <1>4, <2>1, SnapshotParts, Zenon DEF isWorkloadKind
<1>7. WordConditions(r.conditions, D) /\ SortedAlike(o.conditions, C, r.conditions, D)
  <2> HIDE DEF C, n
  <2> QED
    BY <1>1, <1>2, RelistedConditions, Zenon DEF n
<1> HIDE DEF r, n, C, D, s, t
<1>8. source(r) = source(o)
  BY <1>1, Zenon DEF source
<1>9. IsFiniteSet(D) /\ Cardinality(D) = Cardinality(C)
  BY <1>7, Zenon DEF SortedAlike
<1>10. Len(s.conditions) = Cardinality(C) /\ Len(t.conditions) = Cardinality(C)
  <2>1. ASSUME NEW cs, NEW E, IsFiniteSet(E), WordConditions(cs, E) PROVE Len(sortConditions(cs, E)) = Cardinality(E)
    <3> DEFINE S == sortConditions(cs, E)
               m == Cardinality(E)
    <3>1. m \in Nat /\ S = [i \in 1 .. m |-> S[i]]
      BY <2>1, SortedConditions
    <3> HIDE DEF S, m
    <3>2. Len([i \in 1 .. m |-> S[i]]) = m
      BY <3>1
    <3> QED
      BY <3>1, <3>2 DEF S, m
  <2>2. Len(sortConditions(o.conditions, C)) = Cardinality(C)
    BY <1>2, <2>1, Zenon
  <2>3. Len(sortConditions(r.conditions, D)) = Cardinality(D)
    BY <1>7, <1>9, <2>1, Zenon
  <2> QED
    BY <1>5, <1>6, <1>9, <2>2, <2>3, Zenon
<1>11. Size(t) = Size(s)
  BY <1>1, <1>5, <1>6, <1>10, Zenon DEF Size
<1>12. ContentHash(t).conditions = ContentHash(s).conditions
  <2>1. ContentHash(s).conditions = [i \in DOMAIN s.conditions |-> Strip(s.conditions[i])]
    BY <1>2, <1>5, StrippedConditions DEF ContentHash
  <2>2. ContentHash(t).conditions = [i \in DOMAIN t.conditions |-> Strip(t.conditions[i])]
    <3>1. sortConditions([i \in DOMAIN t.conditions |-> Strip(t.conditions[i])], DOMAIN t.conditions)
              = [i \in DOMAIN t.conditions |-> Strip(t.conditions[i])]
      BY <1>6, <1>7, <1>9, StrippedConditions
    <3> QED
      BY <3>1, Zenon DEF ContentHash
  <2> QED
    BY <1>5, <1>6, <1>7, <2>1, <2>2, Zenon DEF SortedAlike
<1>13. ContentHash(t) = ContentHash(s)
  BY <1>1, <1>5, <1>6, <1>8, <1>12, Zenon DEF ContentHash
<1>14. Evaluate(t, previous) = Evaluate(s, previous)
  <2>1. Matches(s) = {} /\ Matches(t) = {}
    <3>1. source(o).kind = "Custom"
      BY DEF source
    <3>2. s.source.kind = "Custom" /\ t.source.kind = "Custom"
      BY <1>5, <1>6, <1>8, <3>1
    <3> QED
      BY <3>2, CustomMatchesNothing, Zenon
  <2>2. ignoredReason(s) <=> ignoredReason(t)
    BY <1>1, <1>5, <1>6, <1>8, Zenon DEF ignoredReason
  <2> QED
    BY <2>1, <2>2 DEF Evaluate
<1> QED
  BY <1>3, <1>11, <1>13, <1>14 DEF r, s, t

-----------------------------------------------------------------------------
(* From the object to the decision.                                        *)

\* Whatever is down by its own status is paged for without asking a provider:
\* podCrashLoop, failedJob and workloadUnavailable find it, Evaluate makes the
\* decision and Compose keeps it, for any configured thresholds.
THEOREM DownPaged ==
    Spec => []DownIsPaged
<1>1. PassesInv /\ TypeInv => DownIsPaged
  <2> SUFFICES ASSUME PassesInv, TypeInv, stage = "committed", Down(object), ~Ignored(object)
               PROVE  decision.action = "page" /\ asked = 0
    BY DEF DownIsPaged
  <2>1. object \in Objects /\ Normalize(object) # None
    BY DEF TypeInv, PassesInv, ResultInv
  <2>2. PICK previous : result = Evaluate(Normalize(object), previous)
    BY DEF PassesInv, ResultInv
  <2>3. ~ignoredReason(Normalize(object))
    BY <2>1, NormalizedIgnored
  <2>4. \E m \in Matches(Normalize(object)) : m.severity = "critical" /\ m.rule # "warning-event"
    BY <2>1, DownRaisesAlarm
  <2>5. result.disposition = "terminal" /\ result.decision # None /\ result.decision.action = "page"
    BY <2>2, <2>3, <2>4, AlarmPages, Zenon
  <2>6. asked = 0 /\ decision = Compose(result, None, FALSE)
    BY <2>5 DEF PassesInv, DecideInv, Semantic
  <2> QED
    BY <2>5, <2>6, Zenon DEF Compose
<1> QED
  BY <1>1, PassesInvariant, TypeInvariant, PTL

\* Reconcile may skip an object whose content hash is the incident's: for any two
\* states of an object, in any configuration of the rules, one hash and the same
\* times mean that the rules say the same (ContentHash, Engine.Evaluate).
THEOREM RulesFollow ==
    Spec => []RulesFollowHash
<1>1. PassesInv /\ TypeInv => RulesFollowHash
  <2> SUFFICES ASSUME PassesInv, TypeInv, stage = "resolved", NEW o \in Objects, o.kind = object.kind, o.uid = object.uid,
                      Normalize(o) # None, ContentHash(Normalize(o)) = ContentHash(Normalize(object)),
                      Ages(Normalize(o)) = Ages(Normalize(object))
               PROVE  Evaluate(Normalize(o), "open") = Evaluate(Normalize(object), "open")
    BY DEF RulesFollowHash
  <2>1. object \in Objects /\ Normalize(object) # None
    BY DEF TypeInv, PassesInv, ResultInv
  <2> QED
    BY <2>1, HashTells
<1> QED
  BY <1>1, PassesInvariant, TypeInvariant, PTL

\* The order in which the API lists conditions and containers carries no meaning,
\* for lists of any length: sorted, they give the same hash and the same result
\* (sortConditions, normalizePod, ContentHash).
THEOREM ListingOrder ==
    Spec => []ListingOrderIrrelevant
<1>1. PassesInv /\ TypeInv => ListingOrderIrrelevant
  <2> SUFFICES ASSUME PassesInv, TypeInv, stage = "resolved"
               PROVE  /\ ContentHash(Normalize(Relisted(object))) = ContentHash(Normalize(object))
                      /\ Evaluate(Normalize(Relisted(object)), "open") = Evaluate(Normalize(object), "open")
    BY DEF ListingOrderIrrelevant, Relisted
  <2>1. object \in Objects /\ Normalize(object) # None
    BY DEF TypeInv, PassesInv, ResultInv
  <2>2. Supported(object) /\ Size(snapshot(object)) <= MaxItems /\ Normalize(object) = snapshot(object)
    BY <2>1 DEF Normalize
  <2>3. CASE object.kind # "Custom"
    <3>1. Supported(Relisted(object)) /\ snapshot(Relisted(object)) = snapshot(object)
      BY <2>1, <2>2, <2>3, RelistedSnapshot
    <3> QED
      BY <2>2, <3>1 DEF Normalize
  <2>4. CASE object.kind = "Custom"
    <3>1. /\ Supported(Relisted(object)) /\ Size(snapshot(Relisted(object))) = Size(snapshot(object))
          /\ ContentHash(snapshot(Relisted(object))) = ContentHash(snapshot(object))
          /\ Evaluate(snapshot(Relisted(object)), "open") = Evaluate(snapshot(object), "open")
      BY <2>1, <2>2, <2>4, RelistedCustom
    <3>2. Normalize(Relisted(object)) = snapshot(Relisted(object))
      BY <2>2, <3>1 DEF Normalize
    <3> QED
      BY <2>2, <3>1, <3>2
  <2> QED
    BY <2>3, <2>4
<1> QED
  BY <1>1, PassesInvariant, TypeInvariant, PTL

-----------------------------------------------------------------------------
(* Whose evidence a decision rests on.                                     *)

\* A semantic decision names the provider's evidence exactly if the client of
\* the provider asked last accepts its last answer; otherwise the deterministic
\* fallback is composed.
EvidenceIsAccepted ==
    stage = "committed" /\ Semantic(result) =>
        /\ "provider_evidence" \in decision.reasons <=> Evidence
        /\ "provider_unavailable" \in decision.reasons <=> ~Evidence

\* Evaluate of the clients, decide and Compose together: for any bodies and
\* providers, retries, timeouts and the second provider included, a decision
\* rests on accepted evidence or says that there is none.
THEOREM EvidenceAccepted ==
    Spec => []EvidenceIsAccepted
<1>1. PassesInv => EvidenceIsAccepted
  <2> SUFFICES ASSUME PassesInv, stage = "committed", Semantic(result)
               PROVE  /\ "provider_evidence" \in decision.reasons <=> Evidence
                      /\ "provider_unavailable" \in decision.reasons <=> ~Evidence
    BY DEF EvidenceIsAccepted
  <2>1. decision = Compose(result, IF Evidence THEN reply.answers ELSE None, ~Evidence)
    BY DEF PassesInv, DecideInv
  <2>2. PICK previous : result = Evaluate(Normalize(object), previous)
    BY DEF PassesInv, ResultInv
  <2>3. result.questionSet = "operational-triage-v1" /\ result.decision = None
    BY <2>2, SemanticResult
  <2>4. "provider_evidence" # "provider_unavailable"
    OBVIOUS
  <2>5. CASE ~Evidence
    <3>1. decision = WithRules(fallbackDecision, result)
      BY <2>1, <2>3, <2>5, Zenon DEF Compose, Semantic, applyDeterministicFloor
    <3>2. decision.reasons = {"provider_unavailable"}
      BY <3>1 DEF WithRules, fallbackDecision
    <3> QED
      BY <2>4, <2>5, <3>2
  <2>6. CASE Evidence
    <3> DEFINE a == reply.answers
    <3>1. ValidateAnswers(Questions, a)
      BY <2>6 DEF Evidence, Accepts, jevEvaluate, structuredEvaluate
    <3>2. decision = WithRules(composeOperationalTriage(a), result)
      BY <2>1, <2>3, <2>6, <3>1, Zenon DEF Compose, Semantic, applyDeterministicFloor
    <3>3. decision.reasons = {"provider_evidence", a.incident_family.choice}
      BY <3>2 DEF WithRules, composeOperationalTriage
    <3>4. a.incident_family.choice # "provider_unavailable"
      <4>1. a.incident_family.choice \in Questions.incident_family.criteria
        BY <3>1, ValidAnswer, Zenon DEF validateChoiceAnswer
      <4>2. "provider_unavailable" \notin Questions.incident_family.criteria
        BY Zenon DEF Questions
      <4> QED
        BY <4>1, <4>2
    <3> QED
      BY <2>4, <2>6, <3>3, <3>4
  <2> QED
    BY <2>5, <2>6
<1> QED
  BY <1>1, PassesInvariant, PTL

=============================================================================
