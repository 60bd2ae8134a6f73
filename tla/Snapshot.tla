------------------------------ MODULE Snapshot ------------------------------
(***************************************************************************)
(* The normalizer and the fingerprint: from a Kubernetes object to the     *)
(* snapshot that rules and providers see, and to the content hash.         *)
(*                                                                         *)
(* Time is relative: a transition or observation time is an age, the       *)
(* distance from now, or NoTime.  A hash is the value that is hashed.      *)
(***************************************************************************)
EXTENDS Integers, Sequences, FiniteSets, FiniteSetsExt, Functions

CONSTANTS
    None,            \* nil
    IgnoredLabels,   \* rules.ignoredLabels: [key, value], the value None for any
    SensitiveKeys,   \* label keys that IsSensitiveKey tells to be credentials
    MaxItems,        \* maxNormalizedStateBytes, counted in conditions, containers and labels
    Dictionary       \* the words that are sorted, in the order of Go's strings

NoTime == -1

\* What the code reads of an object, of whatever kind.
ObjectFields ==
    {"kind", "namespace", "uid", "generation", "owners", "labels", "conditions", "containers",
     "replicas", "ready", "available", "unavailable", "failed", "backoffLimit",
     "type", "reason", "message", "regarding", "count", "eventTime", "lastTimestamp", "readable"}

Words == {Dictionary[i] : i \in DOMAIN Dictionary}

\* The names of the states that containerState gives.
ContainerStates == {"waiting", "terminated", "running", "unknown"}

ASSUME DictionaryAssumption ==
    /\ Dictionary \in Seq(STRING)
    /\ \A i, j \in DOMAIN Dictionary : Dictionary[i] = Dictionary[j] => i = j
    /\ \A i, j \in DOMAIN Dictionary :
           Dictionary[i] = "Available" /\ Dictionary[j] \in {"Progressing", "Ready"} => i < j
    /\ {""} \cup ContainerStates \subseteq Words

Rank(word) == CHOOSE i \in DOMAIN Dictionary : Dictionary[i] = word

\* The words of one element come before those of another.
Before(p, q) ==
    \E i \in DOMAIN p : Rank(p[i]) < Rank(q[i]) /\ \A j \in 1 .. i - 1 : p[j] = q[j]

\* sort.Slice on the chosen elements of a sequence: an order in which no element
\* has a key that comes before the key of an earlier one.  Equal keys are in any
\* order, for the sort is not stable.
sortSlice(seq, chosen, key) ==
    LET n == Cardinality(chosen)
        order == CHOOSE p \in Bijection(1 .. n, chosen) :
                     \A i, j \in 1 .. n : i < j => ~Before(key[p[j]], key[p[i]])
    IN  [i \in 1 .. n |-> seq[order[i]]]

-----------------------------------------------------------------------------
(* Normalizer.                                                             *)

\* Mutant: the selectors themselves are allowed, not their keys.
MutAllowedLabels == {l.key : l \in {s \in IgnoredLabels : s.value = None}}

\* buildNormalizer: the labels that ignore selectors name, and no others.
AllowedLabels == {l.key : l \in IgnoredLabels}

labels(values) == {l \in values : l.key \in AllowedLabels \ SensitiveKeys}

\* The controlling owner, or else the first.
Owner(owners) ==
    LET controlling == {i \in DOMAIN owners : owners[i].controller}
    IN  IF owners = <<>> THEN None
        ELSE owners[IF controlling = {} THEN 1 ELSE Min(controlling)].uid

source(o) ==
    [kind |-> o.kind, namespace |-> o.namespace, uid |-> o.uid,
     generation |-> o.generation, owner |-> Owner(o.owners)]

\* Mutant: the type is left out of the comparison.
MutSortConditions(conditions, chosen) ==
    sortSlice(conditions, chosen, [i \in chosen |-> <<conditions[i].status, conditions[i].reason>>])

sortConditions(conditions, chosen) ==
    sortSlice(conditions, chosen,
              [i \in chosen |-> <<conditions[i].type, conditions[i].status, conditions[i].reason>>])

\* Only a waiting or terminated container has a reason.
containerState(c) ==
    CASE c.is \in {"waiting", "terminated"} -> [name |-> c.name, restarts |-> c.restarts, state |-> c.is, reason |-> c.reason]
      [] c.is = "running" -> [name |-> c.name, restarts |-> c.restarts, state |-> "running", reason |-> ""]
      [] OTHER -> [name |-> c.name, restarts |-> c.restarts, state |-> "unknown", reason |-> ""]

\* What all kinds have in common; each kind adds its own part.
Common(o, chosen) ==
    [source |-> source(o), labels |-> labels(o.labels), conditions |-> sortConditions(o.conditions, chosen),
     containers |-> <<>>, workload |-> None, job |-> None, event |-> None]

normalizePod(o) ==
    [Common(o, DOMAIN o.conditions) EXCEPT !.containers =
        sortSlice([i \in DOMAIN o.containers |-> containerState(o.containers[i])], DOMAIN o.containers,
                  [i \in DOMAIN o.containers |-> <<o.containers[i].name>>])]

replicas(value) == IF value = None THEN 1 ELSE value
nonnegativeDifference(left, right) == IF left <= right THEN 0 ELSE left - right

normalizeDeployment(o) ==
    [Common(o, DOMAIN o.conditions) EXCEPT !.workload =
        [desired |-> replicas(o.replicas), ready |-> o.ready, available |-> o.available,
         unavailable |-> o.unavailable]]

\* Unavailable is computed, and from the ready replicas.
normalizeStatefulSet(o) ==
    [Common(o, DOMAIN o.conditions) EXCEPT !.workload =
        [desired |-> replicas(o.replicas), ready |-> o.ready, available |-> o.available,
         unavailable |-> nonnegativeDifference(replicas(o.replicas), o.ready)]]

\* Desired comes from the status and has no default.
normalizeDaemonSet(o) ==
    [Common(o, DOMAIN o.conditions) EXCEPT !.workload =
        [desired |-> o.replicas, ready |-> o.ready, available |-> o.available,
         unavailable |-> o.unavailable]]

normalizeJob(o) ==
    [Common(o, DOMAIN o.conditions) EXCEPT !.job =
        [failed |-> o.failed, backoffLimit |-> IF o.backoffLimit = None THEN 6 ELSE o.backoffLimit]]

\* A message is its text and the credential that an assignment in it names.
RedactText(message) ==
    [message EXCEPT !.credential = IF @ = None THEN None ELSE "[REDACTED]"]

normalizeEvent(o) ==
    [Common(o, DOMAIN o.conditions) EXCEPT !.event =
        [type |-> o.type, reason |-> o.reason, message |-> RedactText(o.message),
         regarding |-> o.regarding, count |-> o.count,
         lastObserved |-> IF o.eventTime # NoTime THEN o.eventTime ELSE o.lastTimestamp]]

\* Entries that are no maps are skipped; a stamp that does not parse is no time.
normalizeUnstructured(o) ==
    Common(o, {i \in DOMAIN o.conditions : o.conditions[i].status # "malformed"})

Size(s) == Len(s.conditions) + Len(s.containers) + Cardinality(s.labels)

\* A Secret, an unknown type and conditions that are no list are errors.
Supported(o) ==
    \/ o.kind \in {"Pod", "Deployment", "StatefulSet", "DaemonSet", "Job", "Event"}
    \/ o.kind = "Custom" /\ o.readable

snapshot(o) ==
    CASE o.kind = "Pod" -> normalizePod(o)
      [] o.kind = "Deployment" -> normalizeDeployment(o)
      [] o.kind = "StatefulSet" -> normalizeStatefulSet(o)
      [] o.kind = "DaemonSet" -> normalizeDaemonSet(o)
      [] o.kind = "Job" -> normalizeJob(o)
      [] o.kind = "Event" -> normalizeEvent(o)
      [] o.kind = "Custom" -> normalizeUnstructured(o)

\* The snapshot, or None for an error; too large is one.
Normalize(o) == IF Supported(o) /\ Size(snapshot(o)) <= MaxItems THEN snapshot(o) ELSE None

-----------------------------------------------------------------------------
(* Fingerprint.                                                            *)

Strip(condition) == [type |-> condition.type, status |-> condition.status, reason |-> condition.reason]

\* Mutant: what changes often is left out of the containers too.
MutContentHash(s) ==
    [source |-> [kind |-> s.source.kind, uid |-> s.source.uid,
                 generation |-> s.source.generation, owner |-> s.source.owner],
     labels |-> s.labels,
     conditions |-> sortConditions([i \in DOMAIN s.conditions |-> Strip(s.conditions[i])], DOMAIN s.conditions),
     containers |-> [i \in DOMAIN s.containers |-> <<s.containers[i].name, s.containers[i].reason>>],
     workload |-> s.workload, job |-> s.job,
     event |-> IF s.event = None THEN None ELSE <<s.event.type, s.event.reason>>]

\* Identity, generation, labels, conditions without their times, containers,
\* counts, and of an Event neither its count nor its time.
ContentHash(s) ==
    [source |-> [kind |-> s.source.kind, uid |-> s.source.uid,
                 generation |-> s.source.generation, owner |-> s.source.owner],
     labels |-> s.labels,
     conditions |-> sortConditions([i \in DOMAIN s.conditions |-> Strip(s.conditions[i])], DOMAIN s.conditions),
     containers |-> sortSlice(s.containers, DOMAIN s.containers,
                        [i \in DOMAIN s.containers |->
                            <<s.containers[i].name, s.containers[i].state, s.containers[i].reason>>]),
     workload |-> s.workload, job |-> s.job,
     event |-> IF s.event = None THEN None
               ELSE <<s.event.type, s.event.reason, s.event.message, s.event.regarding>>]

=============================================================================
