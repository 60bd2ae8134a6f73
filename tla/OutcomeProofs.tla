--------------------------- MODULE OutcomeProofs ---------------------------
(***************************************************************************)
(* Proofs about the outcome of reconciliations, for an object that does    *)
(* not flap and is reconciled by one process: what Reconcile returns is    *)
(* what the store says.                                                    *)
(***************************************************************************)
EXTENDS ReconcilerProofs

\* A reconciliation has resolved its object; it is past the rules.
Holds(p) == pc[p] \in {"get", "upsert", "reread", "snapshot", "commit"}
PastRules(p) == pc[p] \in {"upsert", "reread", "snapshot", "commit"}

Evaluated(h) == \E b \in BOOLEAN : <<h, b>> \in evaluations
StoredHash(h) == incident # None /\ incident.hash = h

\* Neither the cluster nor a reconciliation has this content any more.
Superseded(c) == object # c /\ \A p \in Process : Holds(p) => work[p].object # c

\* What a reconciliation holds is or was the object, and its clock runs with it.
ObjectInv ==
    /\ object \in past \cup {None}
    /\ \A p \in Process :
          /\ Holds(p) => work[p].object \in past \cup {None} /\ (work[p].object = None => object = None)
          /\ pc[p] = "get" =>
                /\ work[p].clock = "due" => (work[p].object = object => elapsed)
                /\ work[p].clock = "pending" => work[p].object = object
                /\ work[p].clock = "stale" => work[p].object # object

\* Contents are evaluated in the order in which the object has them: what was
\* evaluated is in the incident or is superseded.
EvaluatedInv ==
    /\ \A c \in Content : Evaluated(Live(c)) \/ Evaluated(Quiet(c)) =>
          /\ c \in past
          /\ \A p \in Process : Holds(p) => work[p].object = c \/ object # c
          /\ StoredHash(Live(c)) \/ StoredHash(Quiet(c)) \/ Superseded(c)
    /\ \A c \in Content : Evaluated(Quiet(c)) => StoredHash(Quiet(c)) \/ Superseded(c)
    /\ Evaluated(Deleted) =>
          StoredHash(Deleted) /\ object = None /\ \A p \in Process : Holds(p) => work[p].object = None

\* The status of an incident whose last snapshot is of this content.  The
\* recovery of an Event has a hash of its own.
LiveStatus(c) ==
    IF Finding[c] = "ignored" THEN "suppressed"
    ELSE IF ~IsEvent /\ Finding[c] = "healthy" THEN "resolved"
    ELSE "open"

\* The incident has the status that its hash calls for; a quiet Event stays quiet.
IncidentInv ==
    /\ \A c \in Content : StoredHash(Live(c)) => incident.status = LiveStatus(c)
    /\ \A c \in Content : StoredHash(Quiet(c)) =>
          /\ c \in past /\ incident.status = "resolved" /\ Finding[c] \in {"warning", "healthy"}
          /\ Finding[c] = "warning" =>
                /\ object = c => elapsed
                /\ \A p \in Process : pc[p] = "get" /\ work[p].object = c => work[p].clock = "due"
    /\ StoredHash(Deleted) => incident.status = "resolved"
    /\ incident # None /\ incident.status = "suppressed" => \E c \in Content : Finding[c] = "ignored"

\* A result that was not evaluated before and that fits its content.
Fits(c, r) ==
    /\ Identity(c, r) \notin evaluations
    /\ c = None <=> r = "deleted"
    /\ c # None =>
          /\ ~StoredHash(Quiet(c))
          /\ r = "suppress" <=> Finding[c] = "ignored"
          /\ r = "recovered" => /\ Finding[c] \in {"warning", "healthy"}
                                /\ Finding[c] = "warning" => (object = c => elapsed)
          /\ ~IsEvent => (r = "recovered" <=> Finding[c] = "healthy")

\* What a reconciliation is about to commit is new and fits its content.
PendingInv ==
    \A p \in Process : PastRules(p) => Fits(work[p].object, work[p].result)

OutcomeInv == ObjectInv /\ EvaluatedInv /\ IncidentInv /\ PendingInv

\* Where a reconciliation stores its outcome: one process, so that a key is with
\* one worker; contents that do not come back; no rule with a minimum age, as for
\* Events and Jobs; and, unless it is an Event, whose recovery has a hash of its
\* own, an object that is not put on the ignore list and found healthy later.
OneObject ==
    /\ \A p, q \in Process : p = q
    /\ ~Flapping
    /\ \A c \in Content : Finding[c] # "aging"
    /\ IsEvent \/ ~\E c, e \in Content : Finding[c] = "ignored" /\ Finding[e] = "healthy"

\* The hashes of a content, of the quiet content and of a deletion are different.
LEMMA HashesDiffer ==
    ASSUME NEW c, NEW d
    PROVE  /\ Live(c) # Quiet(d) /\ Live(c) # Deleted /\ Quiet(c) # Deleted
           /\ Live(c) # Empty /\ Quiet(c) # Empty /\ Deleted # Empty
           /\ (Live(c) = Live(d) => c = d) /\ (Quiet(c) = Quiet(d) => c = d)
  BY DEF Live, Quiet, Deleted, Empty

\* A reconciliation that ends, or has not begun, knows nothing.
LEMMA Released ==
    ASSUME OutcomeInv, UNCHANGED <<object, elapsed, past, incident, evaluations>>,
           \A q \in Process : (pc'[q] = pc[q] /\ work'[q] = work[q]) \/ pc'[q] \in {"idle", "resolve"}
    PROVE  OutcomeInv'
<1>1. \A q \in Process : /\ Holds(q)' => Holds(q) /\ work'[q] = work[q] /\ pc'[q] = pc[q]
                         /\ PastRules(q)' => PastRules(q) /\ Holds(q)'
                         /\ pc'[q] = "get" => Holds(q)'
  BY DEF Holds, PastRules
<1>2. /\ \A h : Evaluated(h)' <=> Evaluated(h)
      /\ \A h : StoredHash(h)' <=> StoredHash(h)
  BY DEF Evaluated, StoredHash
<1>3. \A c : Superseded(c) => Superseded(c)'
  BY <1>1 DEF Superseded
<1>4. ObjectInv'
  BY <1>1 DEF OutcomeInv, ObjectInv
<1>5. EvaluatedInv'
  <2>1. ASSUME NEW c \in Content, Evaluated(Live(c))' \/ Evaluated(Quiet(c))'
        PROVE  /\ c \in past'
               /\ \A p \in Process : Holds(p)' => work'[p].object = c \/ object' # c
               /\ StoredHash(Live(c))' \/ StoredHash(Quiet(c))' \/ Superseded(c)'
    <3>1. Evaluated(Live(c)) \/ Evaluated(Quiet(c))
      BY <1>2, <2>1
    <3> QED
      BY <1>1, <1>2, <1>3, <3>1 DEF OutcomeInv, EvaluatedInv
  <2>2. ASSUME NEW c \in Content, Evaluated(Quiet(c))' PROVE StoredHash(Quiet(c))' \/ Superseded(c)'
    BY <1>2, <1>3, <2>2 DEF OutcomeInv, EvaluatedInv
  <2>3. Evaluated(Deleted)' =>
          StoredHash(Deleted)' /\ object' = None /\ \A p \in Process : Holds(p)' => work'[p].object = None
    BY <1>1, <1>2 DEF OutcomeInv, EvaluatedInv
  <2> QED
    BY <2>1, <2>2, <2>3 DEF EvaluatedInv
<1>6. IncidentInv'
  BY <1>1, <1>2 DEF OutcomeInv, IncidentInv
<1>7. PendingInv'
  <2>1. \A q \in Process : PastRules(q)' => /\ PastRules(q) /\ work'[q].object = work[q].object
                                            /\ work'[q].result = work[q].result
    BY <1>1
  <2>2. UNCHANGED <<object, elapsed, evaluations>>
    OBVIOUS
  <2> QED
    BY <1>2, <2>1, <2>2 DEF OutcomeInv, PendingInv, Fits
<1> QED
  BY <1>4, <1>5, <1>6, <1>7 DEF OutcomeInv

\* The object changes, or time passes; contents do not come back.
LEMMA ClusterKeepsOutcome ==
    ASSUME OneObject, TypeOK, OutcomeInv, ClusterStep
    PROVE  OutcomeInv'
<1>1. UNCHANGED <<pc, incident, evaluations>>
  BY Zenon DEF ClusterStep, Change, Restamp, Touch, Delete, Elapse, store
<1>2. /\ \A h : Evaluated(h)' <=> Evaluated(h)
      /\ \A h : StoredHash(h)' <=> StoredHash(h)
      /\ \A q : (Holds(q)' <=> Holds(q)) /\ (PastRules(q)' <=> PastRules(q))
  BY <1>1 DEF Evaluated, StoredHash, Holds, PastRules
<1>3. \A q \in Process : /\ work'[q].object = work[q].object /\ work'[q].result = work[q].result
                         /\ work[q].clock # "pending" => work'[q].clock = work[q].clock
  <2> SUFFICES ASSUME NEW q \in Process
               PROVE  /\ work'[q].object = work[q].object /\ work'[q].result = work[q].result
                      /\ work[q].clock # "pending" => work'[q].clock = work[q].clock
    OBVIOUS
  <2>1. work[q] \in Work
    BY DEF TypeOK
  <2>2. work'[q] = work[q] \/ (work[q].clock = "pending" /\ work'[q] = [work[q] EXCEPT !.clock = "stale"])
    BY Zenon DEF ClusterStep, Change, Restamp, Touch, Delete, Elapse, Supersede
  <2> QED
    BY <2>1, <2>2 DEF Work
\* Either the object is a new one, or it is the same and as old or older.
<1>4. \/ /\ object' # object /\ object' \notin past /\ past \subseteq past' /\ object' \in past' \cup {None}
         /\ object # None
         /\ \A q \in Process : work[q].clock = "pending" => work'[q].clock = "stale"
      \/ UNCHANGED <<object, past, work>> /\ (elapsed => elapsed')
  <2>1. CASE \E c \in Content : Change(c)
    <3>1. PICK c \in Content : Change(c)
      BY <2>1
    <3>2. \A q \in Process : work[q].clock = "pending" => work'[q].clock = "stale"
      BY <3>1 DEF Change, Supersede, TypeOK, Work
    <3> QED
      BY <3>1, <3>2 DEF Change, OneObject
  <2>2. CASE Delete
    <3>1. \A q \in Process : work[q].clock = "pending" => work'[q].clock = "stale"
      BY <2>2 DEF Delete, Supersede, TypeOK, Work
    <3> QED
      BY <2>2, <3>1, ReconcilerAssumption DEF Delete, TypeOK
  <2>3. CASE Touch \/ Elapse
    BY <2>3 DEF Touch, Elapse, cluster
  <2> QED
    BY <2>1, <2>2, <2>3 DEF ClusterStep, Restamp, OneObject
<1>5. CASE UNCHANGED <<object, past, work>> /\ (elapsed => elapsed')
  <2>1. \A c : Superseded(c)' <=> Superseded(c)
    BY <1>2, <1>5 DEF Superseded
  <2>2. ObjectInv'
    BY <1>1, <1>2, <1>5 DEF OutcomeInv, ObjectInv
  <2>3. EvaluatedInv'
    BY <1>2, <1>5, <2>1 DEF OutcomeInv, EvaluatedInv
  <2>4. IncidentInv'
    BY <1>1, <1>2, <1>5 DEF OutcomeInv, IncidentInv
  <2>5. PendingInv'
    BY <1>1, <1>2, <1>5 DEF OutcomeInv, PendingInv, Fits
  <2> QED
    BY <2>2, <2>3, <2>4, <2>5 DEF OutcomeInv
<1>6. CASE /\ object' # object /\ object' \notin past /\ past \subseteq past' /\ object' \in past' \cup {None}
           /\ object # None
           /\ \A q \in Process : work[q].clock = "pending" => work'[q].clock = "stale"
  <2>1. \A q \in Process : Holds(q) => work[q].object # object' \/ object' = None
    BY <1>6 DEF OutcomeInv, ObjectInv
  <2>2. \A q \in Process : Holds(q) => work[q].object # None /\ work[q].object \in past
    BY <1>6 DEF OutcomeInv, ObjectInv
  <2>3. ASSUME NEW c \in Content, c \in past PROVE Superseded(c) => Superseded(c)'
    BY <1>2, <1>3, <1>6, <2>3 DEF Superseded
  <2>4. ObjectInv'
    <3>1. ASSUME NEW q \in Process, pc'[q] = "get"
          PROVE  /\ work'[q].clock = "due" => (work'[q].object = object' => elapsed')
                 /\ work'[q].clock = "pending" => work'[q].object = object'
                 /\ work'[q].clock = "stale" => work'[q].object # object'
      <4>1. work'[q].object # object'
        BY <1>1, <1>3, <1>6, <2>2, <3>1 DEF Holds
      <4>2. work'[q].clock # "pending"
        BY <1>3, <1>6
      <4> QED
        BY <4>1, <4>2
    <3> QED
      BY <1>2, <1>3, <1>6, <2>2, <3>1 DEF ObjectInv
  <2>5. EvaluatedInv'
    <3>1. ~Evaluated(Deleted)
      BY <1>6 DEF OutcomeInv, EvaluatedInv
    <3>2. ASSUME NEW c \in Content, Evaluated(Live(c))' \/ Evaluated(Quiet(c))'
          PROVE  /\ c \in past' /\ c \in past
                 /\ \A p \in Process : Holds(p)' => work'[p].object = c \/ object' # c
                 /\ StoredHash(Live(c))' \/ StoredHash(Quiet(c))' \/ Superseded(c)'
      <4>1. c \in past /\ (StoredHash(Live(c)) \/ StoredHash(Quiet(c)) \/ Superseded(c))
        BY <1>2, <3>2 DEF OutcomeInv, EvaluatedInv
      <4> QED
        BY <1>2, <1>6, <2>3, <4>1
    <3>3. ASSUME NEW c \in Content, Evaluated(Quiet(c))' PROVE StoredHash(Quiet(c))' \/ Superseded(c)'
      BY <1>2, <2>3, <3>2, <3>3, Zenon DEF OutcomeInv, EvaluatedInv
    <3> QED
      BY <1>2, <3>1, <3>2, <3>3 DEF EvaluatedInv
  <2>6. IncidentInv'
    <3>1. ASSUME NEW c \in Content, StoredHash(Quiet(c))'
          PROVE  /\ c \in past' /\ incident'.status = "resolved" /\ Finding[c] \in {"warning", "healthy"}
                 /\ Finding[c] = "warning" =>
                       /\ object' = c => elapsed'
                       /\ \A p \in Process : pc'[p] = "get" /\ work'[p].object = c => work'[p].clock = "due"
      <4>1. c \in past /\ object' # c
        BY <1>2, <1>6, <3>1, Zenon DEF OutcomeInv, IncidentInv
      <4> QED
        BY <1>1, <1>2, <1>3, <1>6, <3>1, <4>1 DEF OutcomeInv, IncidentInv
    <3>2. \A c \in Content : StoredHash(Live(c))' => incident'.status = LiveStatus(c)
      BY <1>1, <1>2, Zenon DEF OutcomeInv, IncidentInv
    <3>3. /\ StoredHash(Deleted)' => incident'.status = "resolved"
          /\ incident' # None /\ incident'.status = "suppressed" => \E c \in Content : Finding[c] = "ignored"
      BY <1>1, <1>2, Zenon DEF OutcomeInv, IncidentInv
    <3> QED
      BY <3>1, <3>2, <3>3, Zenon DEF IncidentInv, LiveStatus
  <2>7. PendingInv'
    <3>1. \A q \in Process : PastRules(q) => work'[q].object # object'
      BY <1>3, <1>6, <2>2 DEF PastRules, Holds
    <3> QED
      BY <1>1, <1>2, <1>3, <3>1 DEF OutcomeInv, PendingInv, Fits
  <2> QED
    BY <2>4, <2>5, <2>6, <2>7 DEF OutcomeInv
<1> QED
  BY <1>4, <1>5, <1>6

\* What the rules can say of a content, and when they say it.
LEMMA RuleResults ==
    ASSUME OneObject, NEW c \in Content, NEW d, NEW previous
    PROVE  LET r == Evaluate(c, d, previous)
           IN  /\ r = "suppress" <=> Finding[c] = "ignored"
               /\ r = "terminal" <=> Finding[c] = "failing"
               /\ r = "semantic" <=> Finding[c] = "warning" /\ ~d
               /\ r \in {"recovered", "no_match"} <=> Finding[c] = "healthy" \/ (Finding[c] = "warning" /\ d)
               /\ r = "recovered" => recovered(previous)
               /\ r = "no_match" => ~recovered(previous)
               /\ r # "deleted"
<1>1. Finding[c] \in {"ignored", "failing", "warning", "healthy"}
  BY ReconcilerAssumption DEF OneObject, FindingKind
<1>2. CASE Finding[c] = "ignored"
  BY <1>2 DEF Evaluate, ignoredReason
<1>3. CASE Finding[c] = "failing"
  BY <1>3 DEF Evaluate, ignoredReason, Matches, failedJob, agedFailure, warningEvent, eventIsQuiet
<1>4. CASE Finding[c] = "warning"
  BY <1>4 DEF Evaluate, ignoredReason, Matches, failedJob, agedFailure, warningEvent, eventIsQuiet
<1>5. CASE Finding[c] = "healthy"
  BY <1>5 DEF Evaluate, ignoredReason, Matches, failedJob, agedFailure, warningEvent, eventIsQuiet
<1> QED
  BY <1>1, <1>2, <1>3, <1>4, <1>5

\* Whatever is left to do after the early returns has not been evaluated before.
LEMMA RulesFindNew ==
    ASSUME OneObject, TypeOK, OutcomeInv, NEW p \in Process, pc[p] = "get", NEW d \in DueNow(p),
           ~NothingToDo(work[p].object, RuleResult(p, d), incident)
    PROVE  Fits(work[p].object, RuleResult(p, d))
<1> DEFINE c == work[p].object
           r == RuleResult(p, d)
<1>1. Holds(p) /\ c \in Content \cup {None} /\ work[p].clock \in {"due", "pending", "stale"}
      /\ incident \in Incidents \cup {None}
  BY DEF Holds, TypeOK, Work
<1>2. c = None <=> r = "deleted"
  BY RuleResultType
<1>3. \A h : Evaluated(h) \/ \A b \in BOOLEAN : <<h, b>> \notin evaluations
  BY Zenon DEF Evaluated
<1>4. /\ ~(StoredHash(SnapshotHash(c, r)) /\ ~isRecovery(r))
      /\ ~(r \in {"no_match", "deleted"} /\ (incident = None \/ incident.status = "resolved"))
  BY Zenon DEF NothingToDo, StoredHash
<1>5. ASSUME <<SnapshotHash(c, r), r = "semantic">> \notin evaluations PROVE Identity(c, r) \notin evaluations
  BY <1>5 DEF Identity
<1>6. ASSUME c = None PROVE Fits(c, r)
  <2>1. SnapshotHash(c, r) = Deleted /\ r = "deleted"
    BY <1>2, <1>6 DEF SnapshotHash
  <2>2. ~Evaluated(Deleted)
    BY <1>4, <2>1, Zenon DEF OutcomeInv, EvaluatedInv, IncidentInv, StoredHash
  <2>3. (r = "semantic") \in BOOLEAN
    OBVIOUS
  <2> HIDE DEF c, r
  <2> QED
    BY <1>2, <1>3, <1>5, <1>6, <2>1, <2>2, <2>3, Zenon DEF Fits
<1>7. ASSUME c # None PROVE Fits(c, r)
  <2>1. c \in Content /\ r = Evaluate(c, d, incident)
    BY <1>1, <1>7 DEF RuleResult
  <2>2. /\ r = "suppress" <=> Finding[c] = "ignored"
        /\ r = "terminal" <=> Finding[c] = "failing"
        /\ r = "semantic" <=> Finding[c] = "warning" /\ ~d
        /\ r \in {"recovered", "no_match"} <=> Finding[c] = "healthy" \/ (Finding[c] = "warning" /\ d)
        /\ r = "recovered" => recovered(incident)
        /\ r = "no_match" => ~recovered(incident)
    <3> HIDE DEF c, r
    <3> QED
      BY <2>1, RuleResults
  <2>3. r \in {"suppress", "terminal", "semantic", "recovered", "no_match"}
    BY <1>2, <1>7, RuleResultType DEF Results
  <2>4. SnapshotHash(c, r) = IF r = "recovered" /\ IsEvent THEN Quiet(c) ELSE Live(c)
    BY <1>2, <1>7 DEF SnapshotHash
  <2>5. work[p].clock = "due" => d = TRUE
    BY DEF DueNow
  <2>6. ~Superseded(c)
    BY <1>1 DEF Superseded
  <2>7. ~StoredHash(Quiet(c))
    <3> SUFFICES ASSUME StoredHash(Quiet(c)) PROVE FALSE
      OBVIOUS
    <3>1. incident # None /\ incident.status = "resolved" /\ Finding[c] \in {"warning", "healthy"}
          /\ (Finding[c] = "warning" => work[p].clock = "due")
      BY <2>1, Zenon DEF OutcomeInv, IncidentInv, StoredHash
    <3>2. r \in {"recovered", "no_match"}
      BY <2>2, <2>5, <3>1
    <3> QED
      BY <1>4, <2>2, <3>1, <3>2 DEF recovered
  <2>8. r = "recovered" => ~Evaluated(Quiet(c))
    BY <2>1, <2>6, <2>7 DEF OutcomeInv, EvaluatedInv
  <2>9. ~(r = "recovered" /\ IsEvent) => ~Evaluated(Live(c))
    <3> SUFFICES ASSUME ~(r = "recovered" /\ IsEvent), Evaluated(Live(c)) PROVE FALSE
      OBVIOUS
    <3>1. StoredHash(Live(c))
      BY <2>1, <2>6, <2>7, Zenon DEF OutcomeInv, EvaluatedInv
    <3>2. isRecovery(r)
      BY <1>4, <2>4, <3>1, Zenon
    <3>3. r = "recovered" /\ ~IsEvent
      BY <1>2, <1>7, <3>2 DEF isRecovery
    <3>4. Finding[c] = "healthy"
      BY <2>1, <2>2, <3>3, ReconcilerAssumption
    <3>5. incident.status = "resolved"
      BY <2>1, <3>1, <3>3, <3>4 DEF OutcomeInv, IncidentInv, LiveStatus
    <3> QED
      BY <2>2, <3>3, <3>5 DEF recovered
  <2>10. r = "recovered" => /\ Finding[c] \in {"warning", "healthy"}
                            /\ Finding[c] = "warning" => (object = c => elapsed)
    <3>1. (r = "recovered" /\ Finding[c] = "warning" /\ object = c) => elapsed
      <4> SUFFICES ASSUME r = "recovered", Finding[c] = "warning", object = c PROVE elapsed
        OBVIOUS
      <4>1. d
        BY <2>2
      <4>2. work[p].clock \in {"due", "pending"}
        BY <1>1 DEF OutcomeInv, ObjectInv
      <4> QED
        BY <4>1, <4>2, Zenon DEF DueNow, OutcomeInv, ObjectInv
    <3> QED
      BY <2>2, <3>1, Zenon
  <2>11. (r = "semantic") \in BOOLEAN
    OBVIOUS
  <2>12. ~IsEvent => (r = "recovered" <=> Finding[c] = "healthy")
    <3>1. ~IsEvent /\ r = "recovered" => Finding[c] = "healthy"
      BY <2>1, <2>2, ReconcilerAssumption
    <3>2. ~(~IsEvent /\ r = "no_match" /\ Finding[c] = "healthy")
      <4> SUFFICES ASSUME ~IsEvent, r = "no_match", Finding[c] = "healthy" PROVE FALSE
        OBVIOUS
      <4>1. incident # None /\ incident.status = "suppressed"
        BY <1>1, <1>4, <2>2 DEF recovered, Incidents, Statuses
      <4>2. \E e \in Content : Finding[e] = "ignored"
        BY <4>1 DEF OutcomeInv, IncidentInv
      <4> QED
        BY <2>1, <4>2, Zenon DEF OneObject
    <3> QED
      BY <2>2, <3>1, <3>2
  <2>13. Identity(c, r) \notin evaluations
    <3> HIDE DEF c, r
    <3> QED
      BY <1>3, <1>5, <2>4, <2>8, <2>9, <2>11, Zenon
  <2> HIDE DEF c, r
  <2> QED
    BY <1>2, <1>7, <2>2, <2>7, <2>10, <2>12, <2>13, Zenon DEF Fits
<1> QED
  BY <1>6, <1>7

\* An early return, before persist or in it, finds the incident as it should be.
LEMMA StoredStatus ==
    ASSUME OneObject, OutcomeInv, NEW c \in Content, NEW r,
           r \in {"suppress", "terminal", "semantic", "no_match"}, r = "suppress" <=> Finding[c] = "ignored",
           ~IsEvent => Finding[c] # "healthy", StoredHash(Live(c))
    PROVE  incident.status = statusFor(r)
<1>1. incident.status = LiveStatus(c)
  BY DEF OutcomeInv, IncidentInv
<1> QED
  BY <1>1 DEF LiveStatus, statusFor, isRecovery

\* Resolve takes the current object.
LEMMA ResolveKeepsOutcome ==
    ASSUME OneObject, TypeOK, OutcomeInv, NEW p \in Process, Resolve(p)
    PROVE  OutcomeInv'
<1>1. UNCHANGED <<object, elapsed, past, incident, evaluations>>
  BY DEF Resolve, cluster, store
<1>2. pc'[p] = "get" /\ work'[p].object = object /\ work'[p].clock = IF elapsed THEN "due" ELSE "pending"
  BY DEF Resolve, Continue, TypeOK, Finished
<1>3. \A q \in Process : q = p
  BY DEF OneObject
<1>4. /\ \A h : Evaluated(h)' <=> Evaluated(h)
      /\ \A h : StoredHash(h)' <=> StoredHash(h)
      /\ Holds(p)' /\ ~PastRules(p)'
  BY <1>1, <1>2 DEF Evaluated, StoredHash, Holds, PastRules
<1>5. \A c : Superseded(c) => Superseded(c)'
  BY <1>1, <1>2, <1>3 DEF Superseded
<1>6. ObjectInv'
  BY <1>1, <1>2, <1>3, Zenon DEF OutcomeInv, ObjectInv
<1>7. EvaluatedInv'
  BY <1>1, <1>2, <1>3, <1>4, <1>5, Zenon DEF OutcomeInv, EvaluatedInv
<1>8. IncidentInv'
  <2>1. \A c \in Content : StoredHash(Quiet(c)) /\ Finding[c] = "warning" /\ object = c => work'[p].clock = "due"
    BY <1>2 DEF OutcomeInv, IncidentInv
  <2> QED
    BY <1>1, <1>2, <1>3, <1>4, <2>1, Zenon DEF OutcomeInv, IncidentInv
<1>9. PendingInv'
  BY <1>3, <1>4 DEF PendingInv
<1> QED
  BY <1>6, <1>7, <1>8, <1>9 DEF OutcomeInv

\* A reconciliation goes on with what it holds; it may insert the incident.
LEMMA Advanced ==
    ASSUME OneObject, TypeOK, OutcomeInv, NEW p \in Process, Holds(p), PastRules(p)',
           UNCHANGED <<object, elapsed, past, evaluations>>,
           \/ incident' = incident
           \/ incident = None /\ incident' # None /\ incident'.hash = Empty /\ incident'.status = "open",
           NEW result, work'[p].object = work[p].object, work'[p].result = result, Fits(work[p].object, result)
    PROVE  OutcomeInv'
<1>1. \A q \in Process : q = p
  BY DEF OneObject
<1>2. /\ \A h : Evaluated(h)' <=> Evaluated(h)
      /\ Holds(p)' /\ pc'[p] # "get"
  BY DEF Evaluated, Holds, PastRules
<1>3. \A h : h # Empty => (StoredHash(h)' <=> StoredHash(h) /\ incident' = incident)
  BY DEF StoredHash
<1>4. /\ \A c : StoredHash(Live(c))' <=> StoredHash(Live(c)) /\ incident' = incident
      /\ \A c : StoredHash(Quiet(c))' <=> StoredHash(Quiet(c)) /\ incident' = incident
      /\ StoredHash(Deleted)' <=> StoredHash(Deleted) /\ incident' = incident
  BY <1>3, HashesDiffer, Zenon
<1>5. \A h : StoredHash(h) => incident' = incident
  BY DEF StoredHash
<1>6. \A c : Superseded(c) => Superseded(c)'
  BY <1>1 DEF Superseded
<1>7. ObjectInv'
  BY <1>1, <1>2, Zenon DEF OutcomeInv, ObjectInv
<1>8. EvaluatedInv'
  <2>1. ASSUME NEW c \in Content, Evaluated(Live(c))' \/ Evaluated(Quiet(c))'
        PROVE  /\ c \in past'
               /\ \A q \in Process : Holds(q)' => work'[q].object = c \/ object' # c
               /\ StoredHash(Live(c))' \/ StoredHash(Quiet(c))' \/ Superseded(c)'
    <3>1. /\ c \in past /\ (\A q \in Process : Holds(q) => work[q].object = c \/ object # c)
          /\ StoredHash(Live(c)) \/ StoredHash(Quiet(c)) \/ Superseded(c)
      BY <1>2, <2>1, Zenon DEF OutcomeInv, EvaluatedInv
    <3> QED
      BY <1>1, <1>4, <1>5, <1>6, <3>1, Zenon
  <2>2. ASSUME NEW c \in Content, Evaluated(Quiet(c))' PROVE StoredHash(Quiet(c))' \/ Superseded(c)'
    BY <1>2, <1>4, <1>5, <1>6, <2>2, Zenon DEF OutcomeInv, EvaluatedInv
  <2>3. Evaluated(Deleted)' =>
          StoredHash(Deleted)' /\ object' = None /\ \A q \in Process : Holds(q)' => work'[q].object = None
    BY <1>1, <1>2, <1>4, <1>5, Zenon DEF OutcomeInv, EvaluatedInv
  <2> QED
    BY <2>1, <2>2, <2>3, Zenon DEF EvaluatedInv
<1>9. IncidentInv'
  <2>1. incident' # None /\ incident'.status = "suppressed" => incident' = incident
    OBVIOUS
  <2> QED
    BY <1>1, <1>2, <1>4, <2>1, Zenon DEF OutcomeInv, IncidentInv, LiveStatus
<1>10. PendingInv'
  <2>1. \A c : StoredHash(Quiet(c))' => StoredHash(Quiet(c))
    BY <1>4, Zenon
  <2> QED
    BY <1>1, <2>1, Zenon DEF PendingInv, Fits
<1> QED
  BY <1>7, <1>8, <1>9, <1>10 DEF OutcomeInv

\* A transaction that goes through makes its content the incident's.
LEMMA CommitKeepsOutcome ==
    ASSUME OneObject, TypeOK, OutcomeInv, NEW p \in Process, WorkInv(p), pc[p] = "commit", Apply(p), pc'[p] = "idle",
           UNCHANGED <<object, elapsed, past>>
    PROVE  OutcomeInv'
<1> DEFINE c == work[p].object
           r == work[p].result
           h == SnapshotHash(c, r)
<1>1. \A q \in Process : q = p
  BY DEF OneObject
<1>2. c \in Content \cup {None} /\ r \in Results /\ Holds(p) /\ PastRules(p)
  BY DEF TypeOK, Work, Holds, PastRules
<1>3. \A q \in Process : ~Holds(q)' /\ ~PastRules(q)' /\ pc'[q] # "get"
  BY <1>1 DEF Holds, PastRules
<1>4. /\ incident' # None /\ incident'.hash = h /\ incident'.status = statusFor(r)
      /\ evaluations' = evaluations \cup {Identity(c, r)}
  BY ApplyTypes, NoneAssumption, Zenon DEF Apply, Write
<1>5. /\ c = None <=> r = "deleted"
      /\ c # None =>
            /\ ~StoredHash(Quiet(c))
            /\ r = "suppress" <=> Finding[c] = "ignored"
            /\ r = "recovered" => /\ Finding[c] \in {"warning", "healthy"}
                                  /\ Finding[c] = "warning" => (object = c => elapsed)
            /\ ~IsEvent => (r = "recovered" <=> Finding[c] = "healthy")
  BY <1>2, Zenon DEF OutcomeInv, PendingInv, Fits
<1>6. h = IF c = None THEN Deleted ELSE IF r = "recovered" /\ IsEvent THEN Quiet(c) ELSE Live(c)
  BY <1>5 DEF SnapshotHash
<1>7. c # None => c \in Content /\ c \in past
  BY <1>2 DEF OutcomeInv, ObjectInv
<1>8. c = None => object = None
  BY <1>2 DEF OutcomeInv, ObjectInv
<1> HIDE DEF c, r, h
<1>9. \A g : Evaluated(g)' => Evaluated(g) \/ g = h
  BY <1>4 DEF Evaluated, Identity, h
<1>10. \A g : StoredHash(g)' <=> g = h
  BY <1>4 DEF StoredHash
<1>11. \A e : Superseded(e)' <=> object # e
  BY <1>3 DEF Superseded
<1>12. ObjectInv'
  BY <1>3 DEF OutcomeInv, ObjectInv
<1>13. EvaluatedInv'
  <2>1. ASSUME NEW e \in Content, e # c, Evaluated(Live(e))' \/ Evaluated(Quiet(e))'
        PROVE  e \in past /\ object # e
    <3>1. Live(e) # h /\ Quiet(e) # h
      BY <1>6, <2>1, HashesDiffer, Zenon
    <3>2. Evaluated(Live(e)) \/ Evaluated(Quiet(e))
      BY <1>9, <2>1, <3>1
    <3> QED
      BY <1>2, <2>1, <3>2, Zenon DEF OutcomeInv, EvaluatedInv, c
  <2>2. ASSUME NEW e \in Content, e = c, Evaluated(Live(e))' \/ Evaluated(Quiet(e))'
        PROVE  e \in past /\ (StoredHash(Live(e))' \/ StoredHash(Quiet(e))')
    BY <1>6, <1>7, <1>10, <2>2, ReconcilerAssumption
  <2>3. ASSUME NEW e \in Content, e = c, Evaluated(Quiet(e))' PROVE StoredHash(Quiet(e))'
    <3>1. ~Evaluated(Quiet(e))
      <4>1. c # None /\ ~StoredHash(Quiet(e)) /\ ~Superseded(e)
        BY <1>1, <1>2, <1>5, <2>3, ReconcilerAssumption DEF Superseded, c
      <4> QED
        BY <4>1 DEF OutcomeInv, EvaluatedInv
    <3> QED
      BY <1>9, <1>10, <2>3, <3>1
  <2>4. Evaluated(Deleted)' => StoredHash(Deleted)' /\ object' = None
    <3>1. CASE h = Deleted
      BY <1>6, <1>8, <1>10, <3>1, HashesDiffer
    <3>2. CASE h # Deleted
      <4>1. c # None
        BY <1>6, <3>2
      <4>2. ~Evaluated(Deleted)
        BY <1>2, <4>1, Zenon DEF OutcomeInv, EvaluatedInv, c
      <4> QED
        BY <1>9, <3>2, <4>2
    <3> QED
      BY <3>1, <3>2
  <2>5. \A e \in Content : Evaluated(Live(e))' \/ Evaluated(Quiet(e))' =>
           /\ e \in past'
           /\ StoredHash(Live(e))' \/ StoredHash(Quiet(e))' \/ Superseded(e)'
    BY <1>11, <2>1, <2>2
  <2>6. \A e \in Content : Evaluated(Quiet(e))' => StoredHash(Quiet(e))' \/ Superseded(e)'
    BY <1>11, <2>1, <2>3
  <2> QED
    BY <1>3, <2>1, <2>2, <2>4, <2>5, <2>6, Zenon DEF EvaluatedInv
<1>14. IncidentInv'
  <2>1. ASSUME NEW e \in Content, StoredHash(Live(e))'
        PROVE  incident'.status = LiveStatus(e)
    <3>1. e = c /\ ~(r = "recovered" /\ IsEvent) /\ c # None
      BY <1>6, <1>10, <2>1, HashesDiffer
    <3> QED
      BY <1>4, <1>5, <3>1 DEF statusFor, isRecovery, LiveStatus
  <2>2. ASSUME NEW e \in Content, StoredHash(Quiet(e))'
        PROVE  /\ e \in past /\ incident'.status = "resolved" /\ Finding[e] \in {"warning", "healthy"}
               /\ Finding[e] = "warning" => (object = e => elapsed)
    <3>1. e = c /\ r = "recovered" /\ c # None
      BY <1>6, <1>10, <2>2, HashesDiffer
    <3> QED
      BY <1>4, <1>5, <1>7, <3>1 DEF statusFor, isRecovery
  <2>3. StoredHash(Deleted)' => incident'.status = "resolved"
    <3>1. StoredHash(Deleted)' => c = None
      BY <1>6, <1>10, HashesDiffer
    <3> QED
      BY <1>4, <1>5, <3>1 DEF statusFor, isRecovery
  <2>4. incident'.status = "suppressed" => \E e \in Content : Finding[e] = "ignored"
    <3>1. incident'.status = "suppressed" => r = "suppress"
      BY <1>4 DEF statusFor, isRecovery
    <3> QED
      BY <1>5, <1>7, <3>1
  <2> QED
    BY <1>3, <2>1, <2>2, <2>3, <2>4 DEF IncidentInv, LiveStatus
<1>15. PendingInv'
  BY <1>3 DEF PendingInv
<1> QED
  BY <1>12, <1>13, <1>14, <1>15, Zenon DEF OutcomeInv

\* Every step preserves the order of evaluations and what it says of the incident.
LEMMA OutcomeNext ==
    ASSUME OneObject, Inv, OutcomeInv, [Next]_vars
    PROVE  OutcomeInv'
<1>0. TypeOK /\ StoreInv /\ \A p \in Process : WorkInv(p)
  BY DEF Inv
<1>1. CASE ClusterStep
  BY <1>0, <1>1, ClusterKeepsOutcome
<1>2. ASSUME NEW p \in Process,
             \/ Get(p) \/ TimerFires(p) \/ Sweep(p) \/ Restart(p)
             \/ CallFails(p) \/ Crash(p) \/ CommitExists(p) \/ CommitConflict(p)
      PROVE  OutcomeInv'
  <2>1. UNCHANGED <<object, elapsed, past, incident, evaluations>>
    BY <1>2, Zenon DEF Get, TimerFires, Sweep, Restart, CallFails, Crash, CommitExists, CommitConflict, cluster, store
  <2>2. \A q \in Process : (pc'[q] = pc[q] /\ work'[q] = work[q]) \/ pc'[q] \in {"idle", "resolve"}
    BY <1>0, <1>2, Zenon DEF Get, TimerFires, Sweep, Restart, CallFails, Crash, CommitExists, CommitConflict, Succeed, Fail, TypeOK
  <2> QED
    BY <2>1, <2>2, Released, Zenon
<1>3. ASSUME NEW p \in Process, Resolve(p) PROVE OutcomeInv'
  BY <1>0, <1>3, ResolveKeepsOutcome
<1>4. ASSUME NEW p \in Process, GetIncident(p) PROVE OutcomeInv'
  <2>1. PICK d \in DueNow(p) : LET r == RuleResult(p, d) IN
           IF NothingToDo(work[p].object, r, incident)
             THEN Succeed(p, r)
             ELSE Continue(p, IF incident = None THEN "upsert" ELSE "snapshot",
                           [work[p] EXCEPT !.clock = "due", !.previous = incident, !.result = r])
    BY <1>4, Zenon DEF GetIncident
  <2> DEFINE r == RuleResult(p, d)
  <2>2. pc[p] = "get" /\ UNCHANGED <<object, elapsed, past, incident, evaluations>>
    BY <1>4 DEF GetIncident, cluster, store
  <2>3. CASE NothingToDo(work[p].object, r, incident)
    <3>1. \A q \in Process : (pc'[q] = pc[q] /\ work'[q] = work[q]) \/ pc'[q] \in {"idle", "resolve"}
      BY <1>0, <2>1, <2>3 DEF Succeed, TypeOK
    <3> QED
      BY <2>2, <3>1, Released, Zenon
  <2>4. CASE ~NothingToDo(work[p].object, r, incident)
    <3> DEFINE w == [work[p] EXCEPT !.clock = "due", !.previous = incident, !.result = r]
    <3>1. work[p] \in Work
      BY <1>0 DEF TypeOK
    <3>2. w.object = work[p].object /\ w.result = r
      <4> HIDE DEF r
      <4> QED
        BY <3>1 DEF Work
    <3>3. work'[p] = w /\ pc'[p] \in {"upsert", "snapshot"}
      BY <1>0, <2>1, <2>4 DEF Continue, TypeOK
    <3> DEFINE c == work[p].object
    <3>4. Fits(c, r)
      BY <1>0, <2>2, <2>4, RulesFindNew, Zenon
    <3>5. Holds(p) /\ PastRules(p)'
      BY <2>2, <3>3 DEF Holds, PastRules
    <3>6. work'[p].object = c /\ work'[p].result = r
      BY <3>2, <3>3
    <3> HIDE DEF c, r, w
    <3> QED
      BY <1>0, <2>2, <3>4, <3>5, <3>6, Advanced, Zenon DEF c
  <2> QED
    BY <2>3, <2>4
<1>5. ASSUME NEW p \in Process, UpsertIncident(p) \/ RereadIncident(p) \/ UpsertSnapshot(p) PROVE OutcomeInv'
  <2>1. UNCHANGED <<object, elapsed, past, evaluations>> /\ Holds(p) /\ PastRules(p) /\ work[p] \in Work
    BY <1>0, <1>5 DEF UpsertIncident, RereadIncident, UpsertSnapshot, cluster, store, Holds, PastRules, TypeOK
  <2>2. \/ incident' = incident
        \/ incident = None /\ incident' # None /\ incident'.hash = Empty /\ incident'.status = "open"
    <3>1. [status |-> "open", hash |-> Empty, version |-> 1] \in Incidents
      BY DEF Incidents, Statuses, Hash
    <3> QED
      BY <1>5, <3>1, NoneAssumption DEF UpsertIncident, RereadIncident, UpsertSnapshot, store
  <2>3. CASE RereadIncident(p) /\ pc'[p] = "idle"
    <3>1. \A q \in Process : (pc'[q] = pc[q] /\ work'[q] = work[q]) \/ pc'[q] \in {"idle", "resolve"}
      BY <2>3 DEF OneObject
    <3>2. incident' = incident
      BY <2>3 DEF RereadIncident, store
    <3> QED
      BY <2>1, <3>1, <3>2, Released
  <2>4. CASE ~(RereadIncident(p) /\ pc'[p] = "idle")
    <3>1. PastRules(p)' /\ work'[p].object = work[p].object /\ work'[p].result = work[p].result
      <4>1. CASE UpsertIncident(p)
        BY <1>0, <2>1, <4>1 DEF UpsertIncident, Continue, PastRules, TypeOK, Work
      <4>2. CASE UpsertSnapshot(p)
        BY <1>0, <4>2 DEF UpsertSnapshot, Continue, PastRules, TypeOK
      <4>3. CASE RereadIncident(p)
        <5>1. pc[p] = "reread" /\ Continue(p, "snapshot", [work[p] EXCEPT !.previous = incident])
          BY <1>0, <2>4, <4>3 DEF RereadIncident, Succeed, TypeOK
        <5> QED
          BY <1>0, <2>1, <5>1 DEF Continue, PastRules, TypeOK, Work
      <4> QED
        BY <1>5, <4>1, <4>2, <4>3, Zenon
    <3> DEFINE c == work[p].object
               r == work[p].result
    <3>2. Fits(c, r)
      BY <2>1, Zenon DEF OutcomeInv, PendingInv
    <3> QED
      BY <1>0, <2>1, <2>2, <3>1, <3>2, Advanced, Zenon
  <2> QED
    BY <2>3, <2>4
<1>6. ASSUME NEW p \in Process, Commit(p) \/ CommitUnknown(p) PROVE OutcomeInv'
  <2>1. pc[p] = "commit" /\ Apply(p) /\ pc'[p] = "idle" /\ UNCHANGED <<object, elapsed, past>>
    BY <1>0, <1>6 DEF Commit, CommitUnknown, Succeed, Fail, TypeOK, cluster
  <2> QED
    BY <1>0, <2>1, CommitKeepsOutcome
<1>7. CASE UNCHANGED vars
  <2>1. UNCHANGED <<object, elapsed, past, incident, evaluations>> /\ pc' = pc /\ work' = work
    BY <1>7 DEF vars, cluster, store
  <2> QED
    BY <2>1, Released
<1> QED
  BY <1>1, <1>2, <1>3, <1>4, <1>5, <1>6, <1>7 DEF Next, ReconcileStep

\* The states in which nothing has been evaluated.
LEMMA OutcomeInit ==
    Init => OutcomeInv
<1> SUFFICES ASSUME Init PROVE OutcomeInv
  OBVIOUS
<1>1. \A p \in Process : ~Holds(p) /\ ~PastRules(p) /\ pc[p] # "get"
  BY DEF Init, Holds, PastRules
<1>2. \A h : ~Evaluated(h) /\ ~StoredHash(h)
  BY DEF Init, Evaluated, StoredHash
<1>3. object \in past /\ incident = None
  BY DEF Init
<1> QED
  BY <1>1, <1>2, <1>3, Zenon DEF OutcomeInv, ObjectInv, EvaluatedInv, IncidentInv, PendingInv

\* One process stores what it finds: every reconciliation of an Event or a Job
\* that returns nil leaves the incident in the state its rule result calls for,
\* through failed calls, lost answers and crashes, as long as the object does not
\* flap (Reconcile's early returns, persist, the identity check of Commit).
THEOREM OutcomesAreStored ==
    ASSUME OneObject
    PROVE  Spec => OutcomeIsStored
<1> DEFINE A == \A p \in Process :
                   /\ pc[p] # "idle" /\ pc'[p] = "idle"
                   /\ work'[p].result # "no_match" /\ incident' # None
                   => incident'.status = statusFor(work'[p].result)
<1>1. Init => OutcomeInv
  BY OutcomeInit
<1>2. Inv /\ OutcomeInv /\ [Next]_vars => OutcomeInv'
  BY OutcomeNext
<1>3. Inv /\ OutcomeInv /\ [Next]_vars => [A]_vars
  <2> SUFFICES ASSUME Inv, OutcomeInv, Next, NEW p \in Process,
                      pc[p] # "idle", pc'[p] = "idle", work'[p].result # "no_match", incident' # None
               PROVE  incident'.status = statusFor(work'[p].result)
    OBVIOUS
  <2>0. TypeOK /\ WorkInv(p) /\ \A q \in Process : q = p
    BY DEF Inv, OneObject
  <2>1. GetIncident(p) \/ RereadIncident(p) \/ Commit(p) \/ CommitExists(p)
    <3>1. ~ClusterStep
      BY Zenon DEF ClusterStep, Change, Restamp, Touch, Delete, Elapse
    <3>2. ~(Get(p) \/ TimerFires(p) \/ Sweep(p) \/ Restart(p))
      BY <2>0 DEF Get, TimerFires, Sweep, Restart, TypeOK
    <3>3. ~(CallFails(p) \/ Crash(p) \/ CommitUnknown(p) \/ CommitConflict(p))
      BY <2>0 DEF CallFails, Crash, CommitUnknown, CommitConflict, Fail, Finished, TypeOK
    <3>4. ~(Resolve(p) \/ UpsertIncident(p) \/ UpsertSnapshot(p))
      BY <2>0 DEF Resolve, UpsertIncident, UpsertSnapshot, Continue, TypeOK
    <3> QED
      BY <2>0, <3>1, <3>2, <3>3, <3>4, Zenon DEF Next, ReconcileStep
  <2>2. CASE GetIncident(p)
    <3>1. PICK d \in DueNow(p) : LET r == RuleResult(p, d) IN
             IF NothingToDo(work[p].object, r, incident)
               THEN Succeed(p, r)
               ELSE Continue(p, IF incident = None THEN "upsert" ELSE "snapshot",
                             [work[p] EXCEPT !.clock = "due", !.previous = incident, !.result = r])
      BY <2>2, Zenon DEF GetIncident
    <3> DEFINE r == RuleResult(p, d)
               c == work[p].object
    <3>2. NothingToDo(c, r, incident) /\ Succeed(p, r)
      BY <2>0, <3>1 DEF Continue, TypeOK
    <3>3. work'[p].result = r /\ incident' = incident
      BY <2>0, <2>2, <3>2 DEF Succeed, Finished, TypeOK, GetIncident, store
    <3>4. r \in Results /\ (c = None <=> r = "deleted") /\ c \in Content \cup {None}
      BY <2>0, RuleResultType, Zenon DEF TypeOK, Work
    <3>5. CASE r = "deleted"
      BY <3>2, <3>3, <3>5 DEF NothingToDo, statusFor, isRecovery
    <3>6. CASE r # "deleted"
      <4>1. c \in Content /\ r = Evaluate(c, d, incident)
        BY <3>4, <3>6, Zenon DEF RuleResult
      <4>2. /\ r = "suppress" <=> Finding[c] = "ignored"
            /\ Finding[c] = "healthy" => r \in {"recovered", "no_match"}
        <5>1. ASSUME NEW v \in Content
              PROVE  /\ Evaluate(v, d, incident) = "suppress" <=> Finding[v] = "ignored"
                     /\ Finding[v] = "healthy" => Evaluate(v, d, incident) \in {"recovered", "no_match"}
          BY RuleResults, Zenon
        <5> HIDE DEF r, c
        <5> QED
          BY <4>1, <5>1, Zenon
      <4>3. r \in {"suppress", "terminal", "semantic"} /\ StoredHash(Live(c))
        BY <3>2, <3>3, <3>4, <3>6 DEF NothingToDo, isRecovery, Results, SnapshotHash, StoredHash
      <4> HIDE DEF r, c
      <4>4. Finding[c] # "healthy"
        BY <4>2, <4>3
      <4> QED
        BY <3>3, <4>1, <4>2, <4>3, <4>4, StoredStatus, Zenon
    <3> QED
      BY <3>5, <3>6
  <2>3. CASE RereadIncident(p)
    <3> DEFINE r == work[p].result
               c == work[p].object
    <3>1. /\ ~isRecovery(r) /\ incident.hash = SnapshotHash(c, r) /\ Succeed(p, r) /\ pc[p] = "reread"
          /\ incident' = incident
      BY <2>0, <2>3 DEF RereadIncident, Continue, TypeOK, store
    <3>2. work'[p].result = r
      BY <2>0, <3>1 DEF Succeed, Finished, TypeOK
    <3>3. /\ c = None <=> r = "deleted"
          /\ c # None => /\ r = "suppress" <=> Finding[c] = "ignored"
                         /\ ~IsEvent => (r = "recovered" <=> Finding[c] = "healthy")
      BY <3>1, Zenon DEF OutcomeInv, PendingInv, Fits, PastRules
    <3>4. r \in Results /\ c \in Content \cup {None}
      BY <2>0, Zenon DEF TypeOK, Work
    <3>5. r \in {"suppress", "terminal", "semantic"} /\ StoredHash(Live(c)) /\ c \in Content
      BY <3>1, <3>2, <3>3, <3>4 DEF isRecovery, Results, SnapshotHash, StoredHash
    <3>6. c # None /\ (~IsEvent => Finding[c] # "healthy")
      BY <3>3, <3>5, ReconcilerAssumption
    <3> QED
      BY <3>1, <3>2, <3>3, <3>5, <3>6, StoredStatus, Zenon
  <2>4. CASE Commit(p)
    BY <2>0, <2>4 DEF Commit, Apply, Write, Succeed, Finished, TypeOK
  <2>5. CASE CommitExists(p)
    BY <2>5, Zenon DEF CommitExists, OutcomeInv, PendingInv, Fits, PastRules
  <2> QED
    BY <2>1, <2>2, <2>3, <2>4, <2>5, Zenon
<1> QED
  BY <1>1, <1>2, <1>3, Invariance, PTL DEF Spec, OutcomeIsStored

=============================================================================
