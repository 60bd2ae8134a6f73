---------------------------- MODULE MissedProofs ----------------------------
(***************************************************************************)
(* Proofs that no change of the object is missed, for an object as in      *)
(* OutcomeProofs: the safety behind the agreement of object and incident.  *)
(***************************************************************************)
EXTENDS OutcomeProofs

\* A process that is down reconciles nothing, and a reconciliation whose key is
\* not queued again holds the current object.
CurrentInv ==
    \A p \in Process :
        /\ pc[p] # "idle" => up[p]
        /\ Holds(p) /\ ~queued[p] => work[p].object = object

\* What NothingIsMissed asks of a key that is at rest.
Settled == Agrees \/ (IsOpen /\ (IsEvent \/ object = None))

\* How the rules' verdict on the object may change while nothing is queued: time
\* passes, and a warning that is open is no longer one.
LEMMA ElapseSettles ==
    ASSUME OneObject, TypeOK, Agrees, Elapse
    PROVE  Settled'
<1>1. object' = object /\ incident' = incident /\ elapsed' = TRUE /\ elapsed = FALSE /\ object \in Content
  BY DEF Elapse, store, TypeOK
<1>2. IsOpen' <=> IsOpen
  BY <1>1 DEF IsOpen
<1>3. CASE Finding[object] = "ignored"
  BY <1>1, <1>3, Zenon DEF Agrees, Settled
<1>4. CASE Finding[object] # "ignored"
  <2>1. object # None
    BY <1>1, ReconcilerAssumption
  <2>2. IsOpen = Matches(object, elapsed)
    BY <1>4, <2>1 DEF Agrees
  <2>3. /\ Matches(object, TRUE) => Matches(object, elapsed)
        /\ ~IsEvent => (Matches(object, elapsed) => Matches(object, TRUE))
    BY <1>1, ReconcilerAssumption DEF Matches, failedJob, agedFailure, warningEvent, eventIsQuiet, OneObject
  <2>4. CASE IsOpen /\ IsEvent
    BY <1>2, <2>4 DEF Settled
  <2>5. CASE ~(IsOpen /\ IsEvent)
    <3>1. IsOpen <=> Matches(object, TRUE)
      BY <2>2, <2>3, <2>5, Zenon
    <3>2. Agrees'
      BY <1>1, <1>2, <1>4, <2>1, <3>1 DEF Agrees, Matches, failedJob, agedFailure, warningEvent, eventIsQuiet, IsOpen
    <3> QED
      BY <3>2 DEF Settled
  <2> QED
    BY <2>4, <2>5
<1> QED
  BY <1>3, <1>4

\* The states in which a key is at rest.
LEMMA SettledWhen ==
    ASSUME \/ object' = None
           \/ object' \in Content /\ Finding[object'] = "ignored" /\ incident' # None /\ incident'.status = "suppressed"
           \/ object' \in Content /\ Finding[object'] # "ignored" /\ ~Matches(object', elapsed') /\ ~IsOpen'
           \/ object' \in Content /\ Finding[object'] # "ignored" /\ Matches(object', elapsed') /\ IsOpen'
           \/ IsEvent /\ IsOpen'
    PROVE  Settled'
<1>1. CASE IsEvent /\ IsOpen'
  BY <1>1 DEF Settled
<1>2. CASE object' = None
  <2>1. CASE IsOpen'
    BY <1>2, <2>1 DEF Settled
  <2>2. CASE ~IsOpen'
    BY <1>2, <2>2 DEF Settled, Agrees
  <2> QED
    BY <2>1, <2>2
<1>3. CASE object' \in Content /\ Finding[object'] = "ignored" /\ incident' # None /\ incident'.status = "suppressed"
  BY <1>3, ReconcilerAssumption DEF Agrees, Settled
<1>4. CASE object' \in Content /\ Finding[object'] # "ignored" /\ ~Matches(object', elapsed') /\ ~IsOpen'
  BY <1>4, ReconcilerAssumption DEF Agrees, Settled, IsOpen, Matches, failedJob, agedFailure, warningEvent, eventIsQuiet
<1>5. CASE object' \in Content /\ Finding[object'] # "ignored" /\ Matches(object', elapsed') /\ IsOpen'
  BY <1>5, ReconcilerAssumption DEF Agrees, Settled, IsOpen, Matches, failedJob, agedFailure, warningEvent, eventIsQuiet
<1> QED
  BY <1>1, <1>2, <1>3, <1>4, <1>5

\* Every step keeps a reconciliation current or its key queued.
LEMMA CurrentNext ==
    ASSUME OneObject, Inv, CurrentInv, [Next]_vars
    PROVE  CurrentInv'
<1>0. TypeOK
  BY DEF Inv
<1>1. CASE ClusterStep
  <2>1. pc' = pc /\ up' = up
    BY <1>1, Zenon DEF ClusterStep, Change, Restamp, Touch, Delete, Elapse, cluster
  <2>2. CASE Elapse \/ UNCHANGED <<object, work, queued>>
    BY <2>1, <2>2 DEF Elapse, CurrentInv, Holds
  <2>3. CASE Notify
    <3>1. \A q \in Process : Holds(q)' => queued'[q]
      BY <2>1, <2>3, Zenon DEF Notify, CurrentInv, Holds
    <3> QED
      BY <2>1, <3>1 DEF CurrentInv
  <2> QED
    BY <1>1, <2>2, <2>3, Zenon DEF ClusterStep, Change, Restamp, Touch, Delete
<1>2. ASSUME NEW p \in Process, Get(p) \/ TimerFires(p) \/ Sweep(p) \/ Restart(p) PROVE CurrentInv'
  <2>1. \A q \in Process : q = p
    BY DEF OneObject
  <2>2. CASE Get(p)
    BY <1>0, <2>1, <2>2 DEF Get, CurrentInv, Holds, TypeOK
  <2>3. CASE TimerFires(p) \/ Sweep(p)
    BY <1>0, <2>1, <2>3, Zenon DEF TimerFires, Sweep, CurrentInv, TypeOK
  <2>4. CASE Restart(p)
    BY <1>0, <2>1, <2>4 DEF Restart, CurrentInv, Holds, TypeOK
  <2> QED
    BY <1>2, <2>2, <2>3, <2>4
<1>3. ASSUME NEW p \in Process, pc'[p] = "idle" PROVE CurrentInv'
  BY <1>3 DEF CurrentInv, Holds, OneObject
<1>4. ASSUME NEW p \in Process, Resolve(p) PROVE CurrentInv'
  <2>1. work'[p].object = object /\ object' = object /\ up' = up /\ pc[p] = "resolve"
    BY <1>0, <1>4 DEF Resolve, Continue, Finished, TypeOK, cluster
  <2> QED
    BY <2>1 DEF CurrentInv, OneObject
<1>5. ASSUME NEW p \in Process, NEW step, NEW w, Continue(p, step, w), w.object = work[p].object, Holds(p),
             UNCHANGED <<object, up>>
      PROVE  CurrentInv'
  <2>1. work'[p].object = work[p].object /\ queued' = queued /\ pc[p] # "idle"
    BY <1>0, <1>5 DEF Continue, TypeOK, Holds
  <2> QED
    BY <1>5, <2>1 DEF CurrentInv, OneObject
<1>6. ASSUME NEW p \in Process, GetIncident(p) \/ UpsertIncident(p) \/ RereadIncident(p) \/ UpsertSnapshot(p)
      PROVE  CurrentInv'
  <2>1. Holds(p) /\ UNCHANGED <<object, up>> /\ work[p] \in Work
    BY <1>0, <1>6, Zenon DEF GetIncident, UpsertIncident, RereadIncident, UpsertSnapshot, Holds, cluster, TypeOK
  <2>2. CASE pc'[p] = "idle"
    BY <1>3, <2>2
  <2>3. CASE pc'[p] # "idle"
    <3>1. CASE GetIncident(p)
      <4>1. PICK r, step : \/ Succeed(p, r)
                           \/ Continue(p, step, [work[p] EXCEPT !.clock = "due", !.previous = incident, !.result = r])
        BY <3>1, Zenon DEF GetIncident
      <4>2. Continue(p, step, [work[p] EXCEPT !.clock = "due", !.previous = incident, !.result = r])
        BY <1>0, <2>3, <4>1 DEF Succeed, TypeOK
      <4>3. [work[p] EXCEPT !.clock = "due", !.previous = incident, !.result = r].object = work[p].object
        BY <2>1 DEF Work
      <4> QED
        BY <1>5, <2>1, <4>2, <4>3, Zenon
    <3>2. CASE UpsertIncident(p)
      <4>1. [work[p] EXCEPT !.created = (incident = None)].object = work[p].object
        BY <2>1 DEF Work
      <4> QED
        BY <1>5, <2>1, <3>2, <4>1, Zenon DEF UpsertIncident
    <3>3. CASE RereadIncident(p)
      <4>1. [work[p] EXCEPT !.previous = incident].object = work[p].object
        BY <2>1 DEF Work
      <4>2. Continue(p, "snapshot", [work[p] EXCEPT !.previous = incident])
        BY <1>0, <2>3, <3>3 DEF RereadIncident, Succeed, TypeOK
      <4> QED
        BY <1>5, <2>1, <4>1, <4>2, Zenon
    <3>4. CASE UpsertSnapshot(p)
      BY <1>5, <2>1, <3>4 DEF UpsertSnapshot
    <3> QED
      BY <1>6, <3>1, <3>2, <3>3, <3>4
  <2> QED
    BY <2>2, <2>3
<1>7. ASSUME NEW p \in Process,
             CallFails(p) \/ Crash(p) \/ Commit(p) \/ CommitUnknown(p) \/ CommitExists(p) \/ CommitConflict(p)
      PROVE  CurrentInv'
  <2>1. pc'[p] = "idle"
    BY <1>0, <1>7, Zenon DEF CallFails, Crash, Commit, CommitUnknown, CommitExists, CommitConflict, Succeed, Fail, TypeOK
  <2> QED
    BY <1>3, <2>1
<1>8. CASE UNCHANGED vars
  BY <1>8, Zenon DEF vars, cluster, CurrentInv, Holds
<1> QED
  BY <1>1, <1>2, <1>4, <1>6, <1>7, <1>8 DEF Next, ReconcileStep

\* A reconciliation that returns nil leaves no work behind.
LEMMA ReturnsSettled ==
    ASSUME OneObject, Inv, OutcomeInv, CurrentInv, NEW p \in Process,
           GetIncident(p) \/ RereadIncident(p) \/ Commit(p) \/ CommitExists(p),
           pc'[p] = "idle", ~queued'[p]
    PROVE  Settled'
<1> DEFINE c == work[p].object
<1>0. TypeOK /\ WorkInv(p) /\ work[p] \in Work /\ c \in Content \cup {None}
  BY Zenon DEF Inv, TypeOK, Work
<1>1. Holds(p) /\ UNCHANGED <<object, elapsed>>
  BY Zenon DEF GetIncident, RereadIncident, Commit, CommitExists, Holds, cluster
<1>2. queued' = queued
  <2>1. CASE GetIncident(p)
    BY <2>1, Zenon DEF GetIncident, Succeed, Continue
  <2>2. CASE RereadIncident(p)
    BY <2>2 DEF RereadIncident, Succeed, Continue
  <2>3. CASE Commit(p) \/ CommitExists(p)
    BY <2>3 DEF Commit, CommitExists, Succeed
  <2> QED
    BY <2>1, <2>2, <2>3, Zenon
<1>3. object' = c /\ object = c
  BY <1>1, <1>2, Zenon DEF CurrentInv
<1>4. ASSUME NEW r \in Results, c # None,
             r = "suppress" <=> Finding[c] = "ignored",
             r = "recovered" => Finding[c] \in {"warning", "healthy"} /\ (Finding[c] = "warning" => elapsed),
             ~IsEvent => (r = "recovered" <=> Finding[c] = "healthy"),
             r # "deleted", incident' # None, incident'.status = statusFor(r)
      PROVE  Settled'
  <2>0. c \in Content
    BY <1>0, <1>4, Zenon
  <2>1. CASE r = "suppress"
    <3>1. incident'.status = "suppressed" /\ Finding[c] = "ignored"
      BY <1>4, <2>1 DEF statusFor, isRecovery
    <3> QED
      BY <1>3, <1>4, <2>0, <3>1, SettledWhen, Zenon
  <2>2. CASE r = "recovered"
    <3>1. ~Matches(c, elapsed') /\ Finding[c] # "ignored"
      BY <1>1, <1>4, <2>2, Zenon DEF Matches, failedJob, agedFailure, warningEvent, eventIsQuiet
    <3>2. ~IsOpen'
      BY <1>4, <2>2 DEF IsOpen, statusFor, isRecovery
    <3> QED
      BY <1>3, <2>0, <3>1, <3>2, SettledWhen
  <2>3. CASE r \notin {"suppress", "recovered"}
    <3>1. IsOpen'
      BY <1>4, <2>3 DEF IsOpen, statusFor, isRecovery
    <3>2. CASE IsEvent
      BY <3>1, <3>2, SettledWhen
    <3>3. CASE ~IsEvent
      <4>1. Finding[c] = "failing"
        BY <1>4, <2>0, <2>3, <3>3, ReconcilerAssumption, Zenon DEF OneObject, FindingKind
      <4>2. Matches(c, elapsed')
        BY <4>1 DEF Matches, failedJob
      <4> QED
        BY <1>3, <2>0, <3>1, <4>1, <4>2, SettledWhen
    <3> QED
      BY <3>2, <3>3
  <2> QED
    BY <2>1, <2>2, <2>3, Zenon
<1>5. CASE c = None
  BY <1>3, <1>5, SettledWhen, Zenon
<1>6. CASE c # None /\ GetIncident(p)
  <2>1. PICK d \in DueNow(p) : LET r == RuleResult(p, d) IN
           IF NothingToDo(work[p].object, r, incident)
             THEN Succeed(p, r)
             ELSE Continue(p, IF incident = None THEN "upsert" ELSE "snapshot",
                           [work[p] EXCEPT !.clock = "due", !.previous = incident, !.result = r])
    BY <1>6, Zenon DEF GetIncident
  <2> DEFINE r == RuleResult(p, d)
  <2>2. NothingToDo(c, r, incident) /\ incident' = incident
    BY <1>0, <1>6, <2>1, Zenon DEF Continue, TypeOK, GetIncident, store
  <2>3. r \in Results /\ r # "deleted" /\ c \in Content /\ r = Evaluate(c, d, incident)
    BY <1>0, <1>6, RuleResultType, Zenon DEF RuleResult
  <2>4. /\ r = "suppress" <=> Finding[c] = "ignored"
        /\ r \in {"recovered", "no_match"} <=> Finding[c] = "healthy" \/ (Finding[c] = "warning" /\ d)
        /\ r = "no_match" => ~recovered(incident)
    <3> HIDE DEF r, c
    <3> QED
      BY <2>3, RuleResults, Zenon
  <2>5. CASE r = "no_match"
    <3>1. Finding[c] = "warning" => elapsed
      <4> SUFFICES ASSUME Finding[c] = "warning" PROVE elapsed
        OBVIOUS
      <4>1. d
        BY <2>4, <2>5
      <4>2. work[p].clock \in {"due", "pending"}
        BY <1>0, <1>3, <1>6, Zenon DEF OutcomeInv, ObjectInv, GetIncident, Work
      <4> QED
        BY <1>3, <1>6, <4>1, <4>2, Zenon DEF DueNow, OutcomeInv, ObjectInv, GetIncident
    <3>2. ~Matches(c, elapsed') /\ Finding[c] # "ignored"
      BY <1>1, <2>4, <2>5, <3>1, Zenon DEF Matches, failedJob, agedFailure, warningEvent, eventIsQuiet
    <3>3. ~IsOpen'
      BY <2>2, <2>4, <2>5, Zenon DEF recovered, IsOpen
    <3> HIDE DEF r, c
    <3> QED
      BY <1>3, <2>3, <3>2, <3>3, SettledWhen
  <2>6. CASE r # "no_match"
    <3>1. r \in {"suppress", "terminal", "semantic"} /\ StoredHash(Live(c))
      BY <2>2, <2>3, <2>6 DEF NothingToDo, isRecovery, Results, SnapshotHash, StoredHash
    <3> HIDE DEF r, c
    <3>2. Finding[c] # "healthy" /\ r # "recovered"
      BY <2>4, <3>1
    <3>3. incident # None /\ incident.status = statusFor(r)
      BY <2>3, <2>4, <3>1, <3>2, StoredStatus, Zenon DEF StoredHash
    <3> QED
      BY <1>4, <1>6, <2>2, <2>3, <2>4, <3>2, <3>3, Zenon
  <2> QED
    BY <2>5, <2>6
<1>7. CASE c # None /\ ~GetIncident(p)
  <2> DEFINE r == work[p].result
  <2>1. PastRules(p)
    BY <1>7 DEF RereadIncident, Commit, CommitExists, PastRules
  <2>2. /\ Identity(c, r) \notin evaluations /\ r # "deleted" /\ r \in Results
        /\ r = "suppress" <=> Finding[c] = "ignored"
        /\ r = "recovered" => Finding[c] \in {"warning", "healthy"} /\ (Finding[c] = "warning" => elapsed)
        /\ ~IsEvent => (r = "recovered" <=> Finding[c] = "healthy")
    BY <1>0, <1>3, <1>7, <2>1, Zenon DEF OutcomeInv, PendingInv, Fits, Work
  <2>3. CASE RereadIncident(p)
    <3>1. ~isRecovery(r) /\ incident.hash = SnapshotHash(c, r) /\ pc[p] = "reread" /\ incident' = incident
      BY <1>0, <2>3 DEF RereadIncident, Continue, TypeOK, store
    <3>2. StoredHash(Live(c)) /\ c \in Content
      BY <1>0, <1>7, <3>1 DEF isRecovery, SnapshotHash, StoredHash, WorkInv
    <3>3. incident # None /\ r \in {"suppress", "terminal", "semantic", "no_match"}
      BY <2>2, <3>1, <3>2, Zenon DEF StoredHash, isRecovery, Results
    <3>4. incident.status = statusFor(r)
      BY <2>2, <3>2, <3>3, StoredStatus
    <3> QED
      BY <1>4, <1>7, <2>2, <3>1, <3>3, <3>4, Zenon
  <2>4. CASE Commit(p)
    <3>1. incident' # None /\ incident'.status = statusFor(r)
      BY <1>0, <2>4, ApplyTypes, NoneAssumption, Zenon DEF Commit, Apply, Write
    <3> QED
      BY <1>4, <1>7, <2>2, <3>1, Zenon
  <2>5. CASE CommitExists(p)
    BY <2>2, <2>5, Zenon DEF CommitExists
  <2> QED
    BY <1>7, <2>3, <2>4, <2>5, Zenon
<1> QED
  BY <1>5, <1>6, <1>7

\* Every step leaves the incident in agreement, open, or its key on the way.
LEMMA MissedNext ==
    ASSUME OneObject, Inv, OutcomeInv, CurrentInv, NothingIsMissed, [Next]_vars
    PROVE  NothingIsMissed'
<1>0. TypeOK
  BY DEF Inv
<1> SUFFICES ASSUME NEW p \in Process, up'[p], pc'[p] = "idle", ~queued'[p]
             PROVE  Settled'
  BY Zenon DEF NothingIsMissed, Settled
<1>1. \A q \in Process : q = p
  BY Zenon DEF OneObject
<1>2. CASE ClusterStep
  <2>1. ~Notify
    BY <1>2, Zenon DEF Notify, ClusterStep, Change, Restamp, Touch, Delete, Elapse, cluster
  <2>2. Elapse
    BY <1>2, <2>1, Zenon DEF ClusterStep, Change, Restamp, Touch, Delete
  <2>3. Settled
    BY <2>2, Zenon DEF Elapse, NothingIsMissed, Settled
  <2>4. object # None /\ (IsOpen => IsOpen')
    BY <2>2 DEF Elapse, IsOpen, store
  <2>5. CASE Agrees
    BY <1>0, <2>2, <2>5, ElapseSettles
  <2>6. CASE IsOpen /\ IsEvent
    BY <2>4, <2>6 DEF Settled
  <2> QED
    BY <2>3, <2>4, <2>5, <2>6 DEF Settled
<1>3. CASE Restart(p)
  <2>1. object' = None
    BY <1>0, <1>3, Zenon DEF Restart, TypeOK, cluster
  <2> QED
    BY <2>1, SettledWhen
<1>4. ~(Get(p) \/ TimerFires(p) \/ Sweep(p))
  BY <1>0 DEF Get, TimerFires, Sweep, TypeOK
<1>5. ~(CallFails(p) \/ Crash(p) \/ CommitUnknown(p) \/ CommitConflict(p))
  BY <1>0, Zenon DEF CallFails, Crash, CommitUnknown, CommitConflict, Fail, TypeOK
<1>6. ~(Resolve(p) \/ UpsertIncident(p) \/ UpsertSnapshot(p))
  BY <1>0 DEF Resolve, UpsertIncident, UpsertSnapshot, Continue, TypeOK
<1>7. CASE GetIncident(p) \/ RereadIncident(p) \/ Commit(p) \/ CommitExists(p)
  BY <1>7, ReturnsSettled, Zenon
<1>8. CASE UNCHANGED vars
  BY <1>8 DEF vars, cluster, store, NothingIsMissed, Settled, Agrees, IsOpen, Matches, failedJob, agedFailure, warningEvent, eventIsQuiet
<1> QED
  BY <1>1, <1>2, <1>3, <1>4, <1>5, <1>6, <1>7, <1>8, Zenon DEF Next, ReconcileStep

\* Between reconciliations the incident agrees with its object; only that of an
\* Event may be open although the Event has become quiet, and then the sweeper
\* looks at it again, and that of an object that is gone.  Whatever calls fail,
\* answers get lost and processes crash, and however the object changes meanwhile
\* (Reconcile, AddRateLimited of runWorker, the initial list, sweep).
THEOREM ChangesAreNotMissed ==
    ASSUME OneObject
    PROVE  Spec => []NothingIsMissed
<1>1. Init => OutcomeInv /\ CurrentInv /\ NothingIsMissed
  <2> SUFFICES ASSUME Init PROVE OutcomeInv /\ CurrentInv /\ NothingIsMissed
    OBVIOUS
  <2>1. \A p \in Process : pc[p] = "idle" /\ queued[p] = TRUE
    BY DEF Init
  <2> QED
    BY <2>1, OutcomeInit DEF CurrentInv, NothingIsMissed, Holds
<1>2. Inv /\ OutcomeInv /\ CurrentInv /\ NothingIsMissed /\ [Next]_vars => (OutcomeInv /\ CurrentInv /\ NothingIsMissed)'
  BY OutcomeNext, CurrentNext, MissedNext
<1> QED
  BY <1>1, <1>2, Invariance, PTL DEF Spec

=============================================================================
