-------------------------- MODULE ReconcilerProofs --------------------------
(***************************************************************************)
(* Proofs about Reconciler, for any processes, contents, findings and      *)
(* faults.                                                                 *)
(***************************************************************************)
EXTENDS Reconciler, TLAPS, FiniteSetTheorems

\* What a reconciliation knows between its calls: once it is past the rules it
\* has a snapshot to persist, a recovery comes from an incident that was not
\* resolved when it was read, and a copy of the version in the store is a copy
\* of the document in the store.
WorkInv(p) ==
    /\ pc[p] \in {"upsert", "reread"} => ~isRecovery(work[p].result)
    /\ pc[p] \in {"upsert", "reread", "snapshot", "commit"} =>
          (work[p].object = None => work[p].result = "deleted")
    /\ pc[p] \in {"reread", "snapshot", "commit"} => incident # None
    /\ pc[p] \in {"snapshot", "commit"} =>
          /\ work[p].previous # None
          /\ work[p].previous.version <= incident.version
          /\ work[p].previous.version = incident.version => work[p].previous = incident
          /\ isRecovery(work[p].result) => work[p].previous.status # "resolved"
    /\ pc[p] = "commit" => SnapshotHash(work[p].object, work[p].result) \in snapshots

\* Two resolutions always have something that reopened the incident between
\* them: recovery, deletion and the sweeper, in one process or in several,
\* never announce the same resolution twice (Reconcile, resolveDeletion, the
\* version filter of updateIncident).
ResolvedOncePerOpening ==
    \A i \in 1 .. Len(log) - 1 : ~(log[i].status = "resolved" /\ log[i+1].status = "resolved")

StoreInv ==
    /\ IsFiniteSet(evaluations)
    /\ CommitsAreCounted
    /\ ResolvedOncePerOpening
    /\ EvaluationsHaveSnapshots

Inv == TypeOK /\ StoreInv /\ \A p \in Process : WorkInv(p)

-----------------------------------------------------------------------------
(* Lemmas about the operators.                                             *)

\* Every snapshot that persist is given has a content hash.
LEMMA SnapshotHashType ==
    ASSUME NEW c \in Content \cup {None}, NEW r \in Results, c = None => r = "deleted"
    PROVE  SnapshotHash(c, r) \in Hash
<1>1. CASE r = "deleted"
  BY <1>1 DEF SnapshotHash, Hash
<1>2. CASE r # "deleted" /\ r = "recovered" /\ IsEvent
  BY <1>2 DEF SnapshotHash, Hash
<1>3. CASE r # "deleted" /\ ~(r = "recovered" /\ IsEvent)
  <2>1. SnapshotHash(c, r) = Live(c)
    BY <1>3 DEF SnapshotHash
  <2> QED
    BY <1>3, <2>1 DEF Hash
<1> QED
  BY <1>1, <1>2, <1>3

\* A rule result is one of the dispositions; a recovery needs an open incident.
LEMMA RuleResultType ==
    ASSUME TypeOK, NEW p \in Process, NEW d
    PROVE  /\ RuleResult(p, d) \in Results
           /\ work[p].object = None <=> RuleResult(p, d) = "deleted"
           /\ RuleResult(p, d) = "recovered" => incident # None /\ incident.status = "open"
  BY DEF RuleResult, Evaluate, recovered, Results

\* The status of a commit is resolved exactly for recoveries.
LEMMA StatusForType ==
    ASSUME NEW r \in Results
    PROVE  /\ statusFor(r) \in Statuses
           /\ statusFor(r) = "resolved" <=> isRecovery(r)
  BY DEF statusFor, Statuses, isRecovery, Results

\* The state in which a reconciliation leaves its local variables.
LEMMA FinishedType ==
    ASSUME NEW r \in Results
    PROVE  Finished(r) \in Work
  BY DEF Finished, Work

\* The local effects of a step: its process's variables keep their types.
LEMMA LocalTypes ==
    ASSUME TypeOK, NEW p \in Process,
           NEW w \in Work, NEW step \in Steps, NEW r \in Results,
           Succeed(p, r) \/ Fail(p) \/ Continue(p, step, w)
    PROVE  /\ pc' \in [Process -> Steps]
           /\ work' \in [Process -> Work]
           /\ queued' \in [Process -> BOOLEAN]
           /\ timer' \in [Process -> BOOLEAN]
<1>1. Finished(r) \in Work /\ Finished("no_match") \in Work
  BY FinishedType DEF Results
<1>2. \A f \in [Process -> BOOLEAN] : \A x \in BOOLEAN : [f EXCEPT ![p] = x] \in [Process -> BOOLEAN]
  OBVIOUS
<1>3. pc' \in [Process -> Steps]
  BY DEF TypeOK, Succeed, Fail, Continue, Steps
<1>4. work' \in [Process -> Work]
  BY <1>1 DEF TypeOK, Succeed, Fail, Continue
<1>5. queued' \in [Process -> BOOLEAN]
  BY <1>2, Zenon DEF TypeOK, Succeed, Fail, Continue
<1>6. timer' \in [Process -> BOOLEAN]
  BY <1>2, Zenon DEF TypeOK, Succeed, Fail, Continue
<1> QED
  BY <1>3, <1>4, <1>5, <1>6

\* What a transaction that goes through writes has the right types.
LEMMA ApplyTypes ==
    ASSUME TypeOK, NEW p \in Process, WorkInv(p), pc[p] = "commit", Apply(p)
    PROVE  /\ incident' \in Incidents
           /\ evaluations' \subseteq Identities
           /\ log' \in Seq([status : Statuses, event : Events, notify : BOOLEAN])
<1> DEFINE w == work[p]
<1>1. w \in Work /\ incident \in Incidents /\ w.result \in Results
  BY DEF TypeOK, WorkInv, Work
<1>2. SnapshotHash(w.object, w.result) \in Hash
  BY <1>1, SnapshotHashType DEF WorkInv, Work
<1>3. statusFor(w.result) \in Statuses
  BY <1>1, StatusForType
<1>4. EventType(p) \in Events
  BY DEF EventType, Events
<1>5. incident' \in Incidents
  BY <1>1, <1>2, <1>3 DEF Apply, Write, Incidents
<1>6. evaluations' \subseteq Identities
  <2>1. Identity(w.object, w.result) \in Identities
    BY <1>2, Zenon DEF Identity, Identities
  <2> QED
    BY <2>1 DEF Apply, Write, TypeOK
<1>7. log' \in Seq([status : Statuses, event : Events, notify : BOOLEAN])
  <2>1. PICK n \in Notifies(w.result) :
           log' = Append(log, [status |-> statusFor(w.result), event |-> EventType(p), notify |-> n])
    BY DEF Apply, Write
  <2>2. n \in BOOLEAN
    BY <2>1, Zenon DEF Notifies
  <2> QED
    BY <1>3, <1>4, <2>1, <2>2 DEF TypeOK
<1> QED
  BY <1>5, <1>6, <1>7

\* The initial state has the types.
LEMMA TypeInit == Init => TypeOK
<1> SUFFICES ASSUME Init PROVE TypeOK
  OBVIOUS
<1>1. Finished("no_match") \in Work
  BY FinishedType DEF Results
<1>2. pc \in [Process -> Steps] /\ work \in [Process -> Work]
  BY <1>1 DEF Init, Steps
<1>3. /\ up \in [Process -> BOOLEAN] /\ queued \in [Process -> BOOLEAN]
      /\ timer \in [Process -> BOOLEAN]
  BY DEF Init
<1>4. log \in Seq([status : Statuses, event : Events, notify : BOOLEAN])
  BY DEF Init
<1>5. faults \in 0..MaxFaults
  BY ReconcilerAssumption DEF Init
<1> QED
  BY <1>2, <1>3, <1>4, <1>5, Zenon DEF Init, TypeOK

\* Every step keeps the types.
LEMMA TypeNext ==
    ASSUME TypeOK, \A p \in Process : WorkInv(p), [Next]_vars
    PROVE  TypeOK'
<1>1. CASE ClusterStep
  <2>1. queued' \in [Process -> BOOLEAN] /\ work' \in [Process -> Work]
    <3>1. ASSUME NEW p \in Process PROVE [work[p] EXCEPT !.clock = "stale"] \in Work
      <4>1. work[p] \in Work
        BY DEF TypeOK
      <4> QED
        BY <4>1 DEF Work
    <3>2. work' \in [Process -> Work]
      BY <1>1, <3>1, Zenon DEF TypeOK, ClusterStep, Change, Restamp, Touch, Delete, Elapse, Supersede
    <3>3. queued' \in [Process -> BOOLEAN]
      BY <1>1, Zenon DEF TypeOK, ClusterStep, Change, Restamp, Touch, Delete, Elapse, Notify, cluster
    <3> QED
      BY <3>2, <3>3
  <2> QED
    BY <1>1, <2>1, Zenon DEF TypeOK, ClusterStep, Change, Restamp, Touch, Delete, Elapse, cluster, store
<1>2. ASSUME NEW p \in Process, Get(p) \/ TimerFires(p) \/ Sweep(p) \/ Restart(p)
      PROVE  TypeOK'
  <2>1. \A f \in [Process -> BOOLEAN] : \A x \in BOOLEAN : [f EXCEPT ![p] = x] \in [Process -> BOOLEAN]
    OBVIOUS
  <2>2. pc' \in [Process -> Steps]
    BY <1>2 DEF TypeOK, Get, TimerFires, Sweep, Restart, Steps
  <2>3. queued' \in [Process -> BOOLEAN] /\ timer' \in [Process -> BOOLEAN] /\ up' \in [Process -> BOOLEAN]
    BY <1>2, <2>1, Zenon DEF TypeOK, Get, TimerFires, Sweep, Restart
  <2> QED
    BY <1>2, <2>2, <2>3 DEF TypeOK, Get, TimerFires, Sweep, Restart, cluster, store
<1>3. ASSUME NEW p \in Process, CallFails(p) PROVE TypeOK'
  <2>1. Finished("no_match") \in Work
    BY FinishedType DEF Results
  <2>2. /\ pc' \in [Process -> Steps] /\ work' \in [Process -> Work]
        /\ queued' \in [Process -> BOOLEAN] /\ timer' \in [Process -> BOOLEAN]
    BY <1>3, <2>1, LocalTypes DEF CallFails, Steps, Results
  <2>3. faults' \in 0..MaxFaults
    BY <1>3, ReconcilerAssumption DEF CallFails, TypeOK
  <2> QED
    BY <1>3, <2>2, <2>3 DEF TypeOK, CallFails, cluster, store
<1>4. ASSUME NEW p \in Process, Crash(p) PROVE TypeOK'
  <2>1. Finished("no_match") \in Work
    BY FinishedType DEF Results
  <2>2. faults' \in 0..MaxFaults
    BY <1>4, ReconcilerAssumption DEF Crash, TypeOK
  <2>3. \A f \in [Process -> BOOLEAN] : [f EXCEPT ![p] = FALSE] \in [Process -> BOOLEAN]
    OBVIOUS
  <2>4. /\ up' \in [Process -> BOOLEAN] /\ queued' \in [Process -> BOOLEAN]
        /\ timer' \in [Process -> BOOLEAN]
    BY <1>4, <2>3 DEF Crash, TypeOK
  <2>5. pc' \in [Process -> Steps] /\ work' \in [Process -> Work]
    BY <1>4, <2>1 DEF Crash, TypeOK, Steps
  <2> QED
    BY <1>4, <2>2, <2>4, <2>5 DEF TypeOK, Crash, cluster, store
<1>5. ASSUME NEW p \in Process, Resolve(p) PROVE TypeOK'
  <2> DEFINE w == [Finished("no_match") EXCEPT !.object = object,
                                               !.clock = IF elapsed THEN "due" ELSE "pending"]
  <2>1. w \in Work
    BY Zenon DEF TypeOK, Finished, Work, Results
  <2>2. /\ pc' \in [Process -> Steps] /\ work' \in [Process -> Work]
        /\ queued' \in [Process -> BOOLEAN] /\ timer' \in [Process -> BOOLEAN]
    BY <1>5, <2>1, LocalTypes DEF Resolve, Steps, Results
  <2> QED
    BY <1>5, <2>2 DEF TypeOK, Resolve, Continue, cluster, store
<1>6. ASSUME NEW p \in Process, GetIncident(p) PROVE TypeOK'
  <2>1. PICK d \in DueNow(p) : LET r == RuleResult(p, d) IN
           IF NothingToDo(work[p].object, r, incident)
             THEN Succeed(p, r)
             ELSE Continue(p, IF incident = None THEN "upsert" ELSE "snapshot",
                           [work[p] EXCEPT !.clock = "due", !.previous = incident, !.result = r])
    BY <1>6, Zenon DEF GetIncident
  <2> DEFINE r == RuleResult(p, d)
             w == [work[p] EXCEPT !.clock = "due", !.previous = incident, !.result = r]
             step == IF incident = None THEN "upsert" ELSE "snapshot"
  <2>2. r \in Results
    BY RuleResultType
  <2>3. w \in Work /\ step \in Steps
    <3>1. work[p] \in Work /\ incident \in Incidents \cup {None}
      BY DEF TypeOK
    <3> HIDE DEF r
    <3> QED
      BY <2>2, <3>1, Zenon DEF Work, Steps
  <2>4. Succeed(p, r) \/ Continue(p, step, w)
    BY <2>1
  <2>5. /\ pc' \in [Process -> Steps] /\ work' \in [Process -> Work]
        /\ queued' \in [Process -> BOOLEAN] /\ timer' \in [Process -> BOOLEAN]
    <3> HIDE DEF r, w, step
    <3> QED
      BY <2>2, <2>3, <2>4, LocalTypes
  <2>6. faults' = faults
    BY <2>4 DEF Succeed, Continue
  <2> QED
    BY <1>6, <2>5, <2>6 DEF TypeOK, GetIncident, cluster, store
<1>7. ASSUME NEW p \in Process, UpsertIncident(p) \/ RereadIncident(p) \/ UpsertSnapshot(p)
      PROVE  TypeOK'
  <2>1. work[p].result \in Results /\ work[p] \in Work
    BY DEF TypeOK, Work
  <2>2. CASE UpsertIncident(p)
    <3> DEFINE w == [work[p] EXCEPT !.created = (incident = None)]
    <3>1. w \in Work
      BY <2>1, Zenon DEF Work
    <3>2. /\ pc' \in [Process -> Steps] /\ work' \in [Process -> Work]
          /\ queued' \in [Process -> BOOLEAN] /\ timer' \in [Process -> BOOLEAN]
      BY <2>1, <2>2, <3>1, LocalTypes DEF UpsertIncident, Steps
    <3>3. incident' \in Incidents \cup {None}
      BY <2>2 DEF UpsertIncident, TypeOK, Incidents, Statuses, Hash
    <3> QED
      BY <2>2, <3>2, <3>3 DEF TypeOK, UpsertIncident, Continue, cluster
  <2>3. CASE RereadIncident(p)
    <3> DEFINE w == [work[p] EXCEPT !.previous = incident]
    <3>1. w \in Work
      BY <2>1, Zenon DEF Work, TypeOK
    <3>2. /\ pc' \in [Process -> Steps] /\ work' \in [Process -> Work]
          /\ queued' \in [Process -> BOOLEAN] /\ timer' \in [Process -> BOOLEAN]
      BY <2>1, <2>3, <3>1, LocalTypes DEF RereadIncident, Steps
    <3> QED
      BY <2>3, <3>2 DEF TypeOK, RereadIncident, Continue, Succeed, cluster, store
  <2>4. CASE UpsertSnapshot(p)
    <3>1. SnapshotHash(work[p].object, work[p].result) \in Hash
      BY <2>1, <2>4, SnapshotHashType DEF WorkInv, Work, UpsertSnapshot
    <3>2. /\ pc' \in [Process -> Steps] /\ work' \in [Process -> Work]
          /\ queued' \in [Process -> BOOLEAN] /\ timer' \in [Process -> BOOLEAN]
      BY <2>1, <2>4, LocalTypes DEF UpsertSnapshot, Steps
    <3> QED
      BY <2>4, <3>1, <3>2 DEF TypeOK, UpsertSnapshot, Continue, cluster
  <2> QED
    BY <1>7, <2>2, <2>3, <2>4
<1>8. ASSUME NEW p \in Process,
             Commit(p) \/ CommitUnknown(p) \/ CommitExists(p) \/ CommitConflict(p)
      PROVE  TypeOK'
  <2>1. work[p].result \in Results /\ work[p] \in Work
    BY DEF TypeOK, Work
  <2>2. /\ pc' \in [Process -> Steps] /\ work' \in [Process -> Work]
        /\ queued' \in [Process -> BOOLEAN] /\ timer' \in [Process -> BOOLEAN]
    BY <1>8, <2>1, LocalTypes DEF Commit, CommitUnknown, CommitExists, CommitConflict, Steps
  <2>3. faults' \in 0..MaxFaults /\ up' = up /\ cluster' = cluster
    BY <1>8, ReconcilerAssumption
       DEF Commit, CommitUnknown, CommitExists, CommitConflict, Succeed, TypeOK
  <2>4. /\ incident' \in Incidents \cup {None}
        /\ snapshots' \subseteq Hash
        /\ evaluations' \subseteq Identities
        /\ log' \in Seq([status : Statuses, event : Events, notify : BOOLEAN])
    <3>1. CASE Apply(p)
      BY <1>8, <3>1, ApplyTypes, Zenon
         DEF Commit, CommitUnknown, CommitExists, CommitConflict, Apply, Write, TypeOK
    <3>2. CASE store' = store
      BY <3>2 DEF store, TypeOK
    <3> QED
      BY <1>8, <3>1, <3>2 DEF Commit, CommitUnknown, CommitExists, CommitConflict, store
  <2> QED
    BY <2>2, <2>3, <2>4 DEF TypeOK, cluster
<1>9. CASE UNCHANGED vars
  BY <1>9 DEF TypeOK, vars, cluster, store
<1> QED
  BY <1>1, <1>2, <1>3, <1>4, <1>5, <1>6, <1>7, <1>8, <1>9 DEF Next, ReconcileStep

-----------------------------------------------------------------------------
(* The inductive invariant.                                                *)

\* What other processes do to the store keeps what a reconciliation knows: a
\* document once inserted stays, and a change of it has a higher version.
LEMMA WorkInvKept ==
    ASSUME TypeOK, TypeOK', NEW q \in Process, WorkInv(q),
           pc'[q] = pc[q],
           work'[q].object = work[q].object,
           work'[q].previous = work[q].previous,
           work'[q].result = work[q].result,
           incident # None => /\ incident' # None
                              /\ incident' = incident \/ incident'.version > incident.version,
           snapshots \subseteq snapshots'
    PROVE  WorkInv(q)'
<1>1. CASE pc[q] \in {"snapshot", "commit"}
  <2>1. incident \in Incidents /\ incident' \in Incidents /\ work[q].previous \in Incidents
    BY <1>1 DEF WorkInv, TypeOK, Work
  <2>2. incident.version \in Nat /\ incident'.version \in Nat /\ work[q].previous.version \in Nat
    BY <2>1 DEF Incidents
  <2>3. /\ work[q].previous.version <= incident'.version
        /\ work[q].previous.version = incident'.version => work[q].previous = incident'
    BY <1>1, <2>2 DEF WorkInv
  <2> QED
    BY <1>1, <2>3 DEF WorkInv
<1>2. CASE pc[q] \notin {"snapshot", "commit"}
  BY <1>2 DEF WorkInv
<1> QED
  BY <1>1, <1>2

\* A transaction that goes through adds one evaluation, one version and one
\* transition, and never resolves what is resolved.
LEMMA ApplyKeepsStoreInv ==
    ASSUME TypeOK, StoreInv, NEW p \in Process, WorkInv(p), pc[p] = "commit", Apply(p)
    PROVE  /\ StoreInv'
           /\ work[p].previous = incident
           /\ incident' \in Incidents
           /\ incident'.version > incident.version
<1> DEFINE w == work[p]
           id == Identity(w.object, w.result)
<1>1. w.result \in Results /\ incident \in Incidents /\ incident # None
  BY DEF TypeOK, WorkInv, Work
<1>2. incident.version \in Nat /\ Len(log) \in Nat /\ log \in Seq([status : Statuses, event : Events, notify : BOOLEAN])
  BY <1>1 DEF Incidents, TypeOK
<1>3. w.previous = incident
  BY DEF WorkInv, Apply
<1>4. PICK n : log' = Append(log, [status |-> statusFor(w.result), event |-> EventType(p), notify |-> n])
  BY Zenon DEF Apply, Write
<1>5. incident' \in Incidents /\ incident' # None
  BY ApplyTypes, NoneAssumption
<1>6. incident'.version = incident.version + 1 /\ incident'.status = statusFor(w.result)
  BY DEF Apply, Write
<1>7. Len(log') = Len(log) + 1 /\ log'[Len(log')].status = statusFor(w.result)
  BY <1>2, <1>4
<1>8. \A i \in 1..Len(log) : log'[i] = log[i]
  BY <1>2, <1>4
<1>9. IsFiniteSet(evaluations') /\ Cardinality(evaluations') = Cardinality(evaluations) + 1
  <2>1. id \notin evaluations /\ evaluations' = evaluations \cup {id}
    BY DEF Apply, Write
  <2> HIDE DEF id
  <2> QED
    BY <2>1, FS_AddElement DEF StoreInv
<1>10. CommitsAreCounted'
  <2>1. incident.version = 1 + Len(log) /\ Cardinality(evaluations) = Len(log)
    BY <1>1 DEF StoreInv, CommitsAreCounted
  <2> QED
    BY <1>2, <1>5, <1>6, <1>7, <1>9, <2>1 DEF CommitsAreCounted
<1>11. ResolvedOncePerOpening'
  <2> SUFFICES ASSUME NEW i \in 1 .. Len(log') - 1,
                      log'[i].status = "resolved", log'[i+1].status = "resolved"
               PROVE  FALSE
    BY DEF ResolvedOncePerOpening
  <2>1. CASE i < Len(log)
    <3>1. i \in 1 .. Len(log) - 1 /\ i \in 1 .. Len(log) /\ i+1 \in 1 .. Len(log)
      BY <1>2, <1>7, <2>1
    <3> QED
      BY <1>8, <3>1 DEF StoreInv, ResolvedOncePerOpening
  <2>2. CASE i = Len(log)
    <3>1. i \in 1 .. Len(log) /\ i + 1 = Len(log') /\ log # <<>>
      BY <1>2, <1>7, <2>2
    <3>2. incident.status = "resolved"
      BY <1>1, <1>8, <2>2, <3>1 DEF StoreInv, CommitsAreCounted
    <3>3. isRecovery(w.result)
      BY <1>1, <1>7, <3>1, StatusForType
    <3> QED
      BY <1>3, <3>2, <3>3 DEF WorkInv
  <2> QED
    BY <1>2, <1>7, <2>1, <2>2
<1>12. EvaluationsHaveSnapshots'
  BY DEF StoreInv, EvaluationsHaveSnapshots, Apply, Write, WorkInv, Identity
<1> QED
  BY <1>2, <1>3, <1>5, <1>6, <1>9, <1>10, <1>11, <1>12 DEF StoreInv

\* The initial state satisfies the invariant.
LEMMA InvInit == Init => Inv
<1> SUFFICES ASSUME Init PROVE Inv
  OBVIOUS
<1>1. TypeOK
  BY TypeInit
<1>2. StoreInv
  BY FS_EmptySet DEF Init, StoreInv, CommitsAreCounted, ResolvedOncePerOpening, EvaluationsHaveSnapshots
<1>3. \A p \in Process : WorkInv(p)
  BY DEF Init, WorkInv
<1> QED
  BY <1>1, <1>2, <1>3 DEF Inv

\* Every step keeps the invariant.
LEMMA InvNext ==
    ASSUME Inv, [Next]_vars
    PROVE  Inv'
<1>0. TypeOK /\ StoreInv /\ (\A p \in Process : WorkInv(p)) /\ TypeOK'
  BY TypeNext DEF Inv
<1>1. ASSUME store' = store PROVE StoreInv'
  BY <1>0, <1>1 DEF store, StoreInv, CommitsAreCounted, ResolvedOncePerOpening, EvaluationsHaveSnapshots
<1>2. ASSUME ClusterStep PROVE Inv'
  <2>1. store' = store /\ pc' = pc
    BY <1>2, Zenon DEF ClusterStep, Change, Restamp, Touch, Delete, Elapse
  <2>2. ASSUME NEW q \in Process PROVE WorkInv(q)'
    <3>1. work[q] \in Work
      BY <1>0 DEF TypeOK
    <3>2. \/ work'[q] = work[q]
          \/ work'[q] = [work[q] EXCEPT !.clock = "stale"]
      BY <1>2, Zenon DEF ClusterStep, Change, Restamp, Touch, Delete, Elapse, Supersede
    <3>3. /\ work'[q].object = work[q].object
          /\ work'[q].previous = work[q].previous
          /\ work'[q].result = work[q].result
      BY <3>1, <3>2 DEF Work
    <3> QED
      BY <1>0, <2>1, <3>3, WorkInvKept DEF store
  <2> QED
    BY <1>0, <1>1, <2>1, <2>2 DEF Inv
<1>3. ASSUME NEW p \in Process, store' = store,
             pc' = [pc EXCEPT ![p] = pc'[p]], work' = [work EXCEPT ![p] = work'[p]],
             WorkInv(p)'
      PROVE  Inv'
  <2>1. ASSUME NEW q \in Process PROVE WorkInv(q)'
    <3>1. CASE q = p
      BY <1>3, <3>1
    <3>2. CASE q # p
      <4>1. pc'[q] = pc[q] /\ work'[q] = work[q]
        BY <1>0, <1>3, <3>2 DEF TypeOK
      <4> QED
        BY <1>0, <1>3, <4>1, WorkInvKept DEF store
    <3> QED
      BY <3>1, <3>2
  <2> QED
    BY <1>0, <1>1, <1>3, <2>1 DEF Inv
<1>4. ASSUME NEW p \in Process,
             Get(p) \/ TimerFires(p) \/ Sweep(p) \/ Restart(p)
      PROVE  Inv'
  <2>1. store' = store /\ work' = work
    BY <1>4 DEF Get, TimerFires, Sweep, Restart
  <2>2. ASSUME NEW q \in Process PROVE WorkInv(q)'
    <3>1. pc'[q] = pc[q] \/ pc'[q] = "resolve"
      BY <1>0, <1>4 DEF Get, TimerFires, Sweep, Restart, TypeOK
    <3>2. CASE pc'[q] = pc[q]
      BY <1>0, <2>1, <3>2, WorkInvKept DEF store
    <3>3. CASE pc'[q] = "resolve"
      BY <3>3 DEF WorkInv
    <3> QED
      BY <3>1, <3>2, <3>3
  <2> QED
    BY <1>0, <1>1, <2>1, <2>2 DEF Inv
<1>5. ASSUME NEW p \in Process,
             Resolve(p) \/ CallFails(p) \/ Crash(p) \/ CommitExists(p) \/ CommitConflict(p)
      PROVE  Inv'
  <2>1. /\ store' = store
        /\ pc' = [pc EXCEPT ![p] = pc'[p]] /\ work' = [work EXCEPT ![p] = work'[p]]
        /\ pc'[p] \in {"idle", "get"}
    BY <1>0, <1>5 DEF Resolve, CallFails, Crash, CommitExists, CommitConflict,
                      Continue, Succeed, Fail, TypeOK
  <2>2. WorkInv(p)'
    BY <2>1 DEF WorkInv
  <2> QED
    BY <1>3, <2>1, <2>2
<1>6. ASSUME NEW p \in Process, GetIncident(p) PROVE Inv'
  <2>1. PICK d \in DueNow(p) : LET r == RuleResult(p, d) IN
           IF NothingToDo(work[p].object, r, incident)
             THEN Succeed(p, r)
             ELSE Continue(p, IF incident = None THEN "upsert" ELSE "snapshot",
                           [work[p] EXCEPT !.clock = "due", !.previous = incident, !.result = r])
    BY <1>6, Zenon DEF GetIncident
  <2> DEFINE r == RuleResult(p, d)
             w == [work[p] EXCEPT !.clock = "due", !.previous = incident, !.result = r]
             step == IF incident = None THEN "upsert" ELSE "snapshot"
  <2>2. CASE Succeed(p, r)
    <3>1. /\ store' = store
          /\ pc' = [pc EXCEPT ![p] = pc'[p]] /\ work' = [work EXCEPT ![p] = work'[p]]
          /\ pc'[p] = "idle"
      BY <1>0, <1>6, <2>2 DEF GetIncident, Succeed, TypeOK
    <3> QED
      BY <1>3, <3>1 DEF WorkInv
  <2>3. CASE ~NothingToDo(work[p].object, r, incident) /\ Continue(p, step, w)
    <3>1. work[p] \in Work
      BY <1>0 DEF TypeOK
    <3>2. /\ store' = store
          /\ pc' = [pc EXCEPT ![p] = pc'[p]] /\ work' = [work EXCEPT ![p] = work'[p]]
          /\ pc'[p] = step /\ work'[p] = w
      BY <1>0, <1>6, <2>3 DEF GetIncident, Continue, TypeOK
    <3>3. /\ work[p].object = None <=> r = "deleted"
          /\ r = "recovered" => incident # None /\ incident.status = "open"
      BY <1>0, RuleResultType
    <3>4. isRecovery(r) => incident # None /\ incident.status # "resolved"
      <4> HIDE DEF r
      <4> QED
        BY <2>3, <3>3 DEF isRecovery, NothingToDo
    <3>5. w.object = work[p].object /\ w.previous = incident /\ w.result = r
      BY <3>1 DEF Work
    <3>6. incident \in Incidents \cup {None} /\ incident' = incident
      BY <1>0, <3>2 DEF TypeOK, store
    <3>7. WorkInv(p)'
      <4> HIDE DEF r, w
      <4>1. CASE incident = None
        BY <3>2, <3>3, <3>4, <3>5, <4>1 DEF WorkInv
      <4>2. CASE incident # None
        <5>1. incident.version \in Nat
          BY <3>6, <4>2 DEF Incidents
        <5> QED
          BY <3>2, <3>3, <3>4, <3>5, <3>6, <4>2, <5>1 DEF WorkInv
      <4> QED
        BY <4>1, <4>2
    <3> QED
      BY <1>3, <3>2, <3>7
  <2> QED
    BY <2>1, <2>2, <2>3
<1>7. ASSUME NEW p \in Process, RereadIncident(p) PROVE Inv'
  <2>1. /\ store' = store
        /\ pc' = [pc EXCEPT ![p] = pc'[p]] /\ work' = [work EXCEPT ![p] = work'[p]]
    BY <1>0, <1>7 DEF RereadIncident, Continue, Succeed, TypeOK
  <2>2. CASE pc'[p] = "idle"
    BY <1>3, <2>1, <2>2 DEF WorkInv
  <2>3. CASE pc'[p] # "idle"
    <3>1. work[p] \in Work /\ incident \in Incidents /\ incident' = incident
      BY <1>0, <1>7, <2>1 DEF TypeOK, WorkInv, RereadIncident, store
    <3>2. pc'[p] = "snapshot" /\ work'[p] = [work[p] EXCEPT !.previous = incident]
      BY <1>0, <1>7, <2>3 DEF RereadIncident, Continue, Succeed, TypeOK
    <3>3. /\ work'[p].object = work[p].object /\ work'[p].result = work[p].result
          /\ work'[p].previous = incident
      BY <3>1, <3>2 DEF Work
    <3>4. incident.version \in Nat /\ incident # None
      BY <3>1, NoneAssumption DEF Incidents
    <3>5. WorkInv(p)'
      BY <1>0, <1>7, <3>1, <3>2, <3>3, <3>4 DEF WorkInv, RereadIncident
    <3> QED
      BY <1>3, <2>1, <3>5
  <2> QED
    BY <2>2, <2>3
<1>8. ASSUME NEW p \in Process,
             UpsertIncident(p) \/ UpsertSnapshot(p) \/ Commit(p) \/ CommitUnknown(p)
      PROVE  Inv'
  <2>1. /\ pc' = [pc EXCEPT ![p] = pc'[p]] /\ work' = [work EXCEPT ![p] = work'[p]]
    BY <1>0, <1>8 DEF UpsertIncident, UpsertSnapshot, Commit, CommitUnknown, Continue, Succeed, Fail, TypeOK
  <2>2. /\ StoreInv'
        /\ snapshots \subseteq snapshots'
        /\ incident # None => /\ incident' # None
                              /\ incident' = incident \/ incident'.version > incident.version
        /\ WorkInv(p)'
    <3>1. CASE UpsertIncident(p)
      <4>1. StoreInv'
        <5>1. CASE incident = None
          <6>1. incident' = [status |-> "open", hash |-> Empty, version |-> 1] /\ log' = <<>> /\ evaluations' = {}
            BY <1>0, <3>1, <5>1 DEF UpsertIncident, StoreInv, CommitsAreCounted
          <6>2. CommitsAreCounted'
            BY <6>1, FS_EmptySet DEF CommitsAreCounted
          <6> QED
            BY <1>0, <3>1, <6>1, <6>2, FS_EmptySet
               DEF StoreInv, ResolvedOncePerOpening, EvaluationsHaveSnapshots, UpsertIncident
        <5>2. CASE incident # None
          BY <1>1, <3>1, <5>2 DEF UpsertIncident, store
        <5> QED
          BY <5>1, <5>2
      <4>2. incident' # None /\ (incident # None => incident' = incident) /\ snapshots' = snapshots
        <5>1. [status |-> "open", hash |-> Empty, version |-> 1] \in Incidents
          BY DEF Incidents, Statuses, Hash
        <5> QED
          BY <3>1, <5>1, NoneAssumption DEF UpsertIncident
      <4>3. WorkInv(p)'
        <5>1. pc'[p] = "reread" /\ work'[p].object = work[p].object /\ work'[p].result = work[p].result
          BY <1>0, <3>1 DEF UpsertIncident, Continue, TypeOK, Work
        <5> QED
          BY <1>0, <3>1, <4>2, <5>1 DEF WorkInv, UpsertIncident
      <4> QED
        BY <4>1, <4>2, <4>3
    <3>2. CASE UpsertSnapshot(p)
      <4>1. StoreInv'
        BY <1>0, <3>2 DEF StoreInv, CommitsAreCounted, ResolvedOncePerOpening, EvaluationsHaveSnapshots, UpsertSnapshot
      <4>2. pc'[p] = "commit" /\ work'[p] = work[p]
        BY <1>0, <3>2 DEF UpsertSnapshot, Continue, TypeOK
      <4>3. WorkInv(p)'
        BY <1>0, <3>2, <4>2 DEF UpsertSnapshot, WorkInv
      <4> QED
        BY <3>2, <4>1, <4>3 DEF UpsertSnapshot
    <3>3. CASE Commit(p) \/ CommitUnknown(p)
      <4>1. pc[p] = "commit" /\ Apply(p) /\ pc'[p] = "idle"
        BY <1>0, <3>3 DEF Commit, CommitUnknown, Succeed, Fail, TypeOK
      <4>2. StoreInv' /\ incident' \in Incidents /\ incident'.version > incident.version
        BY <1>0, <4>1, ApplyKeepsStoreInv
      <4>3. snapshots' = snapshots /\ WorkInv(p)'
        BY <4>1, Zenon DEF Apply, Write, WorkInv
      <4> QED
        BY <4>2, <4>3, NoneAssumption
    <3> QED
      BY <1>8, <3>1, <3>2, <3>3
  <2>3. ASSUME NEW q \in Process, q # p PROVE WorkInv(q)'
    <3>1. pc'[q] = pc[q] /\ work'[q] = work[q]
      BY <1>0, <2>1, <2>3 DEF TypeOK
    <3> QED
      BY <1>0, <2>2, <3>1, WorkInvKept
  <2> QED
    BY <1>0, <2>2, <2>3 DEF Inv
<1>9. CASE UNCHANGED vars
  <2>1. \A q \in Process : WorkInv(q)'
    BY <1>0, <1>9 DEF WorkInv, vars, store
  <2> QED
    BY <1>0, <1>1, <1>9, <2>1 DEF Inv, vars
<1> QED
  BY <1>2, <1>4, <1>5, <1>6, <1>7, <1>8, <1>9 DEF Next, ReconcileStep

-----------------------------------------------------------------------------
(* Theorems.                                                               *)

\* The invariant holds in every behaviour.
LEMMA Invariance == Spec => []Inv
<1>1. Init => Inv
  BY InvInit
<1>2. Inv /\ [Next]_vars => Inv'
  BY InvNext
<1> QED
  BY <1>1, <1>2, PTL DEF Spec

\* The reconciler's and the store's variables keep their types.
THEOREM TypeCorrect == Spec => []TypeOK
<1>1. Inv => TypeOK
  BY DEF Inv
<1> QED
  BY <1>1, Invariance, PTL

\* However reconciliations of any number of processes interleave, fail, crash
\* and are repeated, commits are counted exactly (Store.Commit).
THEOREM CommitsNeitherLostNorDoubled == Spec => []CommitsAreCounted
<1>1. Inv => CommitsAreCounted
  BY DEF Inv, StoreInv
<1> QED
  BY <1>1, Invariance, PTL

\* And no resolution is announced twice (Reconcile, resolveDeletion,
\* updateIncident).
THEOREM NoDoubleResolution == Spec => []ResolvedOncePerOpening
<1>1. Inv => ResolvedOncePerOpening
  BY DEF Inv, StoreInv
<1> QED
  BY <1>1, Invariance, PTL

\* And no evaluation is without its snapshot (persist).
THEOREM SnapshotsComeFirst == Spec => []EvaluationsHaveSnapshots
<1>1. Inv => EvaluationsHaveSnapshots
  BY DEF Inv, StoreInv
<1> QED
  BY <1>1, Invariance, PTL

\* Every commit was decided from the very document it replaces
\* (updateIncident's version filter).
THEOREM NoLostUpdate == Spec => CommitsBuildOnLatest
<1> DEFINE A == evaluations' # evaluations =>
                   \E p \in Process : pc[p] = "commit" /\ pc'[p] = "idle" /\ work[p].previous = incident
<1>1. Inv /\ [Next]_vars => [A]_vars
  <2> SUFFICES ASSUME Inv, Next, evaluations' # evaluations
               PROVE  \E p \in Process : pc[p] = "commit" /\ pc'[p] = "idle" /\ work[p].previous = incident
    OBVIOUS
  <2>1. PICK p \in Process : Commit(p) \/ CommitUnknown(p)
    BY Zenon DEF Next, ClusterStep, Change, Restamp, Touch, Delete, Elapse, Get, TimerFires, Sweep,
           CallFails, Crash, Restart, ReconcileStep, Resolve, GetIncident, UpsertIncident,
           RereadIncident, UpsertSnapshot, CommitExists, CommitConflict, store
  <2>2. pc[p] = "commit" /\ Apply(p) /\ pc'[p] = "idle"
    BY <2>1 DEF Commit, CommitUnknown, Succeed, Fail, Inv, TypeOK
  <2>3. work[p].previous = incident
    BY <2>2, ApplyKeepsStoreInv DEF Inv
  <2> QED
    BY <2>2, <2>3
<1> QED
  BY <1>1, Invariance, PTL DEF Spec, CommitsBuildOnLatest

-----------------------------------------------------------------------------
(* The created flag of persist and the event incident.opened.              *)

\* Only the insert of the incident sets the flag.
LEMMA FlagsKept ==
    ASSUME Inv, [Next]_vars, \A p \in Process : ~(UpsertIncident(p) \/ Commit(p) \/ CommitUnknown(p))
    PROVE  UNCHANGED <<incident, log>> /\ \A q \in Process : work'[q].created => work[q].created
<1>0. TypeOK
  BY DEF Inv
<1>1. CASE ClusterStep
  <2>1. UNCHANGED <<incident, log>>
    BY <1>1, Zenon DEF ClusterStep, Change, Restamp, Touch, Delete, Elapse, store
  <2>2. ASSUME NEW q \in Process PROVE work'[q].created = work[q].created
    <3>1. work[q] \in Work
      BY <1>0 DEF TypeOK
    <3>2. work'[q] = work[q] \/ work'[q] = [work[q] EXCEPT !.clock = "stale"]
      BY <1>1, Zenon DEF ClusterStep, Change, Restamp, Touch, Delete, Elapse, Supersede
    <3> QED
      BY <3>1, <3>2 DEF Work
  <2> QED
    BY <2>1, <2>2
<1>2. ASSUME NEW p \in Process,
             \/ Get(p) \/ TimerFires(p) \/ Sweep(p) \/ Restart(p)
             \/ CallFails(p) \/ Crash(p) \/ CommitExists(p) \/ CommitConflict(p)
      PROVE  UNCHANGED <<incident, log>> /\ \A q \in Process : work'[q].created => work[q].created
  <2>1. UNCHANGED <<incident, log>>
    BY <1>2, Zenon DEF Get, TimerFires, Sweep, Restart, CallFails, Crash, CommitExists, CommitConflict, store
  <2>2. \A q \in Process : work'[q] = work[q] \/ ~work'[q].created
    <3>1. work' = work \/ \E r : work' = [work EXCEPT ![p] = Finished(r)]
      BY <1>2, Zenon DEF Get, TimerFires, Sweep, Restart, CallFails, Crash, CommitExists, CommitConflict, Succeed, Fail
    <3>2. \A r : ~Finished(r).created
      BY DEF Finished
    <3>3. work \in [Process -> Work]
      BY <1>0, Zenon DEF TypeOK
    <3> QED
      BY <3>1, <3>2, <3>3, Zenon
  <2> QED
    BY <2>1, <2>2
<1>3. ASSUME NEW p \in Process,
             Resolve(p) \/ GetIncident(p) \/ RereadIncident(p) \/ UpsertSnapshot(p)
      PROVE  UNCHANGED <<incident, log>> /\ \A q \in Process : work'[q].created => work[q].created
  <2>1. UNCHANGED <<incident, log>> /\ work[p] \in Work
    BY <1>0, <1>3, Zenon DEF Resolve, GetIncident, RereadIncident, UpsertSnapshot, store, TypeOK
  <2>2. ASSUME NEW r, NEW step, NEW w, Succeed(p, r) \/ Continue(p, step, w), w.created => work[p].created
        PROVE  \A q \in Process : work'[q].created => work[q].created
    <3>1. work'[p] \in {w, Finished(r)} /\ \A q \in Process \ {p} : work'[q] = work[q]
      BY <1>0, <2>2 DEF Succeed, Continue, TypeOK
    <3>2. ~Finished(r).created
      BY DEF Finished
    <3> QED
      BY <2>2, <3>1, <3>2, Zenon
  <2>3. CASE Resolve(p)
    <3> DEFINE w == [Finished("no_match") EXCEPT !.object = object, !.clock = IF elapsed THEN "due" ELSE "pending"]
    <3>1. ~w.created /\ Continue(p, "get", w)
      BY <2>3 DEF Resolve, Finished
    <3> HIDE DEF w
    <3> QED
      BY <2>1, <2>2, <3>1, Zenon
  <2>4. CASE GetIncident(p)
    <3>1. PICK r, step : \/ Succeed(p, r)
                         \/ Continue(p, step, [work[p] EXCEPT !.clock = "due", !.previous = incident, !.result = r])
      BY <2>4, Zenon DEF GetIncident
    <3> DEFINE w == [work[p] EXCEPT !.clock = "due", !.previous = incident, !.result = r]
    <3>2. w.created = work[p].created
      BY <2>1 DEF Work
    <3> HIDE DEF w
    <3>3. Succeed(p, r) \/ Continue(p, step, w)
      BY <3>1 DEF w
    <3> QED
      BY <2>1, <2>2, <3>2, <3>3
  <2>5. CASE RereadIncident(p)
    <3> DEFINE w == [work[p] EXCEPT !.previous = incident]
    <3>1. w.created = work[p].created
      BY <2>1 DEF Work
    <3>2. Succeed(p, work[p].result) \/ Continue(p, "snapshot", w)
      BY <2>5 DEF RereadIncident
    <3> HIDE DEF w
    <3> QED
      BY <2>1, <2>2, <3>1, <3>2
  <2>6. CASE UpsertSnapshot(p)
    BY <2>1, <2>2, <2>6 DEF UpsertSnapshot
  <2> QED
    BY <1>3, <2>3, <2>4, <2>5, <2>6, Zenon
<1>4. CASE UNCHANGED vars
  BY <1>4 DEF vars, store
<1> QED
  BY <1>1, <1>2, <1>3, <1>4, Zenon DEF Next, ReconcileStep

\* The insert sets the flag, before any commit.
LEMMA InsertSetsFlag ==
    ASSUME Inv, NEW p \in Process, UpsertIncident(p)
    PROVE  /\ log' = log /\ incident' # None
           /\ \A q \in Process \ {p} : work'[q] = work[q]
           /\ work'[p].created => incident = None /\ log = <<>>
<1>1. TypeOK /\ StoreInv /\ work[p] \in Work
  BY DEF Inv, TypeOK
<1>2. log' = log /\ \A q \in Process \ {p} : work'[q] = work[q]
  BY <1>1 DEF UpsertIncident, Continue, TypeOK
<1>3. work'[p].created => incident = None
  BY <1>1, Zenon DEF UpsertIncident, Continue, TypeOK, Work
<1>4. incident = None => log = <<>>
  BY <1>1 DEF StoreInv, CommitsAreCounted
<1>5. incident' # None
  <2>1. [status |-> "open", hash |-> Empty, version |-> 1] \in Incidents
    BY DEF Incidents, Statuses, Hash
  <2> QED
    BY <2>1, NoneAssumption DEF UpsertIncident
<1> QED
  BY <1>2, <1>3, <1>4, <1>5

\* A commit clears it, and announces the incident as opened if it was set.
LEMMA CommitClearsFlag ==
    ASSUME Inv, NEW p \in Process, Commit(p) \/ CommitUnknown(p)
    PROVE  /\ incident # None /\ incident' # None
           /\ Len(log) \in Nat /\ Len(log') = Len(log) + 1
           /\ \A i \in 1 .. Len(log) : log'[i] = log[i]
           /\ log'[Len(log) + 1].event = "opened" => work[p].created
           /\ ~work'[p].created /\ \A q \in Process \ {p} : work'[q] = work[q]
<1>0. TypeOK /\ StoreInv /\ WorkInv(p)
  BY DEF Inv
<1>1. pc[p] = "commit" /\ Apply(p)
  BY DEF Commit, CommitUnknown
<1>2. PICK n : log' = Append(log, [status |-> statusFor(work[p].result), event |-> EventType(p), notify |-> n])
  BY <1>1, Zenon DEF Apply, Write
<1>3. log \in Seq([status : Statuses, event : Events, notify : BOOLEAN])
  BY <1>0 DEF TypeOK
<1>4. Len(log') = Len(log) + 1 /\ (\A i \in 1..Len(log) : log'[i] = log[i])
      /\ log'[Len(log) + 1].event = EventType(p) /\ Len(log) \in Nat
  BY <1>2, <1>3
<1>5. EventType(p) = "opened" => work[p].created
  BY DEF EventType
<1>6. ~work'[p].created /\ \A q \in Process \ {p} : work'[q] = work[q]
  BY <1>0 DEF Commit, CommitUnknown, Succeed, Fail, Finished, TypeOK
<1>7. incident # None /\ incident' # None
  <2>1. incident' \in Incidents
    BY <1>0, <1>1, ApplyTypes
  <2> QED
    BY <1>0, <1>1, <2>1, NoneAssumption DEF WorkInv
<1> QED
  BY <1>4, <1>5, <1>6, <1>7, Zenon

\* A process that inserted the incident commits before anybody else, if it is
\* the only one.
CreatedInv ==
    /\ OpenedComesFirst
    /\ \A p \in Process : work[p].created => log = <<>>

\* With one process, incident.opened is the first event of an incident or does
\* not occur (persist's created flag).
THEOREM OpenedIsFirst ==
    ASSUME \A p, q \in Process : p = q
    PROVE  Spec => []OpenedComesFirst
<1>1. Init => CreatedInv
  BY DEF Init, CreatedInv, OpenedComesFirst, Finished
<1>2. Inv /\ CreatedInv /\ [Next]_vars => CreatedInv'
  <2> SUFFICES ASSUME Inv, CreatedInv, [Next]_vars PROVE CreatedInv'
    OBVIOUS
  <2>1. ASSUME NEW p \in Process, Commit(p) \/ CommitUnknown(p) PROVE CreatedInv'
    <3>1. /\ Len(log) \in Nat /\ Len(log') = Len(log) + 1
          /\ \A i \in 1 .. Len(log) : log'[i] = log[i]
          /\ log'[Len(log) + 1].event = "opened" => work[p].created
          /\ ~work'[p].created
      BY <2>1, CommitClearsFlag
    <3>2. work[p].created => Len(log) = 0
      BY DEF CreatedInv
    <3>3. OpenedComesFirst'
      <4> SUFFICES ASSUME NEW i \in 2..Len(log') PROVE log'[i].event # "opened"
        BY DEF OpenedComesFirst
      <4>1. CASE i <= Len(log)
        <5>1. i \in 1..Len(log) /\ i \in 2..Len(log)
          BY <3>1, <4>1
        <5> QED
          BY <3>1, <5>1 DEF CreatedInv, OpenedComesFirst
      <4>2. CASE i = Len(log) + 1
        BY <3>1, <3>2, <4>2
      <4> QED
        BY <3>1, <4>1, <4>2
    <3> QED
      BY <3>1, <3>3 DEF CreatedInv
  <2>2. ASSUME log' = log, \A q \in Process : work'[q].created => work[q].created \/ log = <<>>
        PROVE  CreatedInv'
    BY <2>2 DEF CreatedInv, OpenedComesFirst
  <2>3. ASSUME NEW p \in Process, UpsertIncident(p) PROVE CreatedInv'
    BY <2>2, <2>3, InsertSetsFlag
  <2> QED
    BY <2>1, <2>2, <2>3, FlagsKept
<1>3. CreatedInv => OpenedComesFirst
  BY DEF CreatedInv
<1> QED
  BY <1>1, <1>2, <1>3, Invariance, PTL DEF Spec

\* With any number of processes, one of them at most has inserted the incident
\* and not committed yet, and nobody has announced it as opened before.
InsertedInv ==
    /\ \A p, q \in Process : work[p].created /\ work[q].created => p = q
    /\ \A p \in Process : work[p].created =>
          incident # None /\ \A i \in 1 .. Len(log) : log[i].event # "opened"

\* Every step of every process preserves it.
LEMMA InsertedNext ==
    ASSUME Inv, InsertedInv, [Next]_vars
    PROVE  InsertedInv'
<1>1. ASSUME NEW p \in Process, Commit(p) \/ CommitUnknown(p) PROVE InsertedInv'
  <2>1. /\ incident' # None /\ Len(log) \in Nat /\ Len(log') = Len(log) + 1
        /\ \A i \in 1 .. Len(log) : log'[i] = log[i]
        /\ log'[Len(log) + 1].event = "opened" => work[p].created
        /\ ~work'[p].created /\ \A q \in Process \ {p} : work'[q] = work[q]
    BY <1>1, CommitClearsFlag
  <2>2. ASSUME NEW q \in Process, work'[q].created, NEW i \in 1 .. Len(log') PROVE log'[i].event # "opened"
    <3>1. q # p /\ work[q].created
      BY <2>1, <2>2
    <3>2. ~work[p].created /\ \A j \in 1 .. Len(log) : log[j].event # "opened"
      BY <3>1 DEF InsertedInv
    <3>3. i \in 1 .. Len(log) \/ i = Len(log) + 1
      BY <2>1
    <3> QED
      BY <2>1, <3>2, <3>3
  <2>3. \A q, s \in Process : work'[q].created /\ work'[s].created => q = s
    BY <2>1 DEF InsertedInv
  <2> QED
    BY <2>1, <2>2, <2>3 DEF InsertedInv
<1>2. ASSUME NEW p \in Process, UpsertIncident(p) PROVE InsertedInv'
  <2>1. /\ log' = log /\ incident' # None
        /\ \A q \in Process \ {p} : work'[q] = work[q]
        /\ work'[p].created => incident = None /\ log = <<>>
    BY <1>2, InsertSetsFlag
  <2>2. CASE work'[p].created
    <3>1. \A q \in Process \ {p} : ~work'[q].created
      BY <2>1, <2>2 DEF InsertedInv
    <3>2. \A i \in 1 .. Len(log') : log'[i].event # "opened"
      BY <2>1, <2>2
    <3> QED
      BY <2>1, <3>1, <3>2 DEF InsertedInv
  <2>3. CASE ~work'[p].created
    BY <2>1, <2>3 DEF InsertedInv
  <2> QED
    BY <2>2, <2>3
<1>3. CASE \A p \in Process : ~(UpsertIncident(p) \/ Commit(p) \/ CommitUnknown(p))
  BY <1>3, FlagsKept DEF InsertedInv
<1> QED
  BY <1>1, <1>2, <1>3

-----------------------------------------------------------------------------
(* Incident: the contract that Reconciler implements.                      *)

\* Any step that leaves the incident, its evaluations and its transitions
\* alone is a stuttering step of the contract.
LEMMA StutterRefines ==
    ASSUME UNCHANGED <<incident, evaluations, log>>
    PROVE  [I!Next]_(I!vars)
  BY DEF I!vars

\* A transaction that goes through takes one new decision, from the status it
\* replaces, and announces it.
LEMMA ApplyTakes ==
    ASSUME TypeOK, StoreInv, InsertedInv, NEW p \in Process, WorkInv(p), pc[p] = "commit", Apply(p)
    PROVE  I!Next
<1> DEFINE w == work[p]
           r == w.result
           id == Identity(w.object, r)
<1>1. w \in Work /\ r \in Results /\ incident # None /\ incident' # None
  <2>1. incident' \in Incidents
    BY ApplyKeepsStoreInv
  <2> QED
    BY <2>1, NoneAssumption DEF TypeOK, WorkInv, Work
<1>2. incident'.status = statusFor(r) /\ evaluations' = evaluations \cup {id} /\ id \notin evaluations
  BY Zenon DEF Apply, Write
<1>3. PICK n \in Notifies(r) : log' = Append(log, [status |-> statusFor(r), event |-> EventType(p), notify |-> n])
  BY Zenon DEF Apply, Write
<1>4. id \in Identities
  <2>1. SnapshotHash(w.object, r) \in Hash
    BY <1>1, SnapshotHashType, Zenon DEF WorkInv, Work
  <2> QED
    BY <2>1, Zenon DEF Identity, Identities
<1>5. isRecovery(r) => incident.status # "resolved"
  BY ApplyKeepsStoreInv, Zenon DEF WorkInv
<1> HIDE DEF id, r
<1>6. ~isRecovery(r) => EventType(p) \in I!Events
  <2>1. work[p].created => \A i \in 1 .. Len(log) : log[i].event # "opened"
    BY DEF InsertedInv
  <2> QED
    BY <2>1, Zenon DEF EventType, I!Events, r
<1>7. I!Open \/ I!Resolve \/ I!Suppress
  <2>1. CASE isRecovery(r)
    <3>1. statusFor(r) = "resolved" /\ EventType(p) = "resolved" /\ n = TRUE
      <4>1. n = TRUE
        BY <1>3, <2>1, Zenon DEF Notifies, isRecovery
      <4>2. statusFor(r) = "resolved"
        BY <1>1, <2>1, StatusForType
      <4>3. EventType(p) = "resolved"
        BY <2>1 DEF EventType, r
      <4> QED
        BY <4>1, <4>2, <4>3
    <3>2. incident.status # "resolved" /\ incident'.status = "resolved"
          /\ log' = Append(log, [status |-> "resolved", event |-> "resolved", notify |-> TRUE])
      BY <1>2, <1>3, <1>5, <2>1, <3>1
    <3> QED
      BY <1>1, <3>2 DEF I!Resolve, I!Announce
  <2>2. CASE r = "suppress"
    <3>1. statusFor(r) = "suppressed" /\ EventType(p) \in I!Events /\ n = FALSE
      BY <1>3, <1>6, <2>2 DEF statusFor, Notifies, isRecovery
    <3>2. incident'.status = "suppressed"
          /\ log' = Append(log, [status |-> "suppressed", event |-> EventType(p), notify |-> FALSE])
      BY <1>2, <1>3, <3>1, Zenon
    <3> QED
      BY <1>1, <3>1, <3>2, Zenon DEF I!Suppress, I!Announce
  <2>3. CASE ~isRecovery(r) /\ r # "suppress"
    <3>1. statusFor(r) = "open" /\ EventType(p) \in I!Events /\ n \in BOOLEAN
      <4>1. n \in BOOLEAN
        BY <1>3, <2>3, Zenon DEF Notifies
      <4> QED
        BY <1>6, <2>3, <4>1 DEF statusFor
    <3>2. incident'.status = "open"
          /\ log' = Append(log, [status |-> "open", event |-> EventType(p), notify |-> n])
      BY <1>2, <1>3, <3>1
    <3> QED
      BY <1>1, <3>1, <3>2 DEF I!Open, I!Announce
  <2> QED
    BY <2>1, <2>2, <2>3
<1>8. (IF incident = None THEN "absent" ELSE incident.status) # "absent"
  BY <1>1 DEF TypeOK, Incidents, Statuses
<1>9. I!Take(id)
  BY <1>2, <1>7, <1>8 DEF I!Take
<1> QED
  BY <1>2, <1>4, <1>9 DEF I!Next

\* Every step of every process is a step of the contract or leaves it alone.
LEMMA StepRefinesIncident ==
    ASSUME Inv, InsertedInv, [Next]_vars
    PROVE  [I!Next]_(I!vars)
<1>1. CASE UNCHANGED <<incident, evaluations, log>>
  BY <1>1, StutterRefines
<1>2. ASSUME NEW p \in Process, UpsertIncident(p), incident = None PROVE I!Next
  <2>1. incident' = [status |-> "open", hash |-> Empty, version |-> 1] /\ UNCHANGED <<evaluations, log>>
    BY <1>2 DEF UpsertIncident
  <2>2. incident' # None /\ incident'.status = "open"
    <3>1. incident' \in Incidents
      BY <2>1 DEF Incidents, Statuses, Hash
    <3> QED
      BY <2>1, <3>1, NoneAssumption
  <2>3. I!Record
    BY <1>2, <2>1, <2>2 DEF I!Record
  <2> QED
    BY <2>3 DEF I!Next
<1>3. ASSUME NEW p \in Process, Commit(p) \/ CommitUnknown(p) PROVE I!Next
  BY <1>3, ApplyTakes DEF Inv, Commit, CommitUnknown
<1>4. CASE ClusterStep
  BY <1>1, <1>4, Zenon DEF ClusterStep, Change, Restamp, Touch, Delete, Elapse, store
<1>5. ASSUME NEW p \in Process,
             Get(p) \/ TimerFires(p) \/ Sweep(p) \/ CallFails(p) \/ Crash(p) \/ Restart(p)
             \/ Resolve(p) \/ GetIncident(p) \/ RereadIncident(p) \/ UpsertSnapshot(p)
             \/ CommitExists(p) \/ CommitConflict(p) \/ (UpsertIncident(p) /\ incident # None)
      PROVE  UNCHANGED <<incident, evaluations, log>>
  BY <1>5, Zenon DEF Get, TimerFires, Sweep, CallFails, Crash, Restart, Resolve, GetIncident, RereadIncident,
                     UpsertSnapshot, CommitExists, CommitConflict, UpsertIncident, store
<1>6. CASE UNCHANGED vars
  BY <1>1, <1>6 DEF vars, store
<1> QED
  BY <1>1, <1>2, <1>3, <1>4, <1>5, <1>6 DEF Next, ReconcileStep

\* Any number of processes that crash, repeat calls and race over the documents
\* implement one incident that is decided step by step (Store.Commit).
THEOREM ReconcilerRefinesIncident ==
    Spec => ImplementsIncident
<1>1. Init => I!Init
  BY DEF Init, I!Init
<1>2. Init => InsertedInv
  BY DEF Init, InsertedInv, Finished
<1>3. Inv /\ InsertedInv /\ [Next]_vars => InsertedInv'
  BY InsertedNext
<1>4. Inv /\ InsertedInv /\ [Next]_vars => [I!Next]_(I!vars)
  BY StepRefinesIncident
<1> QED
  BY <1>1, <1>2, <1>3, <1>4, Invariance, PTL DEF Spec, ImplementsIncident, I!Spec

=============================================================================
