----------------------------- MODULE Reconciler -----------------------------
(***************************************************************************)
(* The life of one incident: a Kubernetes object that changes, ages and    *)
(* disappears, the processes that watch it and reconcile its key, and the  *)
(* documents they share in MongoDB.  A reconciliation is a sequence of     *)
(* calls to the API server and to the store, and anything may happen       *)
(* between two of them.                                                    *)
(*                                                                         *)
(* A content is everything the content hash covers.  What the hash leaves  *)
(* out and the rules use is time: how long ago a condition changed or an   *)
(* Event was last seen.  "elapsed" says whether the minimum age, for an    *)
(* Event the quiet period, has passed.                                     *)
(***************************************************************************)
EXTENDS Integers, Sequences, FiniteSets

CONSTANTS
    Process,    \* controller processes
    Content,    \* the contents the object may have
    Finding,    \* [Content -> what the rules see in it], see FindingKind
    IsEvent,    \* the object is a Kubernetes Event
    Flapping,   \* the object may return to an earlier content, or its clock may restart
    None,       \* no object, no document
    MaxFaults   \* bound: crashes and failed calls in a behaviour

\* ignored: namespace or label on the ignore list
\* failing: a rule without an age condition matches (failed Job)
\* aging:   a rule matches once the minimum age has passed (Pods, workloads)
\* warning: a selected Warning Event, until its quiet period has passed
\* healthy: no rule matches
FindingKind == {"ignored", "failing", "aging", "warning", "healthy"}

ASSUME ReconcilerAssumption ==
    /\ Finding \in [Content -> FindingKind]
    /\ IsEvent \in BOOLEAN /\ Flapping \in BOOLEAN
    /\ \A c \in Content : Finding[c] = "warning" => IsEvent
    /\ None \notin Content
    /\ MaxFaults \in Nat

VARIABLES
    object,       \* the content of the object, None once it is deleted
    elapsed,      \* its minimum age or quiet period has passed
    past,         \* the contents it has had
    up,           \* process: its informers and workers run
    queued,       \* process: the key is in the work queue
    timer,        \* process: an AddAfter for the key is pending
    pc,           \* process: the next call of its reconciliation
    work,         \* process: the local variables of its reconciliation, see Work
    incident,     \* store: the incident document
    snapshots,    \* store: content hashes of the snapshot documents
    evaluations,  \* store: identities of the evaluation documents
    log,          \* store: per commit its status, event type, and whether it has outbox rows
    faults        \* crashes and failed calls so far

cluster == <<object, elapsed, past>>
store == <<incident, snapshots, evaluations, log>>
vars == <<cluster, up, queued, timer, pc, work, store, faults>>

-----------------------------------------------------------------------------
(* Content hashes, rules and decisions.                                    *)

Live(c) == <<"live", c>>          \* an object's own content
Quiet(c) == <<"quiet", c>>        \* with the QuietPeriodElapsed condition
Deleted == <<"deleted", None>>    \* the deletion snapshot
Empty == <<"empty", None>>        \* an incident without a commit

Hash == {Empty, Deleted} \cup {Live(c) : c \in Content} \cup {Quiet(c) : c \in Content}

Results == {"suppress", "terminal", "semantic", "recovered", "no_match", "deleted"}
Statuses == {"open", "resolved", "suppressed"}
Incidents == [status : Statuses, hash : Hash, version : Nat \ {0}]

ASSUME NoneAssumption == None \notin Incidents

\* The object Resolve returned and its clock, the incident as read, whether
\* this reconciliation inserted it, and the rule result, the one field that
\* outlives the reconciliation ("no_match" after an error).  The clock is
\* "stale" when the cluster has a newer object.
Work == [object : Content \cup {None}, clock : {"due", "pending", "stale"},
         previous : Incidents \cup {None}, created : BOOLEAN, result : Results]

Finished(r) ==
    [object |-> None, clock |-> "due", previous |-> None, created |-> FALSE, result |-> r]

\* The rules: without an age, with a minimum age, and the selected Warning
\* Event until it is quiet.  d says that the age or quiet period has passed.
failedJob(c) == Finding[c] = "failing"
agedFailure(c, d) == Finding[c] = "aging" /\ d
eventIsQuiet(d) == d
warningEvent(c, d) == Finding[c] = "warning" /\ ~eventIsQuiet(d)
ignoredReason(c) == Finding[c] = "ignored"

Matches(c, d) == failedJob(c) \/ agedFailure(c, d) \/ warningEvent(c, d)

\* The recovery rule looks at the incident as it was read.
recovered(previous) == previous # None /\ previous.status = "open"

\* Engine.Evaluate.
Evaluate(c, d, previous) ==
    CASE ignoredReason(c) -> "suppress"
      [] ~ignoredReason(c) /\ Matches(c, d) -> IF warningEvent(c, d) THEN "semantic" ELSE "terminal"
      [] OTHER -> IF recovered(previous) THEN "recovered" ELSE "no_match"

isRecovery(r) == r \in {"recovered", "deleted"}

statusFor(r) ==
    CASE isRecovery(r) -> "resolved"
      [] r = "suppress" -> "suppressed"
      [] OTHER -> "open"

\* The hash of the snapshot that is persisted for content c under result r.
SnapshotHash(c, r) ==
    CASE r = "deleted" -> Deleted
      [] r = "recovered" /\ IsEvent -> Quiet(c)
      [] OTHER -> Live(c)

\* The unique identity of an evaluation: hash and rubric version; policy and
\* provider configuration are the same throughout.
Identities == Hash \X BOOLEAN
Identity(c, r) == <<SnapshotHash(c, r), r = "semantic">>

\* Whether the composed decision has deliveries.  Provider evidence may ask
\* for no more than a record; without a rule match the composer falls back to
\* notify.
Notifies(r) ==
    CASE r = "suppress" -> {FALSE}
      [] r = "semantic" -> {TRUE, FALSE}
      [] OTHER -> {TRUE}

\* Mutant: a deletion is not checked against an incident that is resolved already.
MutNothingToDoDeletedAgain(c, r, previous) ==
    \/ previous # None /\ previous.hash = SnapshotHash(c, r) /\ ~isRecovery(r)
    \/ r = "no_match" /\ (previous = None \/ previous.status = "resolved")
    \/ r = "deleted" /\ previous = None

\* Mutant: unchanged content returns early although it means recovery.
MutNothingToDoUnchanged(c, r, previous) ==
    \/ previous # None /\ previous.hash \in {SnapshotHash(c, r), Live(c)}
    \/ r \in {"no_match", "deleted"} /\ (previous = None \/ previous.status = "resolved")

\* The early returns of Reconcile and resolveDeletion, before persist.
NothingToDo(c, r, previous) ==
    \/ previous # None /\ previous.hash = SnapshotHash(c, r) /\ ~isRecovery(r)
    \/ r \in {"no_match", "deleted"} /\ (previous = None \/ previous.status = "resolved")

-----------------------------------------------------------------------------

Steps == {"idle", "resolve", "get", "upsert", "reread", "snapshot", "commit"}
Events == {"opened", "updated", "resolved"}

\* The variables have the types of the fields they stand for.
TypeOK ==
    /\ object \in Content \cup {None}
    /\ elapsed \in BOOLEAN
    /\ past \subseteq Content
    /\ up \in [Process -> BOOLEAN]
    /\ queued \in [Process -> BOOLEAN]
    /\ timer \in [Process -> BOOLEAN]
    /\ pc \in [Process -> Steps]
    /\ work \in [Process -> Work]
    /\ incident \in Incidents \cup {None}
    /\ snapshots \subseteq Hash
    /\ evaluations \subseteq Identities
    /\ log \in Seq([status : Statuses, event : Events, notify : BOOLEAN])
    /\ faults \in 0..MaxFaults

Init ==
    /\ object \in Content
    /\ elapsed = FALSE
    /\ past = {object}
    /\ up = [p \in Process |-> TRUE]
    /\ queued = [p \in Process |-> TRUE]
    /\ timer = [p \in Process |-> FALSE]
    /\ pc = [p \in Process |-> "idle"]
    /\ work = [p \in Process |-> Finished("no_match")]
    /\ incident = None
    /\ snapshots = {}
    /\ evaluations = {}
    /\ log = <<>>
    /\ faults = 0

-----------------------------------------------------------------------------
(* The cluster; running informers turn every change into a queued key.     *)

Notify == queued' = [p \in Process |-> queued[p] \/ up[p]]

\* What was resolved and not yet evaluated is no longer the current object.
Supersede ==
    work' = [p \in Process |-> IF work[p].clock = "pending" THEN [work[p] EXCEPT !.clock = "stale"]
                                                            ELSE work[p]]

\* A new content, whose conditions changed just now or some time ago.
Change(c) ==
    /\ object # None /\ c # object
    /\ Flapping \/ c \notin past
    /\ object' = c
    /\ past' = past \cup {c}
    /\ elapsed' \in {FALSE, elapsed}
    /\ Notify /\ Supersede
    /\ UNCHANGED <<up, timer, pc, store, faults>>

\* The same content with a new transition or observation time.
Restamp ==
    /\ object # None /\ Flapping
    /\ elapsed' = FALSE
    /\ Notify /\ Supersede
    /\ UNCHANGED <<object, past, up, timer, pc, store, faults>>

\* An update of what neither the hash nor the rules look at.
Touch ==
    /\ object # None
    /\ Notify
    /\ UNCHANGED <<cluster, up, timer, pc, work, store, faults>>

Delete ==
    /\ object # None
    /\ object' = None
    /\ Notify /\ Supersede
    /\ UNCHANGED <<elapsed, past, up, timer, pc, store, faults>>

\* Time passes; no informer callback tells of it.
Elapse ==
    /\ object # None /\ ~elapsed
    /\ elapsed' = TRUE
    /\ UNCHANGED <<object, past, up, queued, timer, pc, work, store, faults>>

-----------------------------------------------------------------------------
(* Queue, sweeper and process.                                             *)

\* A worker takes the key; the queue gives a key to one worker at a time.
Get(p) ==
    /\ up[p] /\ pc[p] = "idle" /\ queued[p]
    /\ queued' = [queued EXCEPT ![p] = FALSE]
    /\ pc' = [pc EXCEPT ![p] = "resolve"]
    /\ UNCHANGED <<cluster, up, timer, work, store, faults>>

\* The delayed re-add of a semantic Event comes due.
TimerFires(p) ==
    /\ up[p] /\ timer[p]
    /\ timer' = [timer EXCEPT ![p] = FALSE]
    /\ queued' = [queued EXCEPT ![p] = TRUE]
    /\ UNCHANGED <<cluster, up, pc, work, store, faults>>

\* Mutant: the sweeper's kind test is inverted.
MutSweepOtherKinds(p) ==
    /\ up[p] /\ ~IsEvent
    /\ incident # None /\ incident.status = "open"
    /\ queued' = [queued EXCEPT ![p] = TRUE]
    /\ UNCHANGED <<cluster, up, timer, pc, work, store, faults>>

\* The sweeper re-adds the keys of open Event incidents, of no others.
Sweep(p) ==
    /\ up[p] /\ IsEvent
    /\ incident # None /\ incident.status = "open"
    /\ queued' = [queued EXCEPT ![p] = TRUE]
    /\ UNCHANGED <<cluster, up, timer, pc, work, store, faults>>

\* The reconciliation returns nil; a semantic result is re-added later.
Succeed(p, r) ==
    /\ pc' = [pc EXCEPT ![p] = "idle"]
    /\ work' = [work EXCEPT ![p] = Finished(r)]
    /\ timer' = [timer EXCEPT ![p] = @ \/ r = "semantic"]
    /\ UNCHANGED <<queued, faults>>

\* Mutant: a failed key is not added again.
MutFailForgets(p) ==
    /\ pc' = [pc EXCEPT ![p] = "idle"]
    /\ work' = [work EXCEPT ![p] = Finished("no_match")]
    /\ UNCHANGED <<queued, timer>>

\* It returns an error: AddRateLimited.
Fail(p) ==
    /\ pc' = [pc EXCEPT ![p] = "idle"]
    /\ work' = [work EXCEPT ![p] = Finished("no_match")]
    /\ queued' = [queued EXCEPT ![p] = TRUE]
    /\ UNCHANGED timer

\* It goes on to the next call.
Continue(p, step, w) ==
    /\ pc' = [pc EXCEPT ![p] = step]
    /\ work' = [work EXCEPT ![p] = w]
    /\ UNCHANGED <<timer, queued, faults>>

\* A call fails, or the reconcile timeout ends it, without effect.
CallFails(p) ==
    /\ pc[p] # "idle"
    /\ faults < MaxFaults
    /\ faults' = faults + 1
    /\ Fail(p)
    /\ UNCHANGED <<cluster, up, store>>

\* The queue, its timers and the reconciliation are lost with the process.
Crash(p) ==
    /\ up[p]
    /\ faults < MaxFaults
    /\ faults' = faults + 1
    /\ up' = [up EXCEPT ![p] = FALSE]
    /\ queued' = [queued EXCEPT ![p] = FALSE]
    /\ timer' = [timer EXCEPT ![p] = FALSE]
    /\ pc' = [pc EXCEPT ![p] = "idle"]
    /\ work' = [work EXCEPT ![p] = Finished("no_match")]
    /\ UNCHANGED <<cluster, store>>

\* The initial list enqueues the objects that exist.
Restart(p) ==
    /\ ~up[p]
    /\ up' = [up EXCEPT ![p] = TRUE]
    /\ queued' = [queued EXCEPT ![p] = object # None]
    /\ UNCHANGED <<cluster, timer, pc, work, store, faults>>

-----------------------------------------------------------------------------
(* Reconcile, one call to the outside per step.                            *)

Resolve(p) ==
    /\ pc[p] = "resolve"
    /\ Continue(p, "get",
                [Finished("no_match") EXCEPT !.object = object,
                                !.clock = IF elapsed THEN "due" ELSE "pending"])
    /\ UNCHANGED <<cluster, up, store>>

\* The rules read the clock themselves: time may have passed since Resolve,
\* also for an object that is no longer the current one.
DueNow(p) ==
    CASE work[p].clock = "due" -> {TRUE}
      [] work[p].clock = "pending" -> {elapsed}
      [] work[p].clock = "stale" -> BOOLEAN

\* Mutant: a missing object counts as an ordinary recovery.
MutRuleResultMissing(p, d) ==
    CASE work[p].object # None -> Evaluate(work[p].object, d, incident)
      [] incident # None /\ incident.status = "open" -> "recovered"
      [] OTHER -> "deleted"

RuleResult(p, d) ==
    IF work[p].object = None THEN "deleted" ELSE Evaluate(work[p].object, d, incident)

\* Read the incident, evaluate the rules, and return unless there is something to persist.
GetIncident(p) ==
    /\ pc[p] = "get"
    /\ \E d \in DueNow(p) : LET r == RuleResult(p, d) IN
           IF NothingToDo(work[p].object, r, incident)
             THEN Succeed(p, r)
             ELSE Continue(p, IF incident = None THEN "upsert" ELSE "snapshot",
                           [work[p] EXCEPT !.clock = "due", !.previous = incident, !.result = r])
    /\ UNCHANGED <<cluster, up, store>>

\* $setOnInsert: whoever comes second leaves the document as it is.
UpsertIncident(p) ==
    /\ pc[p] = "upsert"
    /\ incident' = IF incident = None THEN [status |-> "open", hash |-> Empty, version |-> 1] ELSE incident
    /\ Continue(p, "reread", [work[p] EXCEPT !.created = (incident = None)])
    /\ UNCHANGED <<cluster, up, snapshots, evaluations, log>>

\* The upsert's second call; an incident that already has this hash is done.
RereadIncident(p) ==
    /\ pc[p] = "reread"
    /\ IF /\ ~work[p].created /\ ~isRecovery(work[p].result)
          /\ incident.hash = SnapshotHash(work[p].object, work[p].result)
         THEN Succeed(p, work[p].result)
         ELSE Continue(p, "snapshot", [work[p] EXCEPT !.previous = incident])
    /\ UNCHANGED <<cluster, up, store>>

\* Mutant: only the first snapshot of an incident is stored.
MutUpsertSnapshotOnce(p) ==
    /\ pc[p] = "snapshot"
    /\ snapshots' = snapshots \cup
                      {h \in {SnapshotHash(work[p].object, work[p].result)} : work[p].created}
    /\ Continue(p, "commit", work[p])
    /\ UNCHANGED <<cluster, up, incident, evaluations, log>>

UpsertSnapshot(p) ==
    /\ pc[p] = "snapshot"
    /\ snapshots' = snapshots \cup {SnapshotHash(work[p].object, work[p].result)}
    /\ Continue(p, "commit", work[p])
    /\ UNCHANGED <<cluster, up, incident, evaluations, log>>

\* Mutant: an incident that is not open is announced as opened again.
MutEventTypeReopened(p) ==
    IF isRecovery(work[p].result) THEN "resolved"
    ELSE IF work[p].created \/ work[p].previous.status # "open" THEN "opened"
    ELSE "updated"

EventType(p) ==
    IF isRecovery(work[p].result) THEN "resolved" ELSE IF work[p].created THEN "opened" ELSE "updated"

\* What the transaction writes: incident, evaluation and outbox rows together.
Write(p) ==
    /\ incident' = [status |-> statusFor(work[p].result),
                    hash |-> SnapshotHash(work[p].object, work[p].result),
                    version |-> incident.version + 1]
    /\ evaluations' = evaluations \cup {Identity(work[p].object, work[p].result)}
    /\ \E n \in Notifies(work[p].result) :
           log' = Append(log, [status |-> statusFor(work[p].result), event |-> EventType(p), notify |-> n])
    /\ UNCHANGED snapshots

\* Mutant: no check for an evaluation with the same identity.
MutApplyAgain(p) ==
    /\ incident.version = work[p].previous.version
    /\ Write(p)

\* Mutant: the update does not filter on the version.
MutApplyAnyVersion(p) ==
    /\ Identity(work[p].object, work[p].result) \notin evaluations
    /\ Write(p)

\* The transaction goes through when no evaluation has this identity and the
\* version is the one that was read.
Apply(p) ==
    /\ Identity(work[p].object, work[p].result) \notin evaluations
    /\ incident.version = work[p].previous.version
    /\ Write(p)

Commit(p) ==
    /\ pc[p] = "commit"
    /\ Apply(p)
    /\ Succeed(p, work[p].result)
    /\ UNCHANGED <<cluster, up>>

\* The transaction commits and its answer is lost.
CommitUnknown(p) ==
    /\ pc[p] = "commit"
    /\ faults < MaxFaults
    /\ faults' = faults + 1
    /\ Apply(p)
    /\ Fail(p)
    /\ UNCHANGED <<cluster, up>>

\* An evaluation with this identity exists: nothing is written, no error.
CommitExists(p) ==
    /\ pc[p] = "commit"
    /\ Identity(work[p].object, work[p].result) \in evaluations
    /\ Succeed(p, work[p].result)
    /\ UNCHANGED <<cluster, up, store>>

CommitConflict(p) ==
    /\ pc[p] = "commit"
    /\ Identity(work[p].object, work[p].result) \notin evaluations
    /\ incident.version # work[p].previous.version
    /\ Fail(p)
    /\ UNCHANGED <<cluster, up, store, faults>>

-----------------------------------------------------------------------------

ClusterStep == (\E c \in Content : Change(c)) \/ Restamp \/ Touch \/ Delete \/ Elapse

ReconcileStep(p) ==
    \/ Resolve(p) \/ GetIncident(p)
    \/ UpsertIncident(p) \/ RereadIncident(p) \/ UpsertSnapshot(p)
    \/ Commit(p) \/ CommitExists(p) \/ CommitConflict(p)

Next ==
    \/ ClusterStep
    \/ \E p \in Process :
           \/ Get(p) \/ TimerFires(p) \/ Sweep(p)
           \/ ReconcileStep(p)
           \/ CallFails(p) \/ CommitUnknown(p)
           \/ Crash(p) \/ Restart(p)

Spec == Init /\ [][Next]_vars

\* Workers, timers, the sweeper and the kubelet keep going; the cluster and
\* the faults owe nothing.
FairSpec ==
    /\ Spec
    /\ \A p \in Process :
           /\ WF_vars(Get(p)) /\ WF_vars(ReconcileStep(p))
           /\ WF_vars(TimerFires(p)) /\ WF_vars(Sweep(p))
           /\ WF_vars(Restart(p))

-----------------------------------------------------------------------------
(* Safety, whatever the number of processes.                               *)

\* Commits are neither lost nor doubled: the version, the evaluations and the
\* committed transitions count the same, and the document shows the last one.
\* A retry after a lost answer, a crash, or another process doing the same
\* work is absorbed by the evaluation identity (Store.Commit).
CommitsAreCounted ==
    IF incident = None
      THEN log = <<>> /\ evaluations = {}
      ELSE /\ incident.version = 1 + Len(log)
           /\ Cardinality(evaluations) = Len(log)
           /\ log # <<>> => incident.status = log[Len(log)].status

\* A commit is decided from the document it replaces: what happened to the
\* incident since GetIncident is never overwritten (updateIncident's
\* expected version).
CommitsBuildOnLatest ==
    [][evaluations' # evaluations =>
          \E p \in Process : pc[p] = "commit" /\ pc'[p] = "idle" /\ work[p].previous = incident]_vars

\* An evaluation never refers to a snapshot that is not stored, whatever call
\* fails: persist writes the snapshot first.
EvaluationsHaveSnapshots == {e[1] : e \in evaluations} \subseteq snapshots

\* The document and its transactions, as the incident they stand for.
I == INSTANCE Incident WITH
        Decision <- Identities,
        status <- IF incident = None THEN "absent" ELSE incident.status,
        taken <- evaluations,
        announced <- log

\* Any number of processes that crash, retry and race implement the contract of
\* one incident that is decided step by step: Store.Commit is one transaction,
\* keyed by the evaluation and by the version that was read.
ImplementsIncident == I!Spec

(* With one process: a key is never reconciled by two workers at once.     *)

\* Consumers see incident.opened at most once and before anything else of
\* the incident (persist's created flag, through crashes and retries).
OpenedComesFirst == \A i \in 2 .. Len(log) : log[i].event # "opened"

\* A reconciliation that returns nil leaves the incident in the state its
\* rule result calls for (Reconcile's early returns, the identity check of
\* Commit).
OutcomeIsStored ==
    [][\A p \in Process :
          /\ pc[p] # "idle" /\ pc'[p] = "idle"
          /\ work'[p].result # "no_match" /\ incident' # None
          => incident'.status = statusFor(work'[p].result)]_vars

\* A reconciliation that finds the object recovered or deleted leaves the
\* incident resolved (Reconcile, resolveDeletion).
RecoveryResolves ==
    [][\A p \in Process :
          /\ pc[p] # "idle" /\ pc'[p] = "idle"
          /\ isRecovery(work'[p].result) /\ incident' # None
          => incident'.status = "resolved"]_vars

-----------------------------------------------------------------------------
(* Liveness, with one process.                                             *)

IsOpen == incident # None /\ incident.status = "open"

\* The incident says what the rules would say of the object now.
Agrees ==
    CASE object = None -> ~IsOpen
      [] object # None /\ Finding[object] = "ignored" -> incident # None /\ incident.status = "suppressed"
      [] OTHER -> IsOpen = Matches(object, elapsed)

\* What the agreement of object and incident rests on: when a key is neither
\* queued nor being reconciled, the incident agrees with the object.  The
\* exceptions are an open incident of an Event, whose key the sweeper adds
\* again, and one whose object is gone, for the initial list does not show it.
\* No failed call, lost answer, crash or early return makes a process forget
\* what it has to do.
NothingIsMissed ==
    \A p \in Process : up[p] /\ pc[p] = "idle" /\ ~queued[p] =>
        Agrees \/ (IsOpen /\ (IsEvent \/ object = None))

\* Once the object changes no more, the incident comes to agree with it and
\* stays so, through failed calls and restarts: watch events, rate-limited
\* retries, the Event requeue and the sweeper together miss nothing.
EventuallyAgrees == <>[]Agrees

\* Without sweeper, for every kind: the same while no process goes down, with
\* any calls failing (the rate-limited retry of runWorker).
AgreesUnlessDown == ([](\A p \in Process : up[p])) => EventuallyAgrees

\* And with processes going down, as long as the object exists (the initial
\* list of the informers).
LiveObjectsAgree == <>[](object # None => Agrees)

\* An incident does not stay open when its object is gone.
DeletionResolves == [](object = None => <>[]~IsOpen)

=============================================================================
