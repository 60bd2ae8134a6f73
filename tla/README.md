# RuleRaven in TLA+

RuleRaven watches Kubernetes objects, decides by rules (and, for Warning Events,
with the help of a language-model provider) whether they are incidents, keeps the
incidents in MongoDB and tells consumers about their transitions by webhooks.
This directory models it from the informer callback to the webhook and from
`main` to its exit, checks the models with TLC on small instances, and proves
almost all of their safety properties with TLAPS for every instance.

## The system

| Part | Code | State | Operations |
|---|---|---|---|
| Informers, event handler, work queue | `internal/kube` | queue, delayed adds, informer cache | enqueue, worker loop, rate-limited and delayed re-add, drain |
| Reconciler | `internal/controller/reconciler.go` | local variables only | resolve, read incident, evaluate, upsert, snapshot, decide, commit |
| Resolution sweeper | `internal/controller/resolution_sweeper.go` | none | re-add the keys of open Event incidents |
| Rule engine | `internal/rules` | none | disposition of a snapshot from content, age and open incident |
| Composer, questions | `internal/decision` | none | decision from rule result and provider answers |
| Providers | `internal/provider` | none | request, retry, validate |
| Normalizer, redactor, fingerprint | `internal/kube` | none | object to snapshot, content hash |
| Store | `internal/store/mongo` | incidents, snapshots, evaluations, outbox | upsert, versioned update, commit transaction, claim, complete, reschedule |
| Dispatcher | `internal/notify/dispatcher.go` | local variables of its goroutines | claim, send, complete or reschedule, poll |
| Webhook notifier | `internal/notify/webhook` | none | send, classify the answer |
| Application | `internal/app`, `cmd/ruleraven` | runners, readiness | start, stop at the first error, close |
| Health, telemetry, configuration | `internal/health`, `internal/telemetry`, `internal/config` | readiness flags, metrics | |

They interact in a line.  An informer callback puts a key into the queue; a worker
reconciles the key: it fetches the object, reads the incident, evaluates the
rules, and commits incident, evaluation and outbox rows in one transaction; the
goroutines of the dispatcher lease outbox rows, call the receiver, and mark the
rows delivered, failed or due again.  The processes share nothing but the store.
Around this, `main` builds everything in order, `App.Run` runs manager, sweeper,
dispatcher and health server until the first of them returns or a signal comes,
and then cancels the others, waits for them for a limited time and closes the store.

What makes this hard is the store between calls.  A reconciliation makes up to
six calls, and the object, the clock, another process or a crash may come between
any two.  Nothing but the store survives a crash.  A call that fails may have
been applied.  Leases run out while their holders work.  Rule results depend on
time, which the content hash leaves out.  The entries of `hazards` in
`PROJECT.json` list where in the code each of these bites, and which property
covers it.

## Modules

| Module | What it is |
|---|---|
| `Notification` | What consumers are promised of one outbox row: marked delivered only if the receiver accepted it; delivered and failed are final; every row settles |
| `RetryDelay` | The doubling loop of `Dispatcher.backoff` and `RetryPolicy.backoff` |
| `Outbox` | Outbox rows, the dispatcher's goroutines, the receiver, time |
| `MCOutbox` | Its instances for TLC |
| `OutboxProofs` | Its theorems: the refinement of `Notification`, leases, owners and attempts |
| `Reconciler` | One incident: its object, the processes' queues and reconciliations, the documents |
| `MCReconciler` | Its instances for TLC |
| `Incident` | What is promised of one incident: decided step by step, each decision once, resolutions only of what was not resolved, opened once |
| `ReconcilerProofs` | Its theorems for any number of processes, and the refinement of `Incident` |
| `OutcomeProofs`, `MissedProofs` | Its theorems about what a reconciliation leaves behind, and that no change is missed |
| `WorkQueue` | `kube.Manager`: callbacks, the client-go queue, workers, shutdown |
| `Lifecycle` | One process around `WorkQueue`: `main`, `NewProduction`, `App.Run` and its runners, readiness |
| `MCLifecycle` | Its instance for TLC |
| `LifecycleProofs` | The theorems about `WorkQueue` and `Lifecycle` |
| `Snapshot` | Normalizer and content hash, as operators |
| `Rules` | The rule engine, as operators |
| `Composer` | Rubric, answer schema, answer validation and composition, as operators |
| `Response` | What the provider clients accept of a body, as operators |
| `Provider` | One call of a provider: attempts, delays, timeouts |
| `Evaluation` | One pass from the object to the committed decision, on the five modules above |
| `MCEvaluation` | Its instances for TLC |
| `OperatorProofs` | Theorems about the loop of `RetryDelay`, and the lemmas about sorting in `Snapshot` |
| `EvaluationProofs` | Theorems about `Evaluation`: time, the order of providers, answers and composition |
| `DecisionProofs` | Theorems about `Evaluation`: from an object to what is decided of it |

### Outbox

A row has the fields of its document.  Time is kept relative to now: `wait` is
`next_attempt_at - now`, `lease` is `lease_until - now`, `held` is the time since
a worker read the clock for its claim; `Tick` moves all of them.  A worker is one
goroutine of `Dispatcher.Run`; the lease owner is its process, because the code
gives all goroutines of a process the same `WorkerID`.

`Claim`, `NothingEligible`, `ClaimError`, `Deliver`, `Finalize`,
`FinalizeConflict` and `FinalizeError` are the exits of the calls that
`DispatchOne` makes, in their order.  `Receive` is the receiver's side of the
webhook, so that an answer can be lost after the request was accepted.
`ClaimError` and `FinalizeError` include the case that the server applied the
update and only the answer was lost.  A worker that found nothing, or failed,
waits until the other goroutines of its process are done; `StartRun` is the next
poll of the periodic runner or the restart of the process.  `Stop` is a crash or
a cancelled context: claimed rows stay leased.

The reasons for which a send fails are reduced to the distinction that
`DispatchOne` makes: retryable (also a deadline) or permanent.  The payload is left out.

Bounds: `MaxHold` is the longest time from a claim to its finalization.
`MaxClaims` bounds the claims of one row (5, more than 2 attempts and 2 faults can use).
`MaxAge` is how far overdue rows are told apart by the sort of `ClaimDelivery`.
`MaxFaults` bounds crashes and store errors.

**`MaxHold < LeaseDuration` is not enforced by the code**: the destination
timeout is not compared with the lease, and name resolution before the request
is not under that timeout.  `OutboxLease` and three of the theorems assume it;
`OutboxSlowSend`, `OutboxSharedOwner` and the other theorems do without.

### Reconciler

The model follows one incident key.  `object` is the content of the Kubernetes
object, that is, everything the content hash covers; `Finding` says what the
rules see in each content.  What the rules use and the hash leaves out is time,
and `elapsed` says whether the minimum age or, for an Event, the quiet period is over.  `Change`,
`Restamp`, `Touch`, `Delete` and `Elapse` are the cluster's steps; running
informers turn each of them but the last into a queued key.

A reconciliation is one step per outside call: `Resolve`, `GetIncident` (with
rule evaluation and early returns), `UpsertIncident` and `RereadIncident` (the two
calls of the store's `UpsertIncident`), `UpsertSnapshot`, and the transaction as
`Commit`, `CommitExists`, `CommitConflict` or `CommitUnknown` (committed, answer
lost).  `CallFails` is a failed call or the reconcile timeout, `Crash` and
`Restart` the process.  The rules read the clock after the object was fetched, so
time may have passed in between (`DueNow`), also for an object that is no longer
current.  `Sweep` is the sweeper, `TimerFires` the delayed re-add of a semantic Event.

A decision is reduced to whether it has deliveries (`Notifies`).  The history of
commits, `log`, is kept as a variable: each entry has the incident's new status,
the event type and whether there are outbox rows.

`Incident` is what all this amounts to for somebody who reads the incident and
its notifications: there are no processes, versions or retries in it.  Its status
is that of the incident's document, its decisions are the identities of
evaluations, and its announcements are `log`.

Bounds: `MaxFaults` crashes, failed calls and lost answers.  With `Flapping`
FALSE the object takes each content at most once; with it, contents and
transition times may come back.

### WorkQueue and Lifecycle

`WorkQueue` has the queue of client-go as the code uses it: a FIFO, the dirty
keys, the keys in processing, the delayed keys, and the flag of the shutdown.
These definitions are external.  A callback is two steps, `Callback` (the test
of `accepting`) and `Enqueue` (the `Add`), because the shutdown may come between
them.  A worker is one goroutine of `runWorker`: `Get`, `Resolve` (the
reconciliation reads the object), `Reconciled` (it returns, and the key is added
again after an error or for a requeue), `Done`.  `unseen` is a history variable:
whether the last change of an object has been read by a reconciliation and
whether that one succeeded.  `StartInformers` to `Join` are the statements of
`Manager.Run` in their order.

`Lifecycle` adds the main goroutine (`stage`), the MongoDB client, the readiness
gates, and the other three runners by what they return.  `Build(i)` and
`BuildFails(i)` are the stages of `NewProduction` after the store is ready.  A
runner's return and its receipt by `App.Run` are one step: the channel has room
for every result and `App.Run` does nothing else than wait for it.  A signal may come
at any time.  The sweeper, the dispatcher and the health server may fail, return
or hang; what they do to rows and incidents is in `Outbox` and `Reconciler`.

### Evaluation

`Reconciler` takes the outcome of rules and providers as given; `Evaluation`
computes it.  `Resolve`, `Load`, `Decide`, `Returned` and `Commit` are the
stretches of `Reconcile` between its waits, and `Calling` is a step of the call
of the provider that is being asked.  `left` is what remains of the reconcile
timeout, `budget` what remains of the provider's total timeout; `Tick` moves
them while a request or a sleep is under way, and the calls of the store take up
to `StoreTime` before `decide` and again in `Commit`.  A request ends as soon as
its context is done, or before.

Data are abstracted to what is told apart.  Transition times are ages; a hash is
the value that is hashed; probabilities and scores are whole hundredths (the
code's tolerances are smaller); a response is a record of the features that the
clients test; a status is its number.  Strings that are sorted are words of a
`Dictionary`, which lists them in Go's order; `sortSlice` is `sort.Slice`: some
order that respects the keys, equal keys in any order.  Sorting, the label allow list, the size
limit, defaults for absent fields, and every threshold of rules and composer are as in the code.

`MaxItems` stands for the limit on the size of a normalized state, counted in
conditions, containers and labels.  `MaxRetryAfter`, `MaxBackoff`, `MaxAttempts`
and the timeouts are the code's parameters, in ticks.

## Runs

| Run | Instance | Result |
|---|---|---|
| `outbox_lease` | 1 process, 2 goroutines, 2 rows, 2 attempts, 2 faults, sends within the lease | 116,428 states; no `ErrConflict`, attempts bounded, every row settles |
| `outbox_slow_send` | 2 processes, 1 goroutine each, sends may outlast the lease | 6,619 states; leases still exclude, only holders release, with a ground for giving up and a delay for a retry, and the contract is kept: the owner differs |
| `outbox_shared_owner` | 1 process, 2 goroutines, sends may outlast the lease | `LeaseExclusive` violated |
| `reconciler_two_processes` | 2 processes, an Event with 2 contents that may return, 1 fault | 1,031,134 states; commits, resolutions and snapshots in order, `Incident` implemented |
| `reconciler_event` | 1 process, an Event with 3 contents, 3 faults | 161,195 states; opened first, results stored, nothing missed between reconciliations, eventual agreement |
| `reconciler_job` | 1 process, a Job with 3 contents, 2 faults | 19,028 states; nothing missed between reconciliations, eventual agreement unless deleted while down |
| `reconciler_down` | the same, 1 fault | `DeletionResolves` violated |
| `reconciler_return` | a Deployment that returns to earlier contents, no faults | `RecoveryResolves` violated |
| `reconciler_aging` | a Deployment that ages, no faults | `OutcomeIsStored` violated |
| `lifecycle` | 1 key, 2 workers, every failure, a signal at any time | 301,990 states; exclusion, no lost change, shutdown order, exit status, readiness; the process ends and changes are reconciled |
| `evaluation` | 483 objects, 169 bodies, 3 pairs of providers, 3 attempts, total timeout 4, reconcile timeout 11 | 144,078 states; time bounds, fallback order, ignore lists, paging, hash, listing order, evidence, schema; every pass ends |
| `evaluation_timeout` | the default timeouts in ticks of 5 s | `EveryDecisionIsCommitted` violated |

The bounds are small and the cases still happen.  Two goroutines and two rows
are enough for a stale finalizer, a re-claim and a competing row; a lease of two
ticks has a time within and one after it.  Two contents that may return, and
three that may not, allow every sequence of match, no match and ignored that the
early returns and the identity check tell apart.  One fault in two processes and
three in one put a crash or lost answer between any two calls.  Processes are
symmetric in `reconciler_two_processes`, which checks safety only.  Its two contents
allow one decision that opens, so reopenings, which "opened at most once" is about,
happen in `reconciler_event`, where opened even comes first; for several processes
the theorem covers them.

Two workers on one key are what exclusion and the dirty set are about; the
theorems cover any number of both.  The objects of `evaluation` have ages and
counts on both sides of every threshold, one and two containers, conditions in
both orders, every kind, labels that are allowed, dropped and sensitive; the
bodies are genuine for one protocol each or have one defect each, and the answers
lie on both sides of every threshold.  Total timeout 4 is more than three
immediate attempts and less than three slow ones; reconcile timeout 11 is the
smallest that leaves room for two providers and the store.

The reconciler's runs do not check deadlock: once the object is deleted and its
incident settled, the modelled system rests.  Nor does `lifecycle`: a process that
has exited stays so.

### Fairness

`Outbox`: every goroutine gets on with its own step (it never waits for anything
but a call with a time limit), the periodic runner polls again, time passes.
The receiver owes nothing.  `Reconciler`: workers take queued keys and finish
their calls, timers fire, the sweeper runs periodically, and the Deployment
restarts a stopped process.  The cluster owes nothing and faults are bounded, so
liveness says: once faults and changes stop.

`Lifecycle`: the main goroutine, its timer, the manager and the workers get on
(reconciliations have a timeout), delays end, and informers call back for the
changes they have been told of.  Sweeper, dispatcher and health server owe
nothing, nor does the API server for the first list, so `ProcessEnds` holds even
if they hang.  `Evaluation`: time passes, contexts end what runs under them, and the
reconciler goes on; providers owe nothing.

### What the violated properties show

1. `LeaseExclusive` (`outbox_shared_owner`).  The finalizing update filters on
   status and owner.  With the owner shared by the goroutines of a process, a
   goroutine that outlasts its lease finalizes the claim of another one.  The row
   becomes pending while it is being sent, and is claimed a third time.
2. `RecoveryResolves` (`reconciler_return`).  The identity of an evaluation does
   not contain the incident's status.  A recovery under a hash that was
   evaluated before is taken for a repetition and the incident stays open.
3. `OutcomeIsStored` (`reconciler_aging`).  A content first seen below the
   minimum age resolves the incident under its hash; when it has aged, the
   failure meets an unchanged hash and is dropped.
4. `DeletionResolves` (`reconciler_down`).  The initial list names existing
   objects only and the sweeper looks at Events only.
5. `EveryDecisionIsCommitted` (`evaluation_timeout`).  Each of the two providers
   has a total timeout of its own, and nothing relates them to the reconcile
   timeout under which the decision is committed.  With the defaults, two
   providers that do not answer leave no time for the commit of the fallback
   decision.  `EnoughTimeCommits` says what would suffice.

The lines of code and the sentences they disagree with are under `findings`.

## Proofs

`OutboxProofs`

- `TypeCorrect`: type correctness; in particular no hint or backoff gets past `maxBackoff`.
- `OutboxRefinesNotification`: the safety part of `Notification`, for any number
  of processes, goroutines and rows and any `MaxHold`.  The invariant says that a
  worker about to report success has had its delivery accepted; every
  step is then a step of `Notification` or leaves its variables unchanged.
- `LeasesAreExclusive`, `FinalizersOwnTheirRows`, `AttemptsAreBounded`, assuming
  `MaxHold < LeaseDuration`.  The property itself is not inductive.  The invariant
  adds what ties a worker to its row: the row is leased by the worker's process,
  carries its attempt, and its lease and the worker's holding time add up to at
  least `LeaseDuration`; no two busy workers have the same row.  It follows that a
  busy worker's lease has not run out, so nobody can claim its row.
  The bound on attempts also needs that a row that is leased and has no worker was
  left by a fault that has been counted.
- `OwnersExclude`: leases exclude each other for any `MaxHold`, if every process
  has a single dispatching goroutine.  The invariant speaks of a worker's lease
  only while it has not run out, and says of a row that carries the name of a busy
  worker's process that this worker was the last to claim it.  So a
  worker that comes late either still has the latest claim or fails the filter on the owner.
- `LateFinalizersAreFenced`: under either hypothesis, only the latest claimant of a
  row releases it.  It gives the row up only after a refusal for good or with all
  attempts used, so a lost answer alone never ends a delivery; otherwise it puts the
  row back with a delay from 1 to `maxBackoff`.  `outbox_shared_owner` shows that one of the two is needed.

`ReconcilerProofs`, for any number of processes, contents and faults

- `TypeCorrect`.
- `CommitsNeitherLostNorDoubled`, `NoDoubleResolution`, `SnapshotsComeFirst`,
  `NoLostUpdate`, from one invariant.  It adds to the properties that a
  reconciliation's copy is never newer than the document and, with the same
  version, *is* the document, that a reconciliation at its commit has stored its snapshot,
  and that a "recovered" or "deleted" result was computed from an incident that
  was not resolved.
  This is why the version filter suffices: whoever passes it has decided from the
  document that it replaces.
- `OpenedIsFirst`, for a single process: while a reconciliation that created the
  incident is under way, nothing has been committed.
- `ReconcilerRefinesIncident`: any number of processes implement `Incident`.  A
  commit is a decision, the insert of the document its recording, and every other
  step leaves what `Incident` sees unchanged.  Besides the invariant above, that opened is announced at
  most once needs `InsertedInv`: at most one reconciliation has inserted the
  document and not committed, and as long as there is one, opened was not announced.
  This holds with overlapping processes too, where opened may not come first.

`OutcomeProofs` and `MissedProofs`, for any number of contents and faults, under the hypothesis
`OneObject`: a single process; contents that do not come back (`~Flapping`); no
content with a minimum age, as for Events and Jobs; and, unless it is an Event, not
both an ignored and a healthy content.  `reconciler_event` and `reconciler_job` are such
instances.  The hypothesis cannot be dropped: `reconciler_aging` violates
`OutcomeIsStored` with an age, `reconciler_return` shows what returning contents do, and
the last part excludes the object that loses its ignored label (see the end).
An Event needs no such condition because its recovery has a hash of its own.

- `OutcomesAreStored`: a reconciliation that succeeds leaves the incident in the
  state that its result calls for.
- `ChangesAreNotMissed`: when the key is neither queued nor being reconciled by a
  running process, the incident agrees with the object, or it is open and is that of
  an Event, which the sweeper looks at again, or of an object that is gone.

  Both early exits, the unchanged hash and the existing evaluation, must not hide
  a result that the incident does not have yet.  `OutcomeInv` therefore says that
  contents are evaluated in the order in which the object has them: what has been
  evaluated is in the incident or is superseded, that is, neither the
  cluster nor a reconciliation has it any more; that the incident has the status its
  hash calls for; and that an Event found quiet stays quiet.  `CurrentInv` adds that a
  reconciliation whose key has not been queued again holds the current object.  So
  a reconciliation that returns has stored the current result or its key is queued;
  afterwards only time can make a difference, and it does so only to an open incident.

`LifecycleProofs`, for any keys and workers.  First the manager alone:

- `WorkersExclude`, `NothingIsForgotten`, `ManagerReturnsLast`, from one
  invariant: the FIFO holds exactly the dirty keys that are not in processing, each
  once; the keys in processing are those that workers hold, one each; the phase of
  `Manager.Run` determines context, flag and workers.  Exclusion alone is not
  inductive: it needs that a key in processing is never in the FIFO.

Then the process around it:

- `TypeCorrect`.
- `ProcessRunsManager`: `Lifecycle` implements `QueueSpec`.  The only steps that
  are not obviously a step of the manager are those that cancel its context.
  With it what is proved of the manager holds in a process
  (`ProcessLosesNothing`, `ProcessStopsWorkers`).
- `StoreOutlivesRunners`, `ExitStatusIsTrue`, `ReadinessIsTrue`.  The invariant
  relates stage, store and runners, and says why a process without a signal
  cannot exit with status 0: a runner returns nil or the cancellation only under
  a cancelled context, so the first result without a signal is an error.

`EvaluationProofs`, for any objects, bodies, providers, retry policies and timeouts

- `ProvidersKeepTheirTime`: in a call, time spent and budget add up to the
  total timeout, and the calls before it have used one total timeout each.
- `EnoughTimeCommits`, assuming `ReconcileTimeout > 2 * StoreTime + MostAsked *
  TotalTimeout`: no decision is lost to the timeout.  **The code does not enforce this.**
- `FallbackComesLast`, from what a semantic result looks like and from the
  fact that valid answers never compose to the fallback.
- `IgnoredExactly`, from the label allow list through the engine to `Compose`.
- `RulesAreAFloor`, `TriageIsMonotone`: lemmas about `Compose` for all evidence.
  In the code as it is the floor matters to no pass, since a result that is sent
  to a provider carries no decision of its own.
- `TypeCorrect`: a decision has a severity and an action that have a rank.
- `SchemaAdmits`: schema and validation are compared question by question.
- `RiskNeverLowers`: what was committed was composed from the last reply, and
  composition is monotone (`TriageIsMonotone`).

`OperatorProofs`, first of the loop, for any limits and any attempt

- `BackoffInRange`, `BackoffGrows`: the doubling loop stays within its limits and
  never shortens a delay.  `BackoffIsAsAssumed`: it has the values that `Outbox`
  and `Provider` assume of their constant `Backoff`.
  The function of the loop is defined by recursion; that it exists and what it
  computes is proved by induction, written as a set of numbers without a least
  element (`LeastNumber`, `Induction`).

Then of the snapshot, for any dictionary and lists of any length: `sort.Slice` has an
order to choose, by induction over the elements; two orders of the same elements
agree in their keys; so a list whose keys tell its elements apart has one sorted
form.  These lemmas carry two of the theorems of `DecisionProofs`, which holds
for any objects, bodies, providers, rubric answers and thresholds:

- `RulesFollow`: what the rules read of a snapshot is hashed or an age, so one hash
  and the same ages give one result.
- `ListingOrder`: an object and the same object with its lists reversed normalize
  to snapshots that have the same hash and the same result.  Built-in kinds have
  equal snapshots; a custom resource may have several conditions with one key, which the sort
  may leave in another order, but they differ in their times only, which are not
  hashed, and no rule looks at custom resources.
- `DownPaged`: through the sort, `FirstAge` still finds the condition that makes
  the object old enough; the match is critical; the rules' decision pages and
  `Compose` keeps it.
- `EvidenceAccepted`: a committed decision about a semantic result gives
  `provider_evidence` as reason exactly if the last body was accepted, and
  `provider_unavailable` exactly if it was not.

The assumptions on constants are named (`ProviderAssumption` and the like), and
TLC evaluates them on the runs of their modules.  `ObjectsAssumption` says what the
API guarantees of objects: the conditions of a built-in kind are a map by type, the
containers a map by name, an object keeps its namespace, counts are not negative.
`DictionaryAssumption` has two facts about Go's order of strings: no word is there
twice, and `Available` comes before `Progressing` and `Ready`.  `NilIsNoDecision`,
`NilIsNoChoice` and `NilIsNoStatus` say that nil is none of the values it may stand beside.

Only model-checked:

- The liveness properties `SettlesEveryDelivery`, `EventuallyAgrees`,
  `AgreesUnlessDown`, `LiveObjectsAgree`, `ProcessEnds`, `ChangesAreReconciled` and
  `EvaluationEnds`: fairness and `ENABLED` are outside the prover's reach.
  `NothingIsMissed` is the safety half of `EventuallyAgrees` and `LiveObjectsAgree`.
- `EvidenceIsGenuine`: it compares what the clients accept with the list of
  bodies that `MCEvaluation` constructs as genuine, independently of the clients' tests, and so
  is about that list.  `EvidenceAccepted` is what holds of any bodies.

With two overlapping processes `OpenedComesFirst` does not hold, because the
upsert and its second read are two calls.  The Helm chart's `Recreate` strategy
avoids the overlap, and no document promises more, so the property is stated for one process.
That opened is not announced twice holds for any number of them.

## Not modelled

- Expiry of documents: production never sets the expiry fields.
- How requests are written, address checks and signing of providers and webhooks,
  the mapping of documents, logging, metrics: data conversion and I/O.
  Redaction is reduced to one credential in an Event's message.
- Which answers of a receiver are retryable: the webhook's result classes are
  inputs of `Outbox`.
- Comparison and creation of indexes, and the validation of the configuration:
  both run once, alone, before anything else, and are steps of `Lifecycle` that may
  fail.  The smoke receiver is a tool for a manual test.
- A change of policy, rubric or provider configuration; they are constant
  while a process runs.
- `Reconciler`, `Outbox` and `Evaluation` are separate specifications.  They meet
  at the transaction, which creates rows as `Outbox` expects them, and at the rule
  result, which `Evaluation` computes and `Reconciler` takes as any value.  One
  specification of all three is out of TLC's reach.

Behaviour that is modelled and that no document speaks of:

- A failing object that reaches its minimum age without any further update is
  never reported, as nothing re-adds its key.  The liveness properties are
  checked on kinds without an age condition.
- An object that loses its ignored label while it is healthy has a suppressed
  incident and no match; its change is committed as open, with the fallback
  decision, although no provider was asked.
- A label selector whose key looks like a credential's never ignores anything:
  the normalizer drops the label.  `IgnoredIsSilent` leaves such keys out.
- The snapshot is stored before the transaction and outside it, so that one
  without an evaluation may remain.  The converse is proved.
- Providers' status 504 is not retried.  The readiness gates stay open during a
  shutdown.  Of several owners none of which controls, the first is hashed.
