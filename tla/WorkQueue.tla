----------------------------- MODULE WorkQueue ------------------------------
(***************************************************************************)
(* kube.Manager: informers whose callbacks put keys into a client-go work  *)
(* queue, workers that reconcile them, and the shutdown that stops the     *)
(* callbacks, drains the queue and joins the workers.  The queue is        *)
(* external: a FIFO of keys, the set of dirty keys, the set of keys being  *)
(* processed and the keys that wait for a delayed re-add.                  *)
(***************************************************************************)
EXTENDS Naturals, Sequences

CONSTANTS
    Key,      \* resource keys
    Worker,   \* the goroutines of runWorker
    None      \* no key

ASSUME WorkQueueAssumption == None \notin Key

VARIABLES
    cancelled,   \* the context of Manager.Run is done
    manager,     \* where Manager.Run is, see ManagerSteps
    accepting,   \* EventHandler.accepting is still open
    watched,     \* keys with a change the informer has not called back for
    notifying,   \* callbacks that are past the accepting test and not yet in Add
    queue,       \* the queue's FIFO
    dirty,       \* keys that need processing
    processing,  \* keys that workers hold
    delayed,     \* keys that wait for AddAfter or AddRateLimited
    shutting,    \* the queue is shutting down
    worker,      \* worker: where runWorker is, see WorkerSteps
    item,        \* worker: the key it holds, or None
    unseen       \* key: "yes" a change no reconciliation has read, "read" one
                 \* is at work on it, "no" the last change has been reconciled

queueVars == <<queue, dirty, processing, delayed, shutting>>
workerVars == <<worker, item>>
informerVars == <<accepting, watched, notifying>>
managerVars ==
    <<cancelled, manager, informerVars, queueVars, workerVars, unseen>>

ManagerSteps == {"new", "sync", "running", "stopping", "draining", "joining", "returned"}
WorkerSteps == {"off", "get", "resolve", "finish", "done", "exited"}

\* The variables have the types of the fields and channels they stand for.
QueueTypeOK ==
    /\ cancelled \in BOOLEAN
    /\ manager \in ManagerSteps
    /\ accepting \in BOOLEAN
    /\ watched \subseteq Key
    /\ notifying \subseteq Key
    /\ queue \in Seq(Key)
    /\ dirty \subseteq Key
    /\ processing \subseteq Key
    /\ delayed \subseteq Key
    /\ shutting \in BOOLEAN
    /\ worker \in [Worker -> WorkerSteps]
    /\ item \in [Worker -> Key \cup {None}]
    /\ unseen \in [Key -> {"no", "yes", "read"}]

\* Every object that exists will be listed.
QueueInit ==
    /\ cancelled = FALSE
    /\ manager = "new"
    /\ accepting = TRUE
    /\ watched = Key
    /\ notifying = {}
    /\ queue = <<>>
    /\ dirty = {}
    /\ processing = {}
    /\ delayed = {}
    /\ shutting = FALSE
    /\ worker = [w \in Worker |-> "off"]
    /\ item = [w \in Worker |-> None]
    /\ unseen = [k \in Key |-> "yes"]

-----------------------------------------------------------------------------
(* The client-go queue.                                                    *)

\* Add: nothing once the queue shuts down; a key that is dirty already is not
\* added twice; a key that is being processed enters the FIFO when it is done.
Add(k) ==
    IF shutting \/ k \in dirty
      THEN UNCHANGED <<queue, dirty>>
      ELSE /\ dirty' = dirty \cup {k}
           /\ queue' = IF k \in processing THEN queue ELSE Append(queue, k)

\* AddAfter and AddRateLimited.
AddDelayed(k) == delayed' = IF shutting THEN delayed ELSE delayed \cup {k}

\* The waiting loop adds a key whose delay is over; shutdown ends the loop.
DelayOver(k) ==
    /\ k \in delayed /\ ~shutting
    /\ delayed' = delayed \ {k}
    /\ Add(k)
    /\ UNCHANGED <<cancelled, manager, informerVars, processing, shutting, workerVars, unseen>>

-----------------------------------------------------------------------------
(* The cluster and the informers.                                          *)

\* An object is created, changed or deleted; the watch will tell.  Changes
\* after the context is done are left out: callbacks for earlier ones are
\* under way then, and nothing is claimed of what they lead to.
Change(k) ==
    /\ ~cancelled
    /\ unseen' = [unseen EXCEPT ![k] = "yes"]
    /\ watched' = watched \cup {k}
    /\ UNCHANGED <<cancelled, manager, accepting, notifying, queueVars, workerVars>>

\* OnAdd, OnUpdate, OnDelete: the handler tests accepting first.
Callback(k) ==
    /\ k \in watched /\ manager # "new"
    /\ watched' = watched \ {k}
    /\ notifying' = IF accepting THEN notifying \cup {k} ELSE notifying
    /\ UNCHANGED <<cancelled, manager, accepting, queueVars, workerVars, unseen>>

\* And then adds the key; Stop and the shutdown may have come in between.
Enqueue(k) ==
    /\ k \in notifying
    /\ notifying' = notifying \ {k}
    /\ Add(k)
    /\ UNCHANGED <<cancelled, manager, accepting, watched, processing, delayed, shutting,
                   workerVars, unseen>>

\* The sweeper's Manager.Add, which does not look at accepting.
SweepAdd(k) ==
    /\ Add(k)
    /\ UNCHANGED <<cancelled, manager, informerVars, processing, delayed, shutting, workerVars, unseen>>

-----------------------------------------------------------------------------
(* runWorker.                                                              *)

\* Mutant: Done is called at once, not deferred.
MutGet(w) ==
    /\ worker[w] = "get" /\ queue # <<>>
    /\ queue' = Tail(queue)
    /\ dirty' = dirty \ {Head(queue)}
    /\ worker' = [worker EXCEPT ![w] = "resolve"]
    /\ item' = [item EXCEPT ![w] = Head(queue)]
    /\ UNCHANGED <<cancelled, manager, informerVars, processing, delayed, shutting, unseen>>

Get(w) ==
    /\ worker[w] = "get" /\ queue # <<>>
    /\ queue' = Tail(queue)
    /\ dirty' = dirty \ {Head(queue)}
    /\ processing' = processing \cup {Head(queue)}
    /\ worker' = [worker EXCEPT ![w] = "resolve"]
    /\ item' = [item EXCEPT ![w] = Head(queue)]
    /\ UNCHANGED <<cancelled, manager, informerVars, delayed, shutting, unseen>>

\* What is still queued when the shutdown begins is handed out; then Get says shutdown.
GetShutdown(w) ==
    /\ worker[w] = "get" /\ queue = <<>> /\ shutting
    /\ worker' = [worker EXCEPT ![w] = "exited"]
    /\ UNCHANGED <<cancelled, manager, informerVars, queueVars, item, unseen>>

\* The reconciliation reads the object as it is now.
Resolve(w) ==
    /\ worker[w] = "resolve" /\ ~cancelled
    /\ unseen' = [unseen EXCEPT ![item[w]] = IF @ = "yes" THEN "read" ELSE @]
    /\ worker' = [worker EXCEPT ![w] = "finish"]
    /\ UNCHANGED <<cancelled, manager, informerVars, queueVars, item>>

\* Mutant: a failure is not added again.
MutReconciledFailureForgotten(w, result) ==
    /\ worker[w] \in {"resolve", "finish"}
    /\ worker[w] = "resolve" => result = "error"
    /\ unseen' = [unseen EXCEPT ![item[w]] =
                     IF @ = "read" THEN IF result = "error" THEN "yes" ELSE "no" ELSE @]
    /\ IF result = "requeue" /\ ~cancelled THEN AddDelayed(item[w]) ELSE UNCHANGED delayed
    /\ worker' = [worker EXCEPT ![w] = "done"]
    /\ UNCHANGED <<cancelled, manager, informerVars, queue, dirty, processing, shutting, item>>

\* Mutant: the key is let go before it is added again.
MutReconciledLetGo(w, result) ==
    /\ worker[w] = "finish"
    /\ item' = [item EXCEPT ![w] = None]
    /\ delayed' = delayed \cup {item'[w]}
    /\ worker' = [worker EXCEPT ![w] = "done"]
    /\ UNCHANGED <<cancelled, manager, informerVars, queue, dirty, processing, shutting, unseen>>

\* The reconciliation returns: "ok", "requeue" with a delay, or "error", the
\* only answer when the context is done before the object is read.  Failures
\* and requeues are added again as long as the context is not done.
Reconciled(w, result) ==
    /\ worker[w] \in {"resolve", "finish"}
    /\ worker[w] = "resolve" => result = "error"
    /\ unseen' = [unseen EXCEPT ![item[w]] =
                     IF @ = "read" THEN IF result = "error" THEN "yes" ELSE "no" ELSE @]
    /\ IF result \in {"error", "requeue"} /\ ~cancelled THEN AddDelayed(item[w]) ELSE UNCHANGED delayed
    /\ worker' = [worker EXCEPT ![w] = "done"]
    /\ UNCHANGED <<cancelled, manager, informerVars, queue, dirty, processing, shutting, item>>

\* Mutant: Done does not put a key that became dirty meanwhile back into the FIFO.
MutDoneForgetsDirty(w) ==
    /\ worker[w] = "done"
    /\ processing' = processing \ {item[w]}
    /\ worker' = [worker EXCEPT ![w] = "get"]
    /\ item' = [item EXCEPT ![w] = None]
    /\ UNCHANGED <<cancelled, manager, informerVars, queue, dirty, delayed, shutting, unseen>>

\* The deferred queue.Done.
Done(w) ==
    /\ worker[w] = "done"
    /\ processing' = processing \ {item[w]}
    /\ queue' = IF item[w] \in dirty THEN Append(queue, item[w]) ELSE queue
    /\ worker' = [worker EXCEPT ![w] = "get"]
    /\ item' = [item EXCEPT ![w] = None]
    /\ UNCHANGED <<cancelled, manager, informerVars, dirty, delayed, shutting, unseen>>

Results == {"ok", "requeue", "error"}

WorkerStep(w) ==
    Get(w) \/ GetShutdown(w) \/ Resolve(w) \/ Done(w) \/ \E r \in Results : Reconciled(w, r)

-----------------------------------------------------------------------------
(* Manager.Run.                                                            *)

StartInformers ==
    /\ manager = "new"
    /\ manager' = "sync"
    /\ UNCHANGED <<cancelled, informerVars, queueVars, workerVars, unseen>>

\* WaitForCacheSync returns true: the workers start.
CachesSynced ==
    /\ manager = "sync"
    /\ manager' = "running"
    /\ worker' = [w \in Worker |-> "get"]
    /\ UNCHANGED <<cancelled, informerVars, queueVars, item, unseen>>

\* It returns false, which it does only once the context is done.
CachesNotSynced ==
    /\ manager = "sync" /\ cancelled
    /\ manager' = "returned"
    /\ accepting' = FALSE
    /\ shutting' = TRUE
    /\ UNCHANGED <<cancelled, watched, notifying, queue, dirty, processing, delayed, workerVars, unseen>>

StopHandler ==
    /\ manager = "running" /\ cancelled
    /\ manager' = "stopping"
    /\ accepting' = FALSE
    /\ UNCHANGED <<cancelled, watched, notifying, queueVars, workerVars, unseen>>

\* ShutDownWithDrain shuts the queue down and waits until no key is processed.
ShutDown ==
    /\ manager = "stopping"
    /\ manager' = "draining"
    /\ shutting' = TRUE
    /\ UNCHANGED <<cancelled, informerVars, queue, dirty, processing, delayed, workerVars, unseen>>

Drained ==
    /\ manager = "draining" /\ processing = {}
    /\ manager' = "joining"
    /\ UNCHANGED <<cancelled, informerVars, queueVars, workerVars, unseen>>

\* Mutant: Run returns after the drain without workers.Wait().
MutJoinNobody ==
    /\ manager = "joining"
    /\ manager' = "returned"
    /\ UNCHANGED <<cancelled, informerVars, queueVars, workerVars, unseen>>

\* workers.Wait().
Join ==
    /\ manager = "joining"
    /\ \A w \in Worker : worker[w] = "exited"
    /\ manager' = "returned"
    /\ UNCHANGED <<cancelled, informerVars, queueVars, workerVars, unseen>>

ManagerStep ==
    StartInformers \/ CachesSynced \/ CachesNotSynced \/ StopHandler \/ ShutDown \/ Drained \/ Join

-----------------------------------------------------------------------------

\* The context is cancelled.
Cancel ==
    /\ cancelled' = TRUE
    /\ UNCHANGED <<manager, informerVars, queueVars, workerVars, unseen>>

ClientStep(k) == Change(k) \/ Callback(k) \/ Enqueue(k) \/ DelayOver(k) \/ SweepAdd(k)

QueueNext ==
    \/ \E k \in Key : ClientStep(k)
    \/ \E w \in Worker : WorkerStep(w)
    \/ ManagerStep
    \/ Cancel

QueueSpec == QueueInit /\ [][QueueNext]_managerVars

-----------------------------------------------------------------------------

\* A key is with one worker at a time, so that two reconciliations of one
\* object never overlap in a process (the deferred Done of runWorker, and
\* Add of a key that is being processed).
OneWorkerPerKey ==
    \A v, w \in Worker : item[v] # None /\ item[v] = item[w] => v = w

\* No change is forgotten while the manager runs: as long as no successful
\* reconciliation has read it, its key is on its way to a worker (callbacks,
\* dirty keys, the rate-limited re-add after an error in runWorker).
NoUpdateLost ==
    ~cancelled => \A k \in Key :
        /\ unseen[k] = "yes" =>
               \/ k \in watched \cup notifying \cup delayed
               \/ \E i \in 1 .. Len(queue) : queue[i] = k
               \/ k \in dirty /\ k \in processing
               \/ \E w \in Worker : item[w] = k /\ worker[w] = "resolve"
        /\ unseen[k] = "read" => \E w \in Worker : item[w] = k /\ worker[w] = "finish"

\* When Manager.Run returns, no worker is at a reconciliation and none will
\* start one, although callbacks, timers and the sweeper may still call Add
\* (Stop, ShutDownWithDrain and Wait in this order).
ReturnedMeansStopped ==
    manager = "returned" =>
        /\ shutting /\ processing = {}
        /\ \A w \in Worker : worker[w] \in {"off", "exited"}

\* While the manager runs, every change of an object leads to a reconciliation
\* that is about to read it: workers, callbacks and delays keep going
\* (Done of a key that became dirty, AddRateLimited).
ChangesAreReconciled ==
    \A k \in Key :
        manager = "running" /\ unseen[k] = "yes" ~>
            \/ unseen[k] # "yes" \/ cancelled
            \/ \E w \in Worker : item[w] = k /\ worker[w] = "resolve"

=============================================================================
