----------------------------- MODULE Lifecycle ------------------------------
(***************************************************************************)
(* One process from main to exit: loading the configuration, NewProduction *)
(* with its clean-up, App.Run with its runners, the shutdown with its      *)
(* timeout, the closing of the store, and the readiness gates.  The        *)
(* manager is the runner that WorkQueue models; its context is the one     *)
(* that App.Run cancels.                                                   *)
(***************************************************************************)
EXTENDS WorkQueue

VARIABLES
    stage,       \* where the main goroutine is, see Stages
    signalled,   \* SIGINT or SIGTERM: the context of main is done
    store,       \* the MongoDB client: "none", "open" or "closed"
    gates,       \* Readiness.checks
    runner,      \* the other runners: "off", "first", "running" or a result
    failed,      \* runErr is not nil
    timedOut     \* the shutdown timer fired before every runner had stopped

processVars == <<stage, signalled, store, gates, runner, failed, timedOut>>
vars == <<managerVars, processVars>>

Runners == {"manager", "sweeper", "dispatcher", "health"}
RunnerResults == {"nil", "canceled", "error"}

\* NewProduction after the store is ready: every stage may fail.
Building == <<"providers", "notifiers", "reconciler", "manager", "sweeper", "hostname", "dispatcher", "app">>
BuildStages == {Building[i] : i \in 1 .. 8}

Stages == {"load", "validate", "client", "connect", "verify"} \cup BuildStages
          \cup {"select", "waiting", "closing", "exited"}

\* The variables have the types of what they stand for.
TypeOK ==
    /\ QueueTypeOK
    /\ stage \in Stages
    /\ signalled \in BOOLEAN
    /\ store \in {"none", "open", "closed"}
    /\ gates \subseteq {"config", "mongo", "informers"}
    /\ runner \in [Runners \ {"manager"} -> {"off", "first", "running"} \cup RunnerResults]
    /\ failed \in BOOLEAN /\ timedOut \in BOOLEAN

Init ==
    /\ QueueInit
    /\ stage = "load"
    /\ signalled = FALSE
    /\ store = "none"
    /\ gates = {}
    /\ runner = [r \in Runners \ {"manager"} |-> "off"]
    /\ failed = FALSE
    /\ timedOut = FALSE

-----------------------------------------------------------------------------
(* main and NewProduction.                                                 *)

Go(next) ==
    /\ stage' = next
    /\ UNCHANGED <<managerVars, signalled, runner, failed, timedOut>>

Abort ==
    /\ stage' = "exited"
    /\ failed' = TRUE
    /\ UNCHANGED <<managerVars, signalled, gates, runner, timedOut>>

\* run: flags, registries, config.Load.
LoadConfig ==
    /\ stage = "load"
    /\ Go("validate") /\ UNCHANGED <<store, gates>>

\* NewProduction marks the gate before it validates.
ValidateConfig ==
    /\ stage = "validate"
    /\ gates' = gates \cup {"config"}
    /\ Go("client") /\ UNCHANGED store

BuildClient ==
    /\ stage = "client"
    /\ Go("connect") /\ UNCHANGED <<store, gates>>

Connect ==
    /\ stage = "connect"
    /\ store' = "open"
    /\ Go("verify") /\ UNCHANGED gates

\* Nothing has been opened yet: the error is returned as it is.
EarlyFailure ==
    /\ stage \in {"load", "validate", "client", "connect"}
    /\ Abort /\ UNCHANGED store

\* Store.Ready under the context of main: ping and indexes.
Verify ==
    /\ stage = "verify" /\ ~signalled
    /\ gates' = gates \cup {"mongo"}
    /\ Go(Building[1]) /\ UNCHANGED store

VerifyFails ==
    /\ stage = "verify"
    /\ store' = "closed"
    /\ Abort

Build(i) ==
    /\ stage = Building[i]
    /\ Go(Building[i + 1]) /\ UNCHANGED <<store, gates>>

\* Mutant: one of the returns forgets the clean-up.
MutBuildFails(i) ==
    /\ stage = Building[i]
    /\ store' = IF stage = "hostname" THEN store ELSE "closed"
    /\ Abort

\* cleanup closes the store.
BuildFails(i) ==
    /\ stage = Building[i]
    /\ store' = "closed"
    /\ Abort

-----------------------------------------------------------------------------
(* App.Run.                                                                *)

\* The runners start under a context derived from that of main.
StartRunners ==
    /\ stage = "app"
    /\ stage' = "select"
    /\ runner' = [r \in Runners \ {"manager"} |-> IF r = "sweeper" THEN "first" ELSE "running"]
    /\ cancelled' = signalled
    /\ UNCHANGED <<manager, informerVars, queueVars, workerVars, unseen,
                   signalled, store, gates, failed, timedOut>>

InRun == stage \in {"select", "waiting", "closing"}

Result(r) ==
    IF r # "manager" THEN runner[r] ELSE IF manager = "returned" THEN "nil" ELSE "running"

Stopped(r) == Result(r) \in RunnerResults

Started == runner["health"] # "off"

\* What /readyz answers by.
Ready == gates = {"config", "mongo", "informers"}

\* Mutant: every error is taken for the cancellation once main's context is done.
MutNormalizeRunnerError(result) == result = "error" /\ ~signalled

\* An error that is not the cancellation.
normalizeRunnerError(result) == result = "error"

\* A runner returns.  The channel has room for every result, so that no send
\* blocks, and App.Run receives as soon as it waits; the first result cancels
\* the other runners, results after the timeout are not looked at.
Receive(result) ==
    IF stage \in {"select", "waiting"}
      THEN /\ stage' = "waiting"
           /\ cancelled' = TRUE
           /\ failed' = (failed \/ normalizeRunnerError(result))
      ELSE UNCHANGED <<stage, cancelled, failed>>

ContextDone ==
    /\ stage = "select" /\ signalled
    /\ Go("waiting") /\ UNCHANGED <<store, gates>>

AllReceived ==
    /\ stage = "waiting" /\ \A r \in Runners : Stopped(r)
    /\ Go("closing") /\ UNCHANGED <<store, gates>>

\* Mutant: the timer is started only when a signal ends the first wait.
MutShutdownTimeout ==
    /\ stage = "waiting" /\ signalled
    /\ \E r \in Runners : ~Stopped(r)
    /\ stage' = "closing"
    /\ timedOut' = TRUE
    /\ failed' = TRUE
    /\ UNCHANGED <<managerVars, signalled, store, gates, runner>>

\* The timer fires; App.Run waits for nobody any more.
ShutdownTimeout ==
    /\ stage = "waiting"
    /\ \E r \in Runners : ~Stopped(r)
    /\ stage' = "closing"
    /\ timedOut' = TRUE
    /\ failed' = TRUE
    /\ UNCHANGED <<managerVars, signalled, store, gates, runner>>

\* Store.Close, whose error is joined; then Run, run and main return.
Close ==
    /\ stage = "closing"
    /\ store' = "closed"
    /\ failed' \in {failed, TRUE}
    /\ stage' = "exited"
    /\ UNCHANGED <<managerVars, signalled, gates, runner, timedOut>>

Signal ==
    /\ stage # "exited" /\ ~signalled
    /\ signalled' = TRUE
    /\ cancelled' = (cancelled \/ InRun)
    /\ UNCHANGED <<manager, informerVars, queueVars, workerVars, unseen,
                   stage, store, gates, runner, failed, timedOut>>

-----------------------------------------------------------------------------
(* The runners.                                                            *)

Return(r, result) ==
    /\ InRun
    /\ runner' = [runner EXCEPT ![r] = result]
    /\ Receive(result)
    /\ UNCHANGED <<manager, informerVars, queueVars, workerVars, unseen, signalled, store, gates, timedOut>>

\* ResolutionSweeper.Run: the first sweep has succeeded, or failed under a done context.
FirstSweep ==
    /\ InRun /\ runner["sweeper"] = "first"
    /\ runner' = [runner EXCEPT !["sweeper"] = "running"]
    /\ UNCHANGED <<managerVars, stage, signalled, store, gates, failed, timedOut>>

\* A failed sweep ends it; the first one only as long as the context is not
\* done, a later one always, with the context's error or with another.
SweepFails(result) ==
    /\ \/ runner["sweeper"] = "first" /\ ~cancelled /\ result = "error"
       \/ runner["sweeper"] = "running" /\ result \in {"error", "canceled"}
    /\ result = "canceled" => cancelled
    /\ Return("sweeper", result)

SweeperStops ==
    /\ cancelled /\ runner["sweeper"] = "running"
    /\ Return("sweeper", "nil")

\* SweepOnce adds the keys of open Event incidents.
SweepOnce(k) ==
    /\ InRun /\ runner["sweeper"] \in {"first", "running"}
    /\ SweepAdd(k)
    /\ UNCHANGED processVars

\* PeriodicRunner.Run: an error of the dispatcher ends it, unless the context is done.
DispatcherStops ==
    /\ runner["dispatcher"] = "running"
    /\ Return("dispatcher", IF cancelled THEN "nil" ELSE "error")

\* Server.Run: ListenAndServe fails, or Shutdown ends it in time or not.
HealthStops(result) ==
    /\ runner["health"] = "running"
    /\ result = "error" \/ (cancelled /\ result = "nil")
    /\ Return("health", result)

\* Mutant: the gate is opened before the wait for the caches.
MutManagerSynced ==
    /\ InRun /\ manager = "sync"
    /\ gates' = gates \cup {"informers"}
    /\ UNCHANGED <<managerVars, stage, signalled, store, runner, failed, timedOut>>

\* OnCacheSync opens the third gate.
ManagerSynced ==
    /\ InRun /\ CachesSynced
    /\ gates' = gates \cup {"informers"}
    /\ UNCHANGED <<stage, signalled, store, runner, failed, timedOut>>

ManagerRuns ==
    /\ InRun
    /\ StartInformers \/ StopHandler \/ ShutDown \/ Drained
    /\ UNCHANGED processVars

\* Manager.Run returns nil, with its context done.
ManagerReturns ==
    /\ InRun
    /\ CachesNotSynced \/ Join
    /\ stage' = IF stage = "select" THEN "waiting" ELSE stage
    /\ UNCHANGED <<signalled, store, gates, runner, failed, timedOut>>

\* A step of another goroutine, until the process exits.
Alive(step) == stage # "exited" /\ step /\ UNCHANGED processVars

QueueRuns ==
    \/ \E k \in Key : Alive(Change(k)) \/ Alive(Callback(k)) \/ Alive(Enqueue(k)) \/ Alive(DelayOver(k))
    \/ \E w \in Worker : Alive(WorkerStep(w))

-----------------------------------------------------------------------------

Starting ==
    \/ LoadConfig \/ ValidateConfig \/ BuildClient \/ Connect \/ EarlyFailure
    \/ Verify \/ VerifyFails
    \/ (\E i \in 1 .. 7 : Build(i)) \/ (\E i \in 1 .. 8 : BuildFails(i))
    \/ StartRunners

Running == ContextDone \/ AllReceived \/ ShutdownTimeout \/ Close

RunnerStep ==
    \/ FirstSweep \/ SweeperStops \/ DispatcherStops
    \/ \E result \in RunnerResults : SweepFails(result) \/ HealthStops(result)
    \/ \E k \in Key : SweepOnce(k)

Next == Starting \/ Running \/ Signal \/ RunnerStep \/ ManagerSynced \/ ManagerRuns \/ ManagerReturns \/ QueueRuns

Spec == Init /\ [][Next]_vars

\* The main goroutine and its timer keep going, and so do workers, callbacks,
\* delays and the manager.  Sweeper, dispatcher and health server owe nothing,
\* nor does the API server for the first list.
FairSpec ==
    /\ Spec
    /\ WF_vars(Starting) /\ WF_vars(Running)
    /\ WF_vars(ManagerRuns) /\ WF_vars(ManagerReturns)
    /\ \A w \in Worker : WF_vars(Alive(WorkerStep(w)))
    /\ \A k \in Key :
           WF_vars(Alive(Callback(k))) /\ WF_vars(Alive(Enqueue(k))) /\ WF_vars(Alive(DelayOver(k)))

-----------------------------------------------------------------------------

\* The store outlives its users: it is closed while a runner is still running
\* only after the shutdown timeout, and never left open by a process that
\* ends, whatever stage of NewProduction fails (App.Run, cleanup).
StoreClosedLast ==
    /\ store = "closed" /\ Started => timedOut \/ \A r \in Runners : Stopped(r)
    /\ stage = "exited" => store # "open"

\* The exit status tells what happened: status 0 only after a signal, with
\* every runner stopped without an error of its own and within the shutdown
\* timeout (normalizeRunnerError, the joined errors of App.Run).
CleanExit ==
    stage = "exited" /\ ~failed =>
        /\ signalled /\ ~timedOut
        /\ \A r \in Runners : Stopped(r) /\ Result(r) # "error"

\* /readyz answers 200 only when the store has been opened and verified and the
\* informers have synchronised (Readiness, the order of the marks in
\* NewProduction, OnCacheSync).
ReadyMeansStarted ==
    Ready =>
        /\ store # "none" /\ Started
        /\ manager \notin {"new", "sync"}

\* Once a signal has come or a runner has returned the process ends, even if
\* other runners never do (the first result cancels, the shutdown timer).
ProcessEnds ==
    (signalled \/ \E r \in Runners : Stopped(r)) ~> stage = "exited"

=============================================================================
