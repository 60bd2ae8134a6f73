------------------------------- MODULE Outbox -------------------------------
(***************************************************************************)
(* The outbox collection and the dispatcher that drains it: the store      *)
(* operations of internal/store/mongo/outbox.go, the delivery loop of      *)
(* internal/notify/dispatcher.go and the webhook call it makes.            *)
(*                                                                         *)
(* Time is kept as distances from the current instant, in ticks: wait[d]   *)
(* is next_attempt_at - now, lease[d] is lease_until - now (never below 0) *)
(* and held[w] is the time since worker w read the clock for its claim.    *)
(***************************************************************************)
EXTENDS Integers

CONSTANTS
    Delivery,       \* outbox rows
    Process,        \* controller processes; a process is one lease owner
    Worker,         \* the goroutines of Dispatcher.Run, over all processes
    ProcessOf,      \* [Worker -> Process]
    None,           \* "no owner" and "no job"
    MaxAttempts,    \* Dispatcher.maxAttempts
    LeaseDuration,  \* Dispatcher.leaseDuration, in ticks
    MaxBackoff,     \* Dispatcher.maxBackoff, in ticks
    Backoff,        \* [1..MaxAttempts -> 1..MaxBackoff]: Dispatcher.backoff
    RetryAfter,     \* the Retry-After hints a receiver may send, in ticks
    MaxHold,        \* bound: longest time from a claim to its finalization
    MaxAge,         \* bound: overdue times are told apart up to this many ticks
    MaxClaims,      \* bound: claims of one row
    MaxFaults       \* bound: crashes and store errors in a behaviour

ASSUME OutboxAssumption ==
    /\ ProcessOf \in [Worker -> Process]
    /\ None \notin Delivery \cup Process
    /\ MaxAttempts \in Nat \ {0}
    /\ LeaseDuration \in Nat \ {0}
    /\ MaxBackoff \in Nat \ {0}
    /\ Backoff \in [1..MaxAttempts -> 1..MaxBackoff]
    /\ RetryAfter \subseteq Nat
    /\ MaxHold \in Nat
    /\ MaxAge \in Nat
    /\ MaxClaims \in Nat
    /\ MaxFaults \in Nat

VARIABLES
    status,     \* row: status, "absent" before the commit that inserts it
    owner,      \* row: lease_owner
    wait,       \* row: next_attempt_at, relative to now
    lease,      \* row: lease_until, relative to now
    attempts,   \* row: attempts
    pc,         \* worker: where DispatchOne is
    job,        \* worker: the claimed delivery
    att,        \* worker: the Attempts value of its claimed copy
    held,       \* worker: time since the claim
    accepted,   \* receivers: the deliveries answered with a 2xx status
    faults      \* crashes and store errors so far

row == <<status, owner, wait, lease, attempts>>
local == <<pc, job, att, held>>
vars == <<row, local, accepted, faults>>

Sending == {"sending", "accepted"}
Finalizing == {"ok", "retry", "permanent"}
Busy(w) == pc[w] \in Sending \cup Finalizing

RowOK ==
    /\ status \in [Delivery -> {"absent", "pending", "delivering", "delivered", "failed"}]
    /\ owner \in [Delivery -> Process \cup {None}]
    /\ wait \in [Delivery -> (0 - MaxAge)..MaxBackoff]
    /\ lease \in [Delivery -> 0..LeaseDuration]
    /\ attempts \in [Delivery -> Nat]

WorkerOK ==
    /\ pc \in [Worker -> {"idle", "off", "failed"} \cup Sending \cup Finalizing]
    /\ job \in [Worker -> Delivery \cup {None}]
    /\ att \in [Worker -> Nat]
    /\ held \in [Worker -> 0..MaxHold]

\* Rows and workers have the types of their documents and fields.
TypeOK ==
    /\ RowOK
    /\ WorkerOK
    /\ accepted \subseteq Delivery
    /\ faults \in 0..MaxFaults

Init ==
    /\ status = [d \in Delivery |-> "absent"]
    /\ owner = [d \in Delivery |-> None]
    /\ wait = [d \in Delivery |-> 0]
    /\ lease = [d \in Delivery |-> 0]
    /\ attempts = [d \in Delivery |-> 0]
    /\ pc = [w \in Worker |-> "idle"]
    /\ job = [w \in Worker |-> None]
    /\ att = [w \in Worker |-> 0]
    /\ held = [w \in Worker |-> 0]
    /\ accepted = {}
    /\ faults = 0

-----------------------------------------------------------------------------
(* Rows, as the store's filters and updates see them.                      *)

\* A commit inserts the row: pending, due now.
Enqueue(d) ==
    /\ status[d] = "absent"
    /\ status' = [status EXCEPT ![d] = "pending"]
    /\ wait' = [wait EXCEPT ![d] = 0]
    /\ UNCHANGED <<owner, lease, attempts, local, accepted, faults>>

\* Mutant: a leased row can be claimed before its lease runs out.
MutEligibleWhileLeased(d) ==
    \/ status[d] = "pending" /\ wait[d] <= 0
    \/ status[d] = "delivering"

\* Mutant: a leased row is never claimed again.
MutEligibleNeverExpired(d) == status[d] = "pending" /\ wait[d] <= 0

\* The filter of ClaimDelivery.
Eligible(d) ==
    \/ status[d] = "pending" /\ wait[d] <= 0
    \/ status[d] = "delivering" /\ lease[d] = 0

\* The sort of ClaimDelivery: longest due first, ties by an arbitrary id.
FirstEligible(d) ==
    /\ Eligible(d)
    /\ \A e \in Delivery : Eligible(e) => wait[d] <= wait[e]

\* The update of ClaimDelivery on row d for lease owner p.
ClaimDelivery(d, p) ==
    /\ FirstEligible(d)
    /\ attempts[d] < MaxClaims
    /\ status' = [status EXCEPT ![d] = "delivering"]
    /\ owner' = [owner EXCEPT ![d] = p]
    /\ lease' = [lease EXCEPT ![d] = LeaseDuration]
    /\ attempts' = [attempts EXCEPT ![d] = @ + 1]
    /\ UNCHANGED wait

\* Mutant: finalizing does not compare the lease owner.
MutHeldByAnyone(d, p) == status[d] = "delivering"

\* The filter of CompleteDelivery and RescheduleDelivery; lease_until is not in it.
Held(d, p) == status[d] = "delivering" /\ owner[d] = p

\* Their update: the new status, and the lease fields unset.
Release(d, s, next) ==
    /\ status' = [status EXCEPT ![d] = s]
    /\ owner' = [owner EXCEPT ![d] = None]
    /\ lease' = [lease EXCEPT ![d] = 0]
    /\ wait' = [wait EXCEPT ![d] = next]
    /\ UNCHANGED attempts

-----------------------------------------------------------------------------
(* DispatchOne.                                                            *)

\* The worker leaves DispatchOne with its claim dropped.
Return(w, where) ==
    /\ pc' = [pc EXCEPT ![w] = where]
    /\ job' = [job EXCEPT ![w] = None]
    /\ att' = [att EXCEPT ![w] = 0]
    /\ held' = [held EXCEPT ![w] = 0]

Claim(w, d) ==
    /\ pc[w] = "idle"
    /\ ClaimDelivery(d, ProcessOf[w])
    /\ pc' = [pc EXCEPT ![w] = "sending"]
    /\ job' = [job EXCEPT ![w] = d]
    /\ att' = [att EXCEPT ![w] = attempts[d] + 1]
    /\ held' = [held EXCEPT ![w] = 0]
    /\ UNCHANGED <<accepted, faults>>

\* ErrNotFound: this worker's part of the drain is over.
NothingEligible(w) ==
    /\ pc[w] = "idle"
    /\ \A d \in Delivery : ~Eligible(d)
    /\ pc' = [pc EXCEPT ![w] = "off"]
    /\ UNCHANGED <<row, job, att, held, accepted, faults>>

\* The claim call fails, before or after the server applied it.
ClaimError(w) ==
    /\ pc[w] = "idle"
    /\ faults < MaxFaults
    /\ faults' = faults + 1
    /\ \/ UNCHANGED row
       \/ \E d \in Delivery : ClaimDelivery(d, ProcessOf[w])
    /\ pc' = [pc EXCEPT ![w] = "failed"]
    /\ UNCHANGED <<job, att, held, accepted>>

\* The receiver processes the request; its 2xx answer may still be lost.
Receive(w) ==
    /\ pc[w] = "sending"
    /\ accepted' = accepted \cup {job[w]}
    /\ pc' = [pc EXCEPT ![w] = "accepted"]
    /\ UNCHANGED <<row, job, att, held, faults>>

\* Mutant: success is reported for requests nobody accepted.
MutDeliverOutcomes(w) == {"ok", "retry"}

\* Deliver returns; what counts is how DispatchOne classifies the result.
DeliverOutcomes(w) ==
    IF pc[w] = "accepted" THEN {"ok", "retry"} ELSE {"retry", "permanent"}

Deliver(w) ==
    /\ pc[w] \in Sending
    /\ \E r \in DeliverOutcomes(w) : pc' = [pc EXCEPT ![w] = r]
    /\ UNCHANGED <<row, job, att, held, accepted, faults>>

\* Mutant: a Retry-After hint is not capped.
MutDelayUncapped(a, hint) == IF hint <= Backoff[a] THEN Backoff[a] ELSE hint

\* A Retry-After larger than the backoff wins, up to maxBackoff.
Delay(a, hint) ==
    IF hint <= Backoff[a] THEN Backoff[a]
    ELSE IF hint > MaxBackoff THEN MaxBackoff ELSE hint

\* Mutant: the attempt limit is off by one.
MutFinalizationOneMore(w) ==
    \/ pc[w] = "ok" /\ Release(job[w], "delivered", wait[job[w]])
    \/ /\ pc[w] = "retry" /\ att[w] <= MaxAttempts
       /\ \E hint \in RetryAfter : Release(job[w], "pending", Delay(att[w], hint))
    \/ /\ pc[w] = "permanent" \/ (pc[w] = "retry" /\ att[w] > MaxAttempts)
       /\ Release(job[w], "failed", wait[job[w]])

\* Mutant: a delivery is given up one attempt too early.
MutFinalizationOneLess(w) ==
    \/ pc[w] = "ok" /\ Release(job[w], "delivered", wait[job[w]])
    \/ /\ pc[w] = "retry" /\ att[w] + 1 < MaxAttempts
       /\ \E hint \in RetryAfter : Release(job[w], "pending", Delay(att[w], hint))
    \/ /\ pc[w] = "permanent" \/ (pc[w] = "retry" /\ att[w] + 1 >= MaxAttempts)
       /\ Release(job[w], "failed", wait[job[w]])

\* The row update a finalizing worker asks for.
Finalization(w) ==
    \/ pc[w] = "ok" /\ Release(job[w], "delivered", wait[job[w]])
    \/ /\ pc[w] = "retry" /\ att[w] < MaxAttempts
       /\ \E hint \in RetryAfter : Release(job[w], "pending", Delay(att[w], hint))
    \/ /\ pc[w] = "permanent" \/ (pc[w] = "retry" /\ att[w] >= MaxAttempts)
       /\ Release(job[w], "failed", wait[job[w]])

\* CompleteDelivery or RescheduleDelivery succeeds; the worker loops.
Finalize(w) ==
    /\ pc[w] \in Finalizing
    /\ Held(job[w], ProcessOf[w])
    /\ Finalization(w)
    /\ Return(w, "idle")
    /\ UNCHANGED <<accepted, faults>>

\* ErrConflict: the row is not this owner's any more; DispatchOne fails.
FinalizeConflict(w) ==
    /\ pc[w] \in Finalizing
    /\ ~Held(job[w], ProcessOf[w])
    /\ Return(w, "failed")
    /\ UNCHANGED <<row, accepted, faults>>

\* The finalizing call fails, before or after the server applied it.
FinalizeError(w) ==
    /\ pc[w] \in Finalizing
    /\ faults < MaxFaults
    /\ faults' = faults + 1
    /\ \/ UNCHANGED row
       \/ Held(job[w], ProcessOf[w]) /\ Finalization(w)
    /\ Return(w, "failed")
    /\ UNCHANGED accepted

-----------------------------------------------------------------------------
(* Dispatcher.Run, its periodic caller, and the process around them.       *)

\* All workers of p have returned: the next poll, or the restart of the
\* process when one of them returned an error.
StartRun(p) ==
    LET mine == {w \in Worker : ProcessOf[w] = p} IN
    /\ mine # {}
    /\ \A w \in mine : pc[w] \in {"off", "failed"}
    /\ pc' = [w \in Worker |-> IF w \in mine THEN "idle" ELSE pc[w]]
    /\ UNCHANGED <<row, job, att, held, accepted, faults>>

\* p stops, by a crash or by the cancellation of its context: claimed rows
\* stay leased.
Stop(p) ==
    LET gone(w) == ProcessOf[w] = p IN
    /\ faults < MaxFaults
    /\ faults' = faults + 1
    /\ pc' = [w \in Worker |-> IF gone(w) THEN "off" ELSE pc[w]]
    /\ job' = [w \in Worker |-> IF gone(w) THEN None ELSE job[w]]
    /\ att' = [w \in Worker |-> IF gone(w) THEN 0 ELSE att[w]]
    /\ held' = [w \in Worker |-> IF gone(w) THEN 0 ELSE held[w]]
    /\ UNCHANGED <<row, accepted>>

\* One unit of time.  MaxHold bounds how long a claim can be worked on.
Tick ==
    /\ \A w \in Worker : Busy(w) => held[w] < MaxHold
    /\ held' = [w \in Worker |-> IF Busy(w) THEN held[w] + 1 ELSE held[w]]
    /\ lease' = [d \in Delivery |-> IF lease[d] > 0 THEN lease[d] - 1 ELSE 0]
    /\ wait' = [d \in Delivery |-> IF wait[d] > 0 - MaxAge THEN wait[d] - 1 ELSE wait[d]]
    /\ UNCHANGED <<status, owner, attempts, pc, job, att, accepted, faults>>

WorkerStep(w) ==
    \/ \E d \in Delivery : Claim(w, d)
    \/ NothingEligible(w)
    \/ Deliver(w)
    \/ Finalize(w)
    \/ FinalizeConflict(w)

Next ==
    \/ \E d \in Delivery : Enqueue(d)
    \/ \E w \in Worker : WorkerStep(w) \/ Receive(w) \/ ClaimError(w) \/ FinalizeError(w)
    \/ \E p \in Process : StartRun(p) \/ Stop(p)
    \/ Tick

Spec == Init /\ [][Next]_vars

\* A worker always gets on with its own step, a finished drain is followed by
\* the next poll or by a restart, and time passes.  Receive has no fairness:
\* a receiver may never answer.
FairSpec ==
    /\ Spec
    /\ \A w \in Worker : WF_vars(WorkerStep(w))
    /\ \A p \in Process : WF_vars(StartRun(p))
    /\ WF_vars(Tick)

-----------------------------------------------------------------------------
(* Properties.                                                             *)

\* Two workers never work on one delivery while both are within the lease
\* they claimed: ClaimDelivery hands out a leased row only after lease_until,
\* and nobody but its holder returns it to pending.
LeaseExclusive ==
    \A v, w \in Worker :
        /\ v # w /\ Busy(v) /\ Busy(w) /\ job[v] = job[w]
        => held[v] >= LeaseDuration \/ held[w] >= LeaseDuration

\* A worker that comes to CompleteDelivery or RescheduleDelivery still owns
\* the row, so DispatchOne never fails with ErrConflict, which would end
\* Dispatcher.Run and with it the process.
FinalizerOwnsRow ==
    \A w \in Worker : pc[w] \in Finalizing => Held(job[w], ProcessOf[w])

\* The grounds on which worker w may give up a row with n attempts.
GivesUp(w, n) == pc[w] = "permanent" \/ (pc[w] = "retry" /\ n >= MaxAttempts)

\* Only the worker of its latest claim takes a row out of delivering: a late
\* CompleteDelivery or RescheduleDelivery of an earlier claim never undoes
\* what the new holder is doing (the lease_owner filter).  The row is given up
\* only if that worker's own send was refused for good, or failed with all of
\* the row's attempts used; a lost answer alone never ends it.  A row that is
\* to be sent again is not due at once, and due within maxBackoff.
OnlyHolderReleases ==
    [][\A d \in Delivery :
          status[d] = "delivering" /\ status'[d] # "delivering" =>
              /\ \E w \in Worker :
                     /\ pc[w] \in Finalizing /\ job[w] = d /\ att[w] = attempts[d]
                     /\ status'[d] = "failed" => GivesUp(w, attempts[d])
              /\ status'[d] = "pending" => wait'[d] \in 1..MaxBackoff]_vars

\* A delivery is attempted at most maxAttempts times, plus once for every
\* crash or store error that left it leased: the attempts counter is
\* incremented by the claim, and only a failed send is compared with it.
AttemptsBounded ==
    \A d \in Delivery : attempts[d] <= MaxAttempts + faults

RowState == [d \in Delivery |-> IF status[d] = "delivering" THEN "pending" ELSE status[d]]

N == INSTANCE Notification WITH state <- RowState

\* The rows implement the notification contract: a row is marked delivered
\* only after the receiver accepted it, and delivered and failed are final,
\* whatever stale workers, retries and crashes do.
ImplementsNotification == N!SafeSpec

\* They also implement its liveness: every committed row ends delivered or
\* failed, also when the worker that leased it is gone.
SettlesEveryDelivery == N!Spec

=============================================================================
