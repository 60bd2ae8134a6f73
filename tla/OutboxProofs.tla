---------------------------- MODULE OutboxProofs ----------------------------
(***************************************************************************)
(* Proofs about Outbox, for any number of rows, processes, goroutines,     *)
(* attempts and faults and any lease, backoff and hold times.              *)
(***************************************************************************)
EXTENDS Outbox, TLAPS

\* What holds of a busy worker whatever its speed: it has a committed row,
\* a claimed copy, and it reports success only after the receiver accepted.
JobOK ==
    \A w \in Worker : Busy(w) =>
        /\ job[w] \in Delivery
        /\ status[job[w]] # "absent"
        /\ att[w] >= 1
        /\ pc[w] \in {"accepted", "ok"} => job[w] \in accepted

DeliveredWasAccepted ==
    \A d \in Delivery : status[d] = "delivered" => d \in accepted

RowInv == TypeOK /\ JobOK /\ DeliveredWasAccepted

-----------------------------------------------------------------------------
(* Lemmas about the operators.                                             *)

\* A worker's time is over or it is not.
LEMMA HeldTimes ==
    ASSUME TypeOK, NEW w \in Worker
    PROVE  held[w] >= LeaseDuration <=> ~(held[w] < LeaseDuration)
<1>1. held[w] \in 0..MaxHold
  BY DEF TypeOK, WorkerOK
<1> QED
  BY <1>1, OutboxAssumption

\* A worker whose lease has run out has held its row for at least that long.
LEMMA LeaseRunsOut ==
    ASSUME TypeOK, NEW w \in Worker, NEW d \in Delivery, lease[d] + held[w] >= LeaseDuration, lease[d] = 0
    PROVE  held[w] >= LeaseDuration
<1>1. held[w] \in 0..MaxHold
  BY DEF TypeOK, WorkerOK
<1> QED
  BY <1>1, OutboxAssumption

\* A claim starts with all of its lease.
LEMMA FreshLease == LeaseDuration + 0 >= LeaseDuration
  BY OutboxAssumption

\* A fault allows one more attempt.
LEMMA FaultsAllow ==
    ASSUME NEW a \in Nat, NEW f \in Nat, NEW g \in {f, f + 1}
    PROVE  /\ a <= MaxAttempts + f => a <= MaxAttempts + g
           /\ a < MaxAttempts + f => a < MaxAttempts + g
  BY OutboxAssumption

\* A unit of time moves from the lease of a row to the holding time of its worker.
LEMMA LeaseAndHold ==
    ASSUME NEW h \in 0..MaxHold, NEW l \in 0..LeaseDuration, h + 1 < LeaseDuration
    PROVE  /\ h < LeaseDuration
           /\ l + h >= LeaseDuration => (IF l > 0 THEN l - 1 ELSE 0) + (h + 1) >= LeaseDuration
  BY OutboxAssumption

\* The delay after a failed attempt is positive and at most maxBackoff, also
\* with a Retry-After hint.
LEMMA DelayInRange ==
    ASSUME NEW a \in 1..MaxAttempts, NEW hint \in RetryAfter
    PROVE  Delay(a, hint) \in 1..MaxBackoff
<1>1. Backoff[a] \in 1..MaxBackoff
  BY OutboxAssumption
<1>2. hint \in Nat
  BY OutboxAssumption
<1> QED
  BY <1>1, <1>2, OutboxAssumption DEF Delay

\* The store's updates and the return from DispatchOne keep the types.
LEMMA ClaimTypes ==
    ASSUME RowOK, NEW d \in Delivery, NEW w \in Worker, ClaimDelivery(d, ProcessOf[w])
    PROVE  RowOK'
<1>1. ProcessOf[w] \in Process
  BY OutboxAssumption
<1>2. LeaseDuration \in 0..LeaseDuration /\ attempts[d] + 1 \in Nat
  BY OutboxAssumption DEF RowOK
<1> QED
  BY <1>1, <1>2 DEF RowOK, ClaimDelivery

\* Complete and reschedule keep the types of the rows.
LEMMA ReleaseTypes ==
    ASSUME RowOK, NEW d \in Delivery, NEW s \in {"pending", "delivered", "failed"},
           NEW next \in (0 - MaxAge)..MaxBackoff, Release(d, s, next)
    PROVE  RowOK'
<1>1. 0 \in 0..LeaseDuration
  BY OutboxAssumption
<1> QED
  BY <1>1 DEF RowOK, Release

\* The end of DispatchOne keeps the types of the workers.
LEMMA ReturnTypes ==
    ASSUME WorkerOK, NEW w \in Worker, NEW x \in {"idle", "failed"}, Return(w, x)
    PROVE  WorkerOK'
<1>1. 0 \in 0..MaxHold
  BY OutboxAssumption
<1> QED
  BY <1>1 DEF WorkerOK, Return

\* What CompleteDelivery or RescheduleDelivery does to the row of a worker:
\* one release, to delivered only if the receiver accepted, to pending only
\* with attempts left and after a delay, to failed only on the grounds for it.
LEMMA FinalizationIsRelease ==
    ASSUME RowInv, NEW w \in Worker, pc[w] \in Finalizing, Finalization(w)
    PROVE  \E s \in {"pending", "delivered", "failed"}, next \in (0 - MaxAge)..MaxBackoff :
              /\ Release(job[w], s, next)
              /\ s = "delivered" => job[w] \in accepted
              /\ s = "pending" => att[w] < MaxAttempts /\ next \in 1..MaxBackoff
              /\ s = "failed" => GivesUp(w, att[w])
<1>1. job[w] \in Delivery /\ att[w] \in Nat /\ att[w] >= 1
  BY DEF RowInv, TypeOK, RowOK, WorkerOK, JobOK, Busy
<1>2. wait[job[w]] \in (0 - MaxAge)..MaxBackoff
  BY <1>1 DEF RowInv, TypeOK, RowOK, WorkerOK
<1>3. CASE pc[w] = "ok" /\ Release(job[w], "delivered", wait[job[w]])
  BY <1>2, <1>3 DEF RowInv, JobOK, Busy, Finalizing
<1>4. CASE /\ pc[w] = "retry" /\ att[w] < MaxAttempts
           /\ \E hint \in RetryAfter : Release(job[w], "pending", Delay(att[w], hint))
  <2>1. PICK hint \in RetryAfter : Release(job[w], "pending", Delay(att[w], hint))
    BY <1>4
  <2>2. att[w] \in 1..MaxAttempts
    BY <1>1, <1>4, OutboxAssumption
  <2>3. Delay(att[w], hint) \in 1..MaxBackoff
    BY <2>2, DelayInRange
  <2>4. Delay(att[w], hint) \in (0 - MaxAge)..MaxBackoff
    BY <2>3, OutboxAssumption
  <2> QED
    BY <1>4, <2>1, <2>3, <2>4
<1>5. CASE GivesUp(w, att[w]) /\ Release(job[w], "failed", wait[job[w]])
  BY <1>2, <1>5
<1> QED
  BY <1>3, <1>4, <1>5 DEF Finalization, GivesUp

\* What a tick does to the times of workers and rows.
LEMMA TickTimes ==
    ASSUME TypeOK, Tick
    PROVE  /\ \A w \in Worker : /\ held[w] \in 0..MaxHold /\ held'[w] \in 0..MaxHold
                                /\ Busy(w) => held[w] < MaxHold /\ held'[w] = held[w] + 1
           /\ \A d \in Delivery : /\ lease[d] \in 0..LeaseDuration /\ lease'[d] \in 0..LeaseDuration
                                  /\ lease'[d] = IF lease[d] > 0 THEN lease[d] - 1 ELSE 0
           /\ \A d \in Delivery : wait'[d] \in (0 - MaxAge)..MaxBackoff
<1>1. ASSUME NEW w \in Worker
      PROVE  /\ held[w] \in 0..MaxHold /\ held'[w] \in 0..MaxHold
             /\ Busy(w) => held[w] < MaxHold /\ held'[w] = held[w] + 1
  BY <1>1, OutboxAssumption DEF TypeOK, WorkerOK, Tick
<1>2. ASSUME NEW d \in Delivery
      PROVE  /\ lease[d] \in 0..LeaseDuration /\ lease'[d] \in 0..LeaseDuration
             /\ lease'[d] = IF lease[d] > 0 THEN lease[d] - 1 ELSE 0
  BY <1>2, OutboxAssumption DEF TypeOK, RowOK, Tick
<1>3. ASSUME NEW d \in Delivery PROVE wait'[d] \in (0 - MaxAge)..MaxBackoff
  BY <1>3, OutboxAssumption DEF TypeOK, RowOK, Tick
<1> QED
  BY <1>1, <1>2, <1>3

LEMMA TickTypes ==
    ASSUME TypeOK, Tick
    PROVE  TypeOK'
<1>0. held' = [w \in Worker |-> held'[w]] /\ lease' = [d \in Delivery |-> lease'[d]] /\ wait' = [d \in Delivery |-> wait'[d]]
  BY DEF Tick
<1>1. held' \in [Worker -> 0..MaxHold]
  BY <1>0, TickTimes, Zenon
<1>2. lease' \in [Delivery -> 0..LeaseDuration] /\ wait' \in [Delivery -> (0 - MaxAge)..MaxBackoff]
  BY <1>0, TickTimes, Zenon
<1>3. UNCHANGED <<status, owner, attempts, pc, job, att, accepted, faults>>
  BY DEF Tick
<1> QED
  BY <1>1, <1>2, <1>3, Zenon DEF TypeOK, RowOK, WorkerOK

-----------------------------------------------------------------------------
(* Types, and what holds whatever the speed of the workers.                *)

\* Before the first claim no worker has anything to report.
LEMMA RowInvInit == Init => RowInv
  BY OutboxAssumption DEF Init, RowInv, TypeOK, RowOK, WorkerOK, JobOK, DeliveredWasAccepted, Busy, Sending, Finalizing

\* Every step of dispatcher, receiver and time preserves what rows and workers
\* say about acceptance.
LEMMA RowInvNext == RowInv /\ [Next]_vars => RowInv'
<1> SUFFICES ASSUME RowInv, [Next]_vars PROVE RowInv'
  OBVIOUS
<1> USE OutboxAssumption DEF row, local, Sending, Finalizing
<1>1. ASSUME NEW d \in Delivery, Enqueue(d) PROVE RowInv'
  <2>1. RowOK'
    BY <1>1 DEF RowInv, TypeOK, RowOK, Enqueue
  <2>2. WorkerOK' /\ UNCHANGED <<local, accepted, faults>>
    BY <1>1, Zenon DEF RowInv, TypeOK, WorkerOK, Enqueue
  <2>3. \A e \in Delivery : status'[e] = status[e] \/ status'[e] = "pending"
    BY <1>1 DEF RowInv, TypeOK, RowOK, Enqueue
  <2>4. JobOK' /\ DeliveredWasAccepted'
    BY <2>2, <2>3 DEF RowInv, JobOK, DeliveredWasAccepted, Busy
  <2> QED
    BY <2>1, <2>2, <2>4, Zenon DEF RowInv, TypeOK
<1>2. ASSUME NEW w \in Worker, NEW d \in Delivery, Claim(w, d) PROVE RowInv'
  <2>1. RowOK'
    BY <1>2, ClaimTypes DEF RowInv, TypeOK, Claim
  <2>2. WorkerOK'
    <3>1. attempts[d] + 1 \in Nat /\ 0 \in 0..MaxHold
      BY DEF RowInv, TypeOK, RowOK
    <3> QED
      BY <1>2, <3>1 DEF RowInv, TypeOK, WorkerOK, Claim
  <2>3. JobOK'
    <3> SUFFICES ASSUME NEW v \in Worker, Busy(v)'
                 PROVE  /\ job'[v] \in Delivery
                        /\ status'[job'[v]] # "absent"
                        /\ att'[v] >= 1
                        /\ pc'[v] \in {"accepted", "ok"} => job'[v] \in accepted'
      BY DEF JobOK
    <3>1. CASE v = w
      BY <1>2, <3>1 DEF RowInv, TypeOK, RowOK, WorkerOK, Claim, ClaimDelivery
    <3>2. CASE v # w
      BY <1>2, <3>2, Zenon DEF RowInv, TypeOK, RowOK, WorkerOK, JobOK, Busy, Claim, ClaimDelivery
    <3> QED
      BY <3>1, <3>2
  <2>4. DeliveredWasAccepted'
    BY <1>2 DEF RowInv, TypeOK, RowOK, DeliveredWasAccepted, Claim, ClaimDelivery
  <2> QED
    BY <1>2, <2>1, <2>2, <2>3, <2>4 DEF RowInv, TypeOK, Claim
<1>3. ASSUME NEW w \in Worker, NothingEligible(w) PROVE RowInv'
  <2>1. TypeOK'
    <3>1. pc' \in [Worker -> {"idle", "off", "failed"} \cup Sending \cup Finalizing]
      BY <1>3 DEF RowInv, TypeOK, WorkerOK, NothingEligible
    <3> QED
      BY <1>3, <3>1, Zenon DEF RowInv, TypeOK, RowOK, WorkerOK, NothingEligible
  <2>2. JobOK' /\ DeliveredWasAccepted'
    BY <1>3 DEF RowInv, TypeOK, WorkerOK, JobOK, DeliveredWasAccepted, Busy, NothingEligible
  <2> QED
    BY <2>1, <2>2, Zenon DEF RowInv
<1>4. ASSUME NEW w \in Worker, ClaimError(w) PROVE RowInv'
  <2>1. CASE UNCHANGED row
    BY <1>4, <2>1 DEF RowInv, TypeOK, RowOK, WorkerOK, JobOK, DeliveredWasAccepted, Busy, ClaimError
  <2>2. ASSUME NEW d \in Delivery, ClaimDelivery(d, ProcessOf[w]) PROVE RowInv'
    <3>1. RowOK'
      BY <2>2, ClaimTypes DEF RowInv, TypeOK
    <3>2. WorkerOK' /\ faults' \in 0..MaxFaults
      BY <1>4 DEF RowInv, TypeOK, WorkerOK, ClaimError
    <3>3. JobOK'
      <4> SUFFICES ASSUME NEW v \in Worker, Busy(v)'
                   PROVE  /\ job'[v] \in Delivery
                          /\ status'[job'[v]] # "absent"
                          /\ att'[v] >= 1
                          /\ pc'[v] \in {"accepted", "ok"} => job'[v] \in accepted'
        BY DEF JobOK
      <4>1. Busy(v) /\ pc'[v] = pc[v] /\ job' = job /\ att' = att /\ accepted' = accepted
        BY <1>4 DEF RowInv, TypeOK, WorkerOK, Busy, ClaimError
      <4> QED
        BY <2>2, <4>1 DEF RowInv, TypeOK, RowOK, JobOK, ClaimDelivery
    <3>4. DeliveredWasAccepted'
      BY <1>4, <2>2 DEF RowInv, TypeOK, RowOK, DeliveredWasAccepted, ClaimError, ClaimDelivery
    <3> QED
      BY <1>4, <3>1, <3>2, <3>3, <3>4 DEF RowInv, TypeOK, ClaimError
  <2> QED
    BY <1>4, <2>1, <2>2 DEF ClaimError
<1>5. ASSUME NEW w \in Worker, Receive(w) PROVE RowInv'
  BY <1>5, Zenon DEF RowInv, TypeOK, RowOK, WorkerOK, JobOK, DeliveredWasAccepted, Busy, Receive
<1>6. ASSUME NEW w \in Worker, Deliver(w) PROVE RowInv'
  <2>1. PICK r \in DeliverOutcomes(w) : pc' = [pc EXCEPT ![w] = r]
    BY <1>6, Zenon DEF Deliver
  <2>2. r \in Finalizing /\ (r = "ok" => pc[w] = "accepted")
    BY <2>1 DEF DeliverOutcomes
  <2>3. TypeOK'
    BY <1>6, <2>1, <2>2 DEF RowInv, TypeOK, RowOK, WorkerOK, Deliver
  <2>4. JobOK'
    BY <1>6, <2>1, <2>2 DEF RowInv, TypeOK, WorkerOK, JobOK, Busy, Deliver
  <2> QED
    BY <1>6, <2>3, <2>4 DEF RowInv, DeliveredWasAccepted, Deliver
<1>7. ASSUME NEW w \in Worker, pc[w] \in Finalizing, Finalization(w), UNCHANGED accepted,
             faults' \in 0..MaxFaults, NEW x \in {"idle", "failed"}, Return(w, x)
      PROVE  RowInv'
  <2>1. PICK s \in {"pending", "delivered", "failed"}, next \in (0 - MaxAge)..MaxBackoff :
              /\ Release(job[w], s, next)
              /\ s = "delivered" => job[w] \in accepted
    BY <1>7, FinalizationIsRelease
  <2>2. job[w] \in Delivery
    BY <1>7 DEF RowInv, TypeOK, RowOK, WorkerOK, JobOK, Busy
  <2>3. TypeOK'
    BY <1>7, <2>1, <2>2, ReleaseTypes, ReturnTypes DEF RowInv, TypeOK
  <2>4. JobOK'
    BY <1>7, <2>1, <2>2, Zenon DEF RowInv, TypeOK, RowOK, WorkerOK, JobOK, Busy, Release, Return
  <2>5. DeliveredWasAccepted'
    BY <1>7, <2>1, <2>2 DEF RowInv, TypeOK, RowOK, WorkerOK, DeliveredWasAccepted, Release
  <2> QED
    BY <2>3, <2>4, <2>5 DEF RowInv
<1>8. ASSUME NEW w \in Worker, Finalize(w) PROVE RowInv'
  BY <1>7, <1>8, Zenon DEF Finalize, RowInv, TypeOK, RowOK, WorkerOK
<1>9. ASSUME NEW w \in Worker, NEW x \in {"idle", "failed"}, Return(w, x), UNCHANGED row,
             UNCHANGED accepted, faults' \in 0..MaxFaults
      PROVE  RowInv'
  <2>1. TypeOK'
    BY <1>9, ReturnTypes DEF RowInv, TypeOK, RowOK
  <2>2. JobOK' /\ DeliveredWasAccepted'
    BY <1>9 DEF RowInv, TypeOK, WorkerOK, JobOK, DeliveredWasAccepted, Busy, Return
  <2> QED
    BY <2>1, <2>2 DEF RowInv
<1>10. ASSUME NEW w \in Worker, FinalizeConflict(w) PROVE RowInv'
  BY <1>9, <1>10, Zenon DEF FinalizeConflict, RowInv, TypeOK
<1>11. ASSUME NEW w \in Worker, FinalizeError(w) PROVE RowInv'
  <2>1. faults' \in 0..MaxFaults
    BY <1>11 DEF FinalizeError, RowInv, TypeOK, RowOK, WorkerOK
  <2> QED
    BY <1>7, <1>9, <1>11, <2>1 DEF FinalizeError
<1>12. ASSUME NEW p \in Process, StartRun(p) PROVE RowInv'
  BY <1>12 DEF RowInv, TypeOK, RowOK, WorkerOK, JobOK, DeliveredWasAccepted, Busy, StartRun
<1>13. ASSUME NEW p \in Process, Stop(p) PROVE RowInv'
  BY <1>13 DEF RowInv, TypeOK, RowOK, WorkerOK, JobOK, DeliveredWasAccepted, Busy, Stop
<1>14. ASSUME Tick PROVE RowInv'
  <2>1. TypeOK'
    BY <1>14, TickTypes, Zenon DEF RowInv
  <2>2. JobOK' /\ DeliveredWasAccepted'
    BY <1>14 DEF RowInv, JobOK, DeliveredWasAccepted, Tick, Busy
  <2> QED
    BY <2>1, <2>2 DEF RowInv
<1>15. ASSUME UNCHANGED vars PROVE RowInv'
  BY <1>15 DEF RowInv, TypeOK, RowOK, WorkerOK, JobOK, DeliveredWasAccepted, Busy, vars
<1> QED
  BY <1>1, <1>2, <1>3, <1>4, <1>5, <1>6, <1>8, <1>10, <1>11, <1>12, <1>13, <1>14, <1>15
  DEF Next, WorkerStep

\* Every reachable state of rows and workers is well typed, whatever the
\* constants.
THEOREM TypeCorrect == Spec => []TypeOK
<1>1. RowInv => TypeOK
  BY DEF RowInv
<1> QED
  BY <1>1, RowInvInit, RowInvNext, PTL DEF Spec

-----------------------------------------------------------------------------
(* The notification contract.                                              *)

\* Every step of the outbox is a step of the notification contract or changes
\* nothing of it.
LEMMA StepRefines == RowInv /\ [Next]_vars => [N!Next]_(N!vars)
<1> SUFFICES ASSUME RowInv, [Next]_vars PROVE [N!Next]_(N!vars)
  OBVIOUS
<1> USE DEF row, local, N!vars, RowState
<1>1. ASSUME NEW d \in Delivery, Enqueue(d) PROVE N!Enqueue(d)
  BY <1>1, Zenon DEF RowInv, TypeOK, RowOK, Enqueue, N!Enqueue
<1>2. ASSUME NEW d \in Delivery, NEW p, ClaimDelivery(d, p) PROVE UNCHANGED RowState
  BY <1>2 DEF RowInv, TypeOK, RowOK, ClaimDelivery, FirstEligible, Eligible
<1>3. ASSUME NEW w \in Worker, Receive(w) PROVE N!Accept(job[w]) /\ job[w] \in Delivery
  BY <1>3 DEF RowInv, TypeOK, RowOK, JobOK, Busy, Sending, Receive, N!Accept
<1>4. ASSUME NEW w \in Worker, pc[w] \in Finalizing, Held(job[w], ProcessOf[w]), Finalization(w),
             UNCHANGED accepted
      PROVE  [N!Next]_(N!vars)
  <2>1. PICK s \in {"pending", "delivered", "failed"}, next \in (0 - MaxAge)..MaxBackoff :
              /\ Release(job[w], s, next)
              /\ s = "delivered" => job[w] \in accepted
    BY <1>4, FinalizationIsRelease
  <2>2. job[w] \in Delivery /\ status[job[w]] = "delivering"
    BY <1>4 DEF RowInv, JobOK, Busy, Held
  <2>3. RowState' = [RowState EXCEPT ![job[w]] = s]
    BY <2>1, <2>2, Zenon DEF RowInv, TypeOK, RowOK, Release
  <2>4. CASE s = "pending"
    BY <1>4, <2>2, <2>3, <2>4, Zenon
  <2>5. CASE s = "delivered"
    BY <1>4, <2>1, <2>2, <2>3, <2>5, Zenon DEF N!Next, N!MarkDelivered
  <2>6. CASE s = "failed"
    BY <1>4, <2>2, <2>3, <2>6, Zenon DEF N!Next, N!MarkFailed
  <2> QED
    BY <2>4, <2>5, <2>6
<1>5. ASSUME NEW w \in Worker, WorkerStep(w) \/ ClaimError(w) \/ FinalizeError(w)
      PROVE  [N!Next]_(N!vars)
  <2>1. ASSUME NEW d \in Delivery, Claim(w, d) PROVE [N!Next]_(N!vars)
    BY <1>2, <2>1 DEF Claim
  <2>2. CASE ClaimError(w)
    BY <1>2, <2>2 DEF ClaimError
  <2>3. CASE Finalize(w)
    BY <1>4, <2>3 DEF Finalize
  <2>4. CASE FinalizeError(w)
    BY <1>4, <2>4 DEF FinalizeError
  <2>5. CASE NothingEligible(w) \/ Deliver(w) \/ FinalizeConflict(w)
    BY <2>5 DEF NothingEligible, Deliver, FinalizeConflict
  <2> QED
    BY <1>5, <2>1, <2>2, <2>3, <2>4, <2>5 DEF WorkerStep
<1>6. CASE Tick \/ (\E p \in Process : StartRun(p) \/ Stop(p)) \/ UNCHANGED vars
  BY <1>6 DEF Tick, StartRun, Stop, vars
<1> QED
  BY <1>1, <1>3, <1>5, <1>6, Zenon DEF Next, N!Next

\* The outbox implements the notification contract, however slow a worker is
\* and however many processes share the collection: delivered means accepted,
\* and delivered and failed are final.
THEOREM OutboxRefinesNotification == Spec => ImplementsNotification
<1>1. Init => N!Init
  BY DEF Init, N!Init, RowState
<1> QED
  BY <1>1, RowInvInit, RowInvNext, StepRefines, PTL DEF Spec, ImplementsNotification, N!SafeSpec

-----------------------------------------------------------------------------
(* Leases, when every claim is finalized within its lease.                 *)

\* What holds in addition to RowInv: a busy worker has the lease and the latest
\* claim of its row, and claims without a worker are paid for by faults.
BusyHoldsLease ==
    \A w \in Worker : Busy(w) =>
        /\ Held(job[w], ProcessOf[w])
        /\ att[w] = attempts[job[w]]
        /\ lease[job[w]] + held[w] >= LeaseDuration

OneWorkerPerRow ==
    \A v, w \in Worker : Busy(v) /\ Busy(w) /\ job[v] = job[w] => v = w

AttemptsInv ==
    \A d \in Delivery :
        /\ attempts[d] <= MaxAttempts + faults
        /\ status[d] = "absent" => attempts[d] = 0
        /\ status[d] = "pending" => attempts[d] < MaxAttempts
        /\ status[d] = "delivering" /\ (\A w \in Worker : Busy(w) => job[w] # d)
              => attempts[d] < MaxAttempts + faults

LeaseInv == RowInv /\ BusyHoldsLease /\ OneWorkerPerRow /\ AttemptsInv

\* A row that can be claimed is in nobody's hands.
LEMMA EligibleIsFree ==
    ASSUME MaxHold < LeaseDuration, LeaseInv, NEW d \in Delivery, Eligible(d)
    PROVE  \A w \in Worker : Busy(w) => job[w] # d
  BY OutboxAssumption
  DEF LeaseInv, RowInv, TypeOK, RowOK, WorkerOK, BusyHoldsLease, Held, Eligible

\* Before the first claim no row is leased.
LEMMA LeaseInvInit == Init => LeaseInv
<1> SUFFICES ASSUME Init PROVE LeaseInv
  OBVIOUS
<1>1. \A w \in Worker : ~Busy(w)
  BY DEF Init, Busy, Sending, Finalizing
<1> QED
  BY <1>1, RowInvInit, OutboxAssumption
  DEF Init, LeaseInv, BusyHoldsLease, OneWorkerPerRow, AttemptsInv

\* The three steps that change a row.
LEMMA ClaimKeepsLeaseInv ==
    ASSUME MaxHold < LeaseDuration, LeaseInv, RowInv', NEW w \in Worker, NEW d \in Delivery, Claim(w, d)
    PROVE  LeaseInv'
<1> USE OutboxAssumption
<1>1. \A v \in Worker : Busy(v) => job[v] # d
  BY EligibleIsFree DEF Claim, ClaimDelivery, FirstEligible
<1>2. /\ ~Busy(w)
      /\ Busy(w)' /\ job'[w] = d /\ att'[w] = attempts[d] + 1 /\ held'[w] = 0
      /\ \A v \in Worker \ {w} : /\ Busy(v)' <=> Busy(v)
                                 /\ job'[v] = job[v] /\ att'[v] = att[v] /\ held'[v] = held[v]
  BY DEF LeaseInv, RowInv, TypeOK, WorkerOK, Claim, Busy, Sending, Finalizing
<1>3. /\ status'[d] = "delivering" /\ owner'[d] = ProcessOf[w]
      /\ lease'[d] = LeaseDuration /\ attempts'[d] = attempts[d] + 1
      /\ \A e \in Delivery \ {d} : /\ status'[e] = status[e] /\ owner'[e] = owner[e]
                                 /\ lease'[e] = lease[e] /\ attempts'[e] = attempts[e]
  BY DEF LeaseInv, RowInv, TypeOK, RowOK, Claim, ClaimDelivery
<1>4. BusyHoldsLease'
  <2> SUFFICES ASSUME NEW v \in Worker, Busy(v)'
               PROVE  /\ Held(job[v], ProcessOf[v])'
                      /\ att'[v] = attempts'[job'[v]]
                      /\ lease'[job'[v]] + held'[v] >= LeaseDuration
    BY DEF BusyHoldsLease
  <2>1. CASE v = w
    BY <1>2, <1>3, <2>1 DEF Held
  <2>2. CASE v # w
    <3>1. Busy(v) /\ job'[v] = job[v] /\ att'[v] = att[v] /\ held'[v] = held[v]
      BY <1>2, <2>2
    <3>2. job[v] \in Delivery \ {d}
      BY <1>1, <3>1 DEF LeaseInv, RowInv, JobOK
    <3>3. /\ status'[job[v]] = status[job[v]] /\ owner'[job[v]] = owner[job[v]]
          /\ lease'[job[v]] = lease[job[v]] /\ attempts'[job[v]] = attempts[job[v]]
      BY <1>3, <3>2
    <3> QED
      BY <3>1, <3>3 DEF LeaseInv, BusyHoldsLease, Held
  <2> QED
    BY <2>1, <2>2
<1>5. OneWorkerPerRow'
  BY <1>1, <1>2 DEF LeaseInv, OneWorkerPerRow
<1>6. AttemptsInv'
  <2>1. faults \in Nat /\ (\A e \in Delivery : attempts[e] \in Nat)
    BY DEF LeaseInv, RowInv, TypeOK, RowOK
  <2>2. Eligible(d)
    BY DEF Claim, ClaimDelivery, FirstEligible
  <2>3. attempts[d] + 1 <= MaxAttempts + faults
    BY <1>1, <2>1, <2>2 DEF LeaseInv, AttemptsInv, Eligible
  <2>4. faults' = faults
    BY DEF Claim
  <2> SUFFICES ASSUME NEW e \in Delivery
               PROVE  /\ attempts'[e] <= MaxAttempts + faults
                      /\ status'[e] = "absent" => attempts'[e] = 0
                      /\ status'[e] = "pending" => attempts'[e] < MaxAttempts
                      /\ status'[e] = "delivering" /\ (\A v \in Worker : Busy(v)' => job'[v] # e)
                            => attempts'[e] < MaxAttempts + faults
    BY <2>4 DEF AttemptsInv
  <2>5. CASE e = d
    BY <1>2, <1>3, <2>1, <2>3, <2>5
  <2>6. CASE e # d
    <3>1. (\A v \in Worker : Busy(v)' => job'[v] # e) => (\A v \in Worker : Busy(v) => job[v] # e)
      BY <1>2, <2>6
    <3> QED
      BY <1>3, <2>6, <3>1 DEF LeaseInv, AttemptsInv
  <2> QED
    BY <2>5, <2>6
<1> QED
  BY <1>4, <1>5, <1>6 DEF LeaseInv

\* A finalization, its conflict and its error leave the other workers' leases alone.
LEMMA FinalizationKeepsLeaseInv ==
    ASSUME LeaseInv, RowInv', NEW w \in Worker, pc[w] \in Finalizing, Finalization(w),
           NEW x \in {"idle", "failed"}, Return(w, x), faults' \in {faults, faults + 1}
    PROVE  LeaseInv'
<1> USE OutboxAssumption
<1>1. PICK s \in {"pending", "delivered", "failed"}, next \in (0 - MaxAge)..MaxBackoff :
          /\ Release(job[w], s, next)
          /\ s = "pending" => att[w] < MaxAttempts
  BY FinalizationIsRelease DEF LeaseInv
<1>2. /\ Busy(w) /\ ~Busy(w)'
      /\ \A v \in Worker \ {w} : /\ Busy(v)' <=> Busy(v)
                                 /\ job'[v] = job[v] /\ att'[v] = att[v] /\ held'[v] = held[v]
  BY DEF LeaseInv, RowInv, TypeOK, WorkerOK, Return, Busy, Sending, Finalizing
<1>3. /\ job[w] \in Delivery /\ att[w] = attempts[job[w]] /\ status'[job[w]] = s
      /\ attempts' = attempts
      /\ \A e \in Delivery \ {job[w]} : /\ status'[e] = status[e] /\ owner'[e] = owner[e]
                                      /\ lease'[e] = lease[e]
  <2>1. job[w] \in Delivery /\ att[w] = attempts[job[w]]
    BY <1>2, Zenon DEF LeaseInv, RowInv, JobOK, BusyHoldsLease
  <2>2. RowOK
    BY Zenon DEF LeaseInv, RowInv, TypeOK
  <2> QED
    BY <1>1, <2>1, <2>2 DEF RowOK, Release
<1>4. \A v \in Worker \ {w} : Busy(v) => job[v] # job[w] /\ job[v] \in Delivery
  BY <1>2, Zenon DEF LeaseInv, RowInv, JobOK, OneWorkerPerRow
<1>5. BusyHoldsLease'
  <2> SUFFICES ASSUME NEW v \in Worker, Busy(v)'
               PROVE  /\ Held(job[v], ProcessOf[v])'
                      /\ att'[v] = attempts'[job'[v]]
                      /\ lease'[job'[v]] + held'[v] >= LeaseDuration
    BY Zenon DEF BusyHoldsLease
  <2>1. v # w /\ Busy(v) /\ job'[v] = job[v] /\ att'[v] = att[v] /\ held'[v] = held[v]
    BY <1>2, Zenon
  <2>2. job[v] \in Delivery \ {job[w]}
    BY <1>4, <2>1, Zenon
  <2>3. /\ status'[job[v]] = status[job[v]] /\ owner'[job[v]] = owner[job[v]]
        /\ lease'[job[v]] = lease[job[v]]
    BY <1>3, <2>2
  <2> QED
    BY <1>3, <2>1, <2>3, Zenon DEF LeaseInv, BusyHoldsLease, Held
<1>6. OneWorkerPerRow'
  BY <1>2 DEF LeaseInv, OneWorkerPerRow
<1>7. AttemptsInv'
  <2> SUFFICES ASSUME NEW e \in Delivery
               PROVE  /\ attempts'[e] <= MaxAttempts + faults'
                      /\ status'[e] = "absent" => attempts'[e] = 0
                      /\ status'[e] = "pending" => attempts'[e] < MaxAttempts
                      /\ status'[e] = "delivering" /\ (\A v \in Worker : Busy(v)' => job'[v] # e)
                            => attempts'[e] < MaxAttempts + faults'
    BY DEF AttemptsInv
  <2>1. attempts[e] \in Nat /\ faults \in Nat /\ attempts[e] <= MaxAttempts + faults
    <3>1. attempts \in [Delivery -> Nat] /\ faults \in 0..MaxFaults
      BY Zenon DEF LeaseInv, RowInv, TypeOK, RowOK
    <3>2. attempts[e] <= MaxAttempts + faults
      BY Zenon DEF LeaseInv, AttemptsInv
    <3> QED
      BY <3>1, <3>2
  <2>2. CASE e = job[w]
    <3>1. attempts'[e] <= MaxAttempts + faults'
      BY <1>3, <2>1, FaultsAllow, Zenon
    <3>2. status'[e] = s /\ attempts'[e] = att[w]
      BY <1>3, <2>2, Zenon
    <3> QED
      BY <1>1, <3>1, <3>2, Zenon
  <2>3. CASE e # job[w]
    <3>1. (\A v \in Worker : Busy(v)' => job'[v] # e) => (\A v \in Worker : Busy(v) => job[v] # e)
      BY <1>2, <2>3, Zenon
    <3>2. status'[e] = status[e] /\ attempts'[e] = attempts[e]
      BY <1>3, <2>3, Zenon
    <3>3. /\ attempts'[e] <= MaxAttempts + faults'
          /\ attempts[e] < MaxAttempts + faults => attempts'[e] < MaxAttempts + faults'
      BY <2>1, <3>2, FaultsAllow, Zenon
    <3>4. /\ status[e] = "absent" => attempts[e] = 0
          /\ status[e] = "pending" => attempts[e] < MaxAttempts
          /\ status[e] = "delivering" /\ (\A v \in Worker : Busy(v) => job[v] # e) => attempts[e] < MaxAttempts + faults
      BY Zenon DEF LeaseInv, AttemptsInv
    <3> QED
      BY <3>1, <3>2, <3>3, <3>4, Zenon
  <2> QED
    BY <2>2, <2>3
<1> QED
  BY <1>5, <1>6, <1>7 DEF LeaseInv

\* If sends end within the lease, every step preserves the tie of workers and rows.
LEMMA LeaseInvNext ==
    ASSUME MaxHold < LeaseDuration
    PROVE  LeaseInv /\ [Next]_vars => LeaseInv'
<1> SUFFICES ASSUME LeaseInv, [Next]_vars PROVE LeaseInv'
  OBVIOUS
<1> USE OutboxAssumption DEF row, local
<1>0. RowInv'
  BY RowInvNext DEF LeaseInv
\* A step that adds a fault, or none, and leaves rows and busy workers alone,
\* or drops claims at the price of a fault.
<1>1. ASSUME UNCHANGED row,
             \A w \in Worker : Busy(w)' => Busy(w) /\ job'[w] = job[w] /\ att'[w] = att[w] /\ held'[w] = held[w],
             \/ faults' = faults + 1
             \/ faults' = faults /\ \A w \in Worker : Busy(w) => Busy(w)'
      PROVE  LeaseInv'
  <2>1. BusyHoldsLease' /\ OneWorkerPerRow'
    BY <1>1 DEF LeaseInv, BusyHoldsLease, OneWorkerPerRow, Held
  <2>2. faults \in Nat /\ (\A d \in Delivery : attempts[d] \in Nat)
    BY DEF LeaseInv, RowInv, TypeOK, RowOK
  <2>3. AttemptsInv'
    BY <1>1, <2>2 DEF LeaseInv, AttemptsInv
  <2> QED
    BY <1>0, <2>1, <2>3 DEF LeaseInv
<1>2. ASSUME NEW d \in Delivery, Enqueue(d) PROVE LeaseInv'
  <2>1. BusyHoldsLease' /\ OneWorkerPerRow'
    BY <1>2 DEF LeaseInv, RowInv, TypeOK, RowOK, BusyHoldsLease, OneWorkerPerRow, Busy, Held, Enqueue
  <2>2. AttemptsInv'
    <3>1. /\ UNCHANGED <<attempts, pc, job, faults>>
          /\ status[d] = "absent" /\ status'[d] = "pending"
          /\ \A e \in Delivery : e # d => status'[e] = status[e]
      BY <1>2 DEF LeaseInv, RowInv, TypeOK, RowOK, Enqueue
    <3>2. attempts[d] = 0 /\ 0 < MaxAttempts
      BY <3>1 DEF LeaseInv, AttemptsInv
    <3> QED
      BY <3>1, <3>2, Zenon DEF LeaseInv, AttemptsInv, Busy
  <2> QED
    BY <1>0, <2>1, <2>2 DEF LeaseInv
<1>3. ASSUME NEW w \in Worker, NEW d \in Delivery, Claim(w, d) PROVE LeaseInv'
  BY <1>0, <1>3, ClaimKeepsLeaseInv
<1>4. ASSUME NEW w \in Worker, NothingEligible(w) PROVE LeaseInv'
  BY <1>1, <1>4 DEF LeaseInv, RowInv, TypeOK, WorkerOK, Busy, Sending, Finalizing, NothingEligible
<1>5. ASSUME NEW w \in Worker, ClaimError(w) PROVE LeaseInv'
  <2>1. /\ faults' = faults + 1
        /\ \A v \in Worker : /\ Busy(v)' <=> Busy(v)
                             /\ job'[v] = job[v] /\ att'[v] = att[v] /\ held'[v] = held[v]
    BY <1>5 DEF LeaseInv, RowInv, TypeOK, WorkerOK, Busy, Sending, Finalizing, ClaimError
  <2>2. CASE UNCHANGED row
    BY <1>1, <2>1, <2>2
  <2>3. ASSUME NEW d \in Delivery, ClaimDelivery(d, ProcessOf[w]) PROVE LeaseInv'
    <3>1. \A v \in Worker : Busy(v) => job[v] # d
      BY <2>3, EligibleIsFree DEF ClaimDelivery, FirstEligible
    <3>2. /\ status'[d] = "delivering" /\ attempts'[d] = attempts[d] + 1
          /\ \A e \in Delivery \ {d} : /\ status'[e] = status[e] /\ owner'[e] = owner[e]
                                     /\ lease'[e] = lease[e] /\ attempts'[e] = attempts[e]
      BY <2>3 DEF LeaseInv, RowInv, TypeOK, RowOK, ClaimDelivery
    <3>3. OneWorkerPerRow'
      BY <2>1, Zenon DEF LeaseInv, OneWorkerPerRow
    <3>4. BusyHoldsLease'
      <4> SUFFICES ASSUME NEW v \in Worker, Busy(v)'
                   PROVE  /\ Held(job[v], ProcessOf[v])'
                          /\ att'[v] = attempts'[job'[v]]
                          /\ lease'[job'[v]] + held'[v] >= LeaseDuration
        BY DEF BusyHoldsLease
      <4>1. Busy(v) /\ job'[v] = job[v] /\ att'[v] = att[v] /\ held'[v] = held[v]
        BY <2>1
      <4>2. job[v] \in Delivery \ {d}
        BY <3>1, <4>1 DEF LeaseInv, RowInv, JobOK
      <4>3. /\ status'[job[v]] = status[job[v]] /\ owner'[job[v]] = owner[job[v]]
            /\ lease'[job[v]] = lease[job[v]] /\ attempts'[job[v]] = attempts[job[v]]
        BY <3>2, <4>2
      <4> QED
        BY <4>1, <4>3, Zenon DEF LeaseInv, BusyHoldsLease, Held
    <3>5. faults \in Nat /\ (\A e \in Delivery : attempts[e] \in Nat)
      BY DEF LeaseInv, RowInv, TypeOK, RowOK
    <3>6. Eligible(d)
      BY <2>3 DEF ClaimDelivery, FirstEligible
    <3>7. attempts[d] + 1 <= MaxAttempts + faults
      BY <3>1, <3>5, <3>6 DEF LeaseInv, AttemptsInv, Eligible
    <3>8. AttemptsInv'
      BY <2>1, <3>2, <3>5, <3>7 DEF LeaseInv, AttemptsInv
    <3> QED
      BY <1>0, <3>3, <3>4, <3>8 DEF LeaseInv
  <2> QED
    BY <1>5, <2>2, <2>3 DEF ClaimError
<1>6. ASSUME NEW w \in Worker, Receive(w) PROVE LeaseInv'
  BY <1>1, <1>6 DEF LeaseInv, RowInv, TypeOK, WorkerOK, Busy, Sending, Finalizing, Receive
<1>7. ASSUME NEW w \in Worker, Deliver(w) PROVE LeaseInv'
  <2>1. PICK r \in Finalizing : pc' = [pc EXCEPT ![w] = r]
    BY <1>7, Zenon DEF Deliver, DeliverOutcomes, Finalizing
  <2> QED
    BY <1>1, <1>7, <2>1 DEF LeaseInv, RowInv, TypeOK, WorkerOK, Busy, Deliver
<1>8. ASSUME NEW w \in Worker, Finalize(w) PROVE LeaseInv'
  BY <1>0, <1>8, FinalizationKeepsLeaseInv DEF Finalize
<1>9. ASSUME NEW w \in Worker, FinalizeConflict(w) PROVE FALSE
  BY <1>9, Zenon DEF LeaseInv, BusyHoldsLease, Busy, FinalizeConflict
<1>10. ASSUME NEW w \in Worker, FinalizeError(w) PROVE LeaseInv'
  <2>1. CASE UNCHANGED row
    BY <1>1, <1>10, <2>1
    DEF LeaseInv, RowInv, TypeOK, WorkerOK, Busy, Sending, Finalizing, FinalizeError, Return
  <2>2. CASE Finalization(w)
    BY <1>0, <1>10, <2>2, FinalizationKeepsLeaseInv, Zenon DEF FinalizeError
  <2> QED
    BY <1>10, <2>1, <2>2, Zenon DEF FinalizeError
<1>11. ASSUME NEW p \in Process, StartRun(p) PROVE LeaseInv'
  BY <1>1, <1>11, Zenon DEF LeaseInv, RowInv, TypeOK, WorkerOK, Busy, Sending, Finalizing, StartRun
<1>12. ASSUME NEW p \in Process, Stop(p) PROVE LeaseInv'
  BY <1>1, <1>12 DEF LeaseInv, RowInv, TypeOK, WorkerOK, Busy, Sending, Finalizing, Stop
<1>13. ASSUME Tick PROVE LeaseInv'
  <2>1. BusyHoldsLease'
    <3> SUFFICES ASSUME NEW w \in Worker, Busy(w)'
                 PROVE  /\ Held(job[w], ProcessOf[w])'
                        /\ att'[w] = attempts'[job'[w]]
                        /\ lease'[job'[w]] + held'[w] >= LeaseDuration
      BY Zenon DEF BusyHoldsLease
    <3>1. UNCHANGED <<status, owner, attempts, pc, job, att>>
      BY <1>13 DEF Tick
    <3>2. Busy(w) /\ job[w] \in Delivery
      BY <3>1, Zenon DEF Busy, LeaseInv, RowInv, JobOK
    <3>3. /\ Held(job[w], ProcessOf[w]) /\ att[w] = attempts[job[w]]
          /\ lease[job[w]] + held[w] >= LeaseDuration
      BY <3>2, Zenon DEF LeaseInv, BusyHoldsLease
    <3>4. /\ held[w] \in 0..MaxHold /\ held[w] < MaxHold /\ held'[w] = held[w] + 1
          /\ lease[job[w]] \in 0..LeaseDuration
          /\ lease'[job[w]] = IF lease[job[w]] > 0 THEN lease[job[w]] - 1 ELSE 0
      BY <1>13, <3>2, TickTimes, Zenon DEF LeaseInv, RowInv
    <3>5. lease'[job[w]] + held'[w] >= LeaseDuration
      BY <3>3, <3>4
    <3> QED
      BY <3>1, <3>3, <3>5, Zenon DEF Held
  <2>2. OneWorkerPerRow' /\ AttemptsInv'
    BY <1>13, Zenon DEF LeaseInv, OneWorkerPerRow, AttemptsInv, Busy, Tick
  <2> QED
    BY <1>0, <2>1, <2>2 DEF LeaseInv
<1>14. ASSUME UNCHANGED vars PROVE LeaseInv'
  BY <1>1, <1>14 DEF Busy, vars
<1> QED
  BY <1>2, <1>3, <1>4, <1>5, <1>6, <1>7, <1>8, <1>9, <1>10, <1>11, <1>12, <1>13, <1>14
  DEF Next, WorkerStep

\* When every claim is finalized within its lease, two workers never hold the
\* lease of one delivery, whether they are goroutines of one process or not.
THEOREM LeasesAreExclusive ==
    ASSUME MaxHold < LeaseDuration
    PROVE  Spec => []LeaseExclusive
<1>1. LeaseInv => LeaseExclusive
  BY DEF LeaseInv, OneWorkerPerRow, LeaseExclusive
<1> QED
  BY <1>1, LeaseInvInit, LeaseInvNext, PTL DEF Spec

\* Under the same condition no finalization meets ErrConflict, so a conflict
\* never takes the process down.
THEOREM FinalizersOwnTheirRows ==
    ASSUME MaxHold < LeaseDuration
    PROVE  Spec => []FinalizerOwnsRow
<1>1. LeaseInv => FinalizerOwnsRow
  BY DEF LeaseInv, BusyHoldsLease, FinalizerOwnsRow, Busy
<1> QED
  BY <1>1, LeaseInvInit, LeaseInvNext, PTL DEF Spec

\* Under the same condition a delivery is claimed at most maxAttempts times,
\* plus once for every crash or store error.
THEOREM AttemptsAreBounded ==
    ASSUME MaxHold < LeaseDuration
    PROVE  Spec => []AttemptsBounded
<1>1. LeaseInv => AttemptsBounded
  BY Zenon DEF LeaseInv, AttemptsInv, AttemptsBounded
<1> QED
  BY <1>1, LeaseInvInit, LeaseInvNext, PTL DEF Spec

-----------------------------------------------------------------------------
(* Leases, when sends may take any time and every process has one          *)
(* dispatcher goroutine.                                                   *)

OneGoroutineEach == \A v, w \in Worker : ProcessOf[v] = ProcessOf[w] => v = w

\* A worker that is still within the time of its lease has the lease.
TimelyHoldsLease ==
    \A w \in Worker : Busy(w) /\ held[w] < LeaseDuration =>
        Held(job[w], ProcessOf[w]) /\ lease[job[w]] + held[w] >= LeaseDuration

\* A row in the name of a busy worker's process was last claimed by this worker.
OwnerClaimedLast ==
    \A w \in Worker : Busy(w) /\ Held(job[w], ProcessOf[w]) => att[w] = attempts[job[w]]

SlowInv == RowInv /\ TimelyHoldsLease /\ OwnerClaimedLast

\* What a step does to a worker: it claims a row, or stays with its claim.
Claims(v) ==
    /\ Held(job[v], ProcessOf[v])' /\ att'[v] = attempts'[job'[v]]
    /\ held'[v] = 0 /\ lease'[job'[v]] = LeaseDuration

Stays(v) == Busy(v) /\ job'[v] = job[v] /\ att'[v] = att[v] /\ held'[v] = held[v]

\* What a step does to the row of a worker that stays: nothing, or the row is
\* no longer held by it and its time is over.
Kept(v) ==
    /\ status'[job[v]] = status[job[v]] /\ owner'[job[v]] = owner[job[v]]
    /\ lease'[job[v]] = lease[job[v]] /\ attempts'[job[v]] = attempts[job[v]]

Lost(v) == ~Held(job[v], ProcessOf[v])' /\ held[v] >= LeaseDuration

\* What a step does to the workers and their rows decides.
LEMMA OthersKeepSlowInv ==
    ASSUME SlowInv, RowInv',
           \A v \in Worker : Busy(v)' => Claims(v) \/ (Stays(v) /\ (Kept(v) \/ Lost(v)))
    PROVE  SlowInv'
<1>1. \A v \in Worker : held[v] >= LeaseDuration <=> ~(held[v] < LeaseDuration)
  BY HeldTimes, Zenon DEF SlowInv, RowInv
<1>2. ASSUME NEW v \in Worker, Claims(v)
      PROVE  /\ Held(job[v], ProcessOf[v])' /\ att'[v] = attempts'[job'[v]]
             /\ lease'[job'[v]] + held'[v] >= LeaseDuration
  BY <1>2, FreshLease, Zenon DEF Claims
<1>3. ASSUME NEW v \in Worker, Stays(v), Kept(v)
      PROVE  /\ Held(job[v], ProcessOf[v])' <=> Held(job[v], ProcessOf[v])
             /\ Busy(v) /\ held'[v] = held[v] /\ att'[v] = att[v]
             /\ lease'[job'[v]] = lease[job[v]] /\ attempts'[job'[v]] = attempts[job[v]]
  BY <1>3, Zenon DEF Stays, Kept, Held
<1>4. TimelyHoldsLease'
  <2> SUFFICES ASSUME NEW v \in Worker, Busy(v)', held'[v] < LeaseDuration
               PROVE  Held(job[v], ProcessOf[v])' /\ lease'[job'[v]] + held'[v] >= LeaseDuration
    BY Zenon DEF TimelyHoldsLease
  <2>1. CASE Claims(v)
    BY <1>2, <2>1, Zenon
  <2>2. CASE Stays(v) /\ Kept(v)
    BY <1>3, <2>2, Zenon DEF SlowInv, TimelyHoldsLease
  <2>3. CASE Stays(v) /\ Lost(v)
    <3>1. held'[v] = held[v] /\ held[v] >= LeaseDuration
      BY <2>3, Zenon DEF Stays, Lost
    <3> QED
      BY <1>1, <3>1, Zenon
  <2> QED
    BY <2>1, <2>2, <2>3, Zenon
<1>5. OwnerClaimedLast'
  <2> SUFFICES ASSUME NEW v \in Worker, Busy(v)', Held(job[v], ProcessOf[v])'
               PROVE  att'[v] = attempts'[job'[v]]
    BY Zenon DEF OwnerClaimedLast
  <2>1. CASE Claims(v)
    BY <1>2, <2>1, Zenon
  <2>2. CASE Stays(v) /\ Kept(v)
    BY <1>3, <2>2, Zenon DEF SlowInv, OwnerClaimedLast
  <2>3. ~Lost(v)
    BY Zenon DEF Lost
  <2> QED
    BY <2>1, <2>2, <2>3, Zenon
<1> QED
  BY <1>4, <1>5, Zenon DEF SlowInv

\* A claim takes a row only from workers whose time is over, and puts it in
\* another owner's name.
LEMMA ClaimSparesTimely ==
    ASSUME OneGoroutineEach, SlowInv, NEW w \in Worker, NEW d \in Delivery, ClaimDelivery(d, ProcessOf[w]),
           NEW v \in Worker, v # w, Busy(v), job'[v] = job[v]
    PROVE  Kept(v) \/ Lost(v)
<1>1. job[v] \in Delivery /\ ProcessOf[v] # ProcessOf[w]
  BY Zenon DEF SlowInv, RowInv, JobOK, OneGoroutineEach
<1>2. CASE job[v] # d
  BY <1>1, <1>2, Zenon DEF Kept, ClaimDelivery, SlowInv, RowInv, TypeOK, RowOK
<1>3. CASE job[v] = d
  <2>1. owner'[d] = ProcessOf[w]
    BY Zenon DEF ClaimDelivery, SlowInv, RowInv, TypeOK, RowOK
  <2>2. Eligible(d)
    BY DEF ClaimDelivery, FirstEligible
  <2>3. held[v] >= LeaseDuration
    <3>1. CASE held[v] < LeaseDuration
      <4>1. status[d] = "delivering" /\ lease[d] + held[v] >= LeaseDuration
        BY <1>3, <3>1, Zenon DEF SlowInv, TimelyHoldsLease, Held
      <4>2. lease[d] = 0
        BY <2>2, <4>1 DEF Eligible
      <4> QED
        BY <4>1, <4>2, LeaseRunsOut, Zenon DEF SlowInv, RowInv
    <3> QED
      BY <3>1, HeldTimes, Zenon DEF SlowInv, RowInv
  <2> QED
    BY <1>1, <1>3, <2>1, <2>3, Zenon DEF Lost, Held
<1> QED
  BY <1>2, <1>3, Zenon

\* A finalization releases a row in its worker's own name, which no other
\* worker within its time has.
LEMMA FinalizationSparesTimely ==
    ASSUME OneGoroutineEach, SlowInv, NEW w \in Worker, pc[w] \in Finalizing, Held(job[w], ProcessOf[w]),
           Finalization(w), NEW v \in Worker, v # w, Busy(v), job'[v] = job[v]
    PROVE  Kept(v) \/ Lost(v)
<1>1. PICK s \in {"pending", "delivered", "failed"}, next \in (0 - MaxAge)..MaxBackoff : Release(job[w], s, next)
  BY FinalizationIsRelease, Zenon DEF SlowInv
<1>2. job[v] \in Delivery /\ job[w] \in Delivery /\ ProcessOf[v] # ProcessOf[w]
  BY Zenon DEF SlowInv, RowInv, JobOK, Busy, OneGoroutineEach
<1>3. CASE job[v] # job[w]
  BY <1>1, <1>2, <1>3, Zenon DEF Kept, Release, SlowInv, RowInv, TypeOK, RowOK
<1>4. CASE job[v] = job[w]
  <2>1. status'[job[v]] # "delivering"
    BY <1>1, <1>2, <1>4, Zenon DEF Release, SlowInv, RowInv, TypeOK, RowOK
  <2>2. held[v] >= LeaseDuration
    <3>1. ~(held[v] < LeaseDuration)
      BY <1>2, <1>4, Zenon DEF SlowInv, TimelyHoldsLease, Held
    <3> QED
      BY <3>1, HeldTimes, Zenon DEF SlowInv, RowInv
  <2> QED
    BY <2>1, <2>2, Zenon DEF Lost, Held
<1> QED
  BY <1>3, <1>4, Zenon

\* Every step preserves the tie of timely workers and their rows.
LEMMA SlowInvNext ==
    ASSUME OneGoroutineEach
    PROVE  SlowInv /\ [Next]_vars => SlowInv'
<1> SUFFICES ASSUME SlowInv, [Next]_vars PROVE SlowInv'
  OBVIOUS
<1>0. RowInv'
  BY RowInvNext DEF SlowInv
\* A step that leaves the rows of busy workers, and what they hold of them, alone.
<1>1. ASSUME UNCHANGED row,
             \A w \in Worker : Busy(w)' => Busy(w) /\ job'[w] = job[w] /\ att'[w] = att[w] /\ held'[w] = held[w]
      PROVE  SlowInv'
  BY <1>0, <1>1, OthersKeepSlowInv, Zenon DEF row, Stays, Kept
<1>2. ASSUME NEW d \in Delivery, Enqueue(d) PROVE SlowInv'
  <2>1. \A w \in Worker : Busy(w)' => /\ Busy(w) /\ job'[w] = job[w] /\ att'[w] = att[w] /\ held'[w] = held[w]
                                      /\ job[w] \in Delivery /\ job[w] # d
    BY <1>2, Zenon DEF Enqueue, local, Busy, SlowInv, RowInv, JobOK
  <2>2. \A e \in Delivery : e # d => /\ status'[e] = status[e] /\ owner'[e] = owner[e]
                                     /\ lease'[e] = lease[e] /\ attempts'[e] = attempts[e]
    BY <1>2 DEF Enqueue, SlowInv, RowInv, TypeOK, RowOK
  <2> QED
    BY <1>0, <2>1, <2>2, OthersKeepSlowInv, Zenon DEF Stays, Kept
<1>3. ASSUME NEW w \in Worker, NEW d \in Delivery, Claim(w, d) PROVE SlowInv'
  <2>1. /\ ClaimDelivery(d, ProcessOf[w])
        /\ job'[w] = d /\ att'[w] = attempts[d] + 1 /\ held'[w] = 0
        /\ \A v \in Worker \ {w} : /\ Busy(v)' <=> Busy(v)
                                   /\ job'[v] = job[v] /\ att'[v] = att[v] /\ held'[v] = held[v]
    BY <1>3 DEF Claim, Busy, SlowInv, RowInv, TypeOK, WorkerOK
  <2>2. Held(job[w], ProcessOf[w])' /\ att'[w] = attempts'[job'[w]] /\ lease'[job'[w]] = LeaseDuration
    BY <2>1, Zenon DEF ClaimDelivery, Held, SlowInv, RowInv, TypeOK, RowOK
  <2> QED
    BY <1>0, <2>1, <2>2, ClaimSparesTimely, OthersKeepSlowInv, Zenon DEF Claims, Stays
<1>4. ASSUME NEW w \in Worker, ClaimError(w) PROVE SlowInv'
  <2>1. /\ \A v \in Worker : Busy(v)' => /\ v # w /\ Busy(v)
                                         /\ job'[v] = job[v] /\ att'[v] = att[v] /\ held'[v] = held[v]
    BY <1>4 DEF ClaimError, Busy, Sending, Finalizing, SlowInv, RowInv, TypeOK, WorkerOK
  <2>2. CASE UNCHANGED row
    BY <1>1, <2>1, <2>2
  <2>3. ASSUME NEW d \in Delivery, ClaimDelivery(d, ProcessOf[w]) PROVE SlowInv'
    BY <1>0, <2>1, <2>3, ClaimSparesTimely, OthersKeepSlowInv, Zenon DEF Stays
  <2> QED
    BY <1>4, <2>2, <2>3 DEF ClaimError
<1>5. ASSUME NEW w \in Worker, NothingEligible(w) \/ Receive(w) PROVE SlowInv'
  BY <1>1, <1>5 DEF SlowInv, RowInv, TypeOK, WorkerOK, Busy, Sending, Finalizing, NothingEligible, Receive
<1>6. ASSUME NEW w \in Worker, Deliver(w) PROVE SlowInv'
  <2>1. PICK r \in Finalizing : pc' = [pc EXCEPT ![w] = r]
    BY <1>6, Zenon DEF Deliver, DeliverOutcomes, Finalizing
  <2> QED
    BY <1>1, <1>6, <2>1 DEF SlowInv, RowInv, TypeOK, WorkerOK, Busy, Deliver
<1>7. ASSUME NEW w \in Worker, NEW x \in {"idle", "failed"}, Return(w, x), pc[w] \in Finalizing,
             \/ UNCHANGED row
             \/ Held(job[w], ProcessOf[w]) /\ Finalization(w)
      PROVE  SlowInv'
  <2>1. \A v \in Worker : Busy(v)' => /\ v # w /\ Busy(v)
                                      /\ job'[v] = job[v] /\ att'[v] = att[v] /\ held'[v] = held[v]
    BY <1>7 DEF Return, Busy, Sending, Finalizing, SlowInv, RowInv, TypeOK, WorkerOK
  <2>2. CASE UNCHANGED row
    BY <1>1, <2>1, <2>2
  <2>3. CASE Held(job[w], ProcessOf[w]) /\ Finalization(w)
    BY <1>0, <1>7, <2>1, <2>3, FinalizationSparesTimely, OthersKeepSlowInv, Zenon DEF Stays
  <2> QED
    BY <1>7, <2>2, <2>3
<1>8. ASSUME NEW w \in Worker, Finalize(w) \/ FinalizeConflict(w) \/ FinalizeError(w) PROVE SlowInv'
  BY <1>7, <1>8, Zenon DEF Finalize, FinalizeConflict, FinalizeError
<1>9. ASSUME NEW p \in Process, StartRun(p) \/ Stop(p) PROVE SlowInv'
  BY <1>1, <1>9 DEF SlowInv, RowInv, TypeOK, WorkerOK, Busy, Sending, Finalizing, StartRun, Stop
<1>10. CASE Tick
  <2>1. TimelyHoldsLease'
    <3> SUFFICES ASSUME NEW w \in Worker, Busy(w)', held'[w] < LeaseDuration
                 PROVE  Held(job[w], ProcessOf[w])' /\ lease'[job'[w]] + held'[w] >= LeaseDuration
      BY Zenon DEF TimelyHoldsLease
    <3>1. UNCHANGED <<status, owner, attempts, pc, job, att>>
      BY <1>10, Zenon DEF Tick
    <3>2. Busy(w) /\ job[w] \in Delivery
      BY <3>1, Zenon DEF Busy, SlowInv, RowInv, JobOK
    <3>3. /\ held[w] \in 0..MaxHold /\ held'[w] = held[w] + 1
          /\ lease[job[w]] \in 0..LeaseDuration
          /\ lease'[job[w]] = IF lease[job[w]] > 0 THEN lease[job[w]] - 1 ELSE 0
      BY <1>10, <3>2, TickTimes, Zenon DEF SlowInv, RowInv
    <3>4. held[w] + 1 < LeaseDuration /\ held[w] < LeaseDuration
      <4>1. held[w] + 1 < LeaseDuration
        BY <3>3, Zenon
      <4> QED
        BY <3>3, <4>1, LeaseAndHold, Zenon
    <3>5. Held(job[w], ProcessOf[w]) /\ lease[job[w]] + held[w] >= LeaseDuration
      BY <3>2, <3>4, Zenon DEF SlowInv, TimelyHoldsLease
    <3>6. lease'[job[w]] + held'[w] >= LeaseDuration
      <4>1. (IF lease[job[w]] > 0 THEN lease[job[w]] - 1 ELSE 0) + (held[w] + 1) >= LeaseDuration
        BY <3>3, <3>4, <3>5, LeaseAndHold, Zenon
      <4> QED
        BY <3>3, <4>1, Zenon
    <3> QED
      BY <3>1, <3>5, <3>6, Zenon DEF Held
  <2>2. OwnerClaimedLast'
    BY <1>10, Zenon DEF SlowInv, OwnerClaimedLast, Busy, Held, Tick
  <2> QED
    BY <1>0, <2>1, <2>2 DEF SlowInv
<1>11. CASE UNCHANGED vars
  BY <1>1, <1>11 DEF vars, local, Busy
<1> QED
  BY <1>2, <1>3, <1>4, <1>5, <1>6, <1>8, <1>9, <1>10, <1>11 DEF Next, WorkerStep

\* Before the first claim nobody is busy.
LEMMA SlowInvInit == Init => SlowInv
<1> SUFFICES ASSUME Init PROVE SlowInv
  OBVIOUS
<1>1. \A w \in Worker : ~Busy(w)
  BY DEF Init, Busy, Sending, Finalizing
<1> QED
  BY <1>1, RowInvInit DEF SlowInv, TimelyHoldsLease, OwnerClaimedLast

\* With one dispatcher goroutine in every process, two workers are never within
\* unexpired leases of one delivery, however long sends take: the filter on
\* lease_owner is enough when owners are not shared (ClaimDelivery,
\* CompleteDelivery, RescheduleDelivery).
THEOREM OwnersExclude ==
    ASSUME OneGoroutineEach
    PROVE  Spec => []LeaseExclusive
<1>1. SlowInv => LeaseExclusive
  <2> SUFFICES ASSUME SlowInv PROVE LeaseExclusive
    OBVIOUS
  <2>1. \A u \in Worker : held[u] >= LeaseDuration <=> ~(held[u] < LeaseDuration)
    BY HeldTimes, Zenon DEF SlowInv, RowInv
  <2> SUFFICES ASSUME NEW v \in Worker, NEW w \in Worker, v # w, Busy(v), Busy(w), job[v] = job[w],
                      held[v] < LeaseDuration, held[w] < LeaseDuration
               PROVE  FALSE
    BY <2>1, Zenon DEF LeaseExclusive
  <2> QED
    BY DEF SlowInv, TimelyHoldsLease, Held, OneGoroutineEach
<1> QED
  BY <1>1, SlowInvInit, SlowInvNext, PTL DEF Spec

\* Under the same condition, or when every claim is finalized within its lease,
\* a row leaves delivering by the hand of its latest claimer only, is given up
\* only after a refusal for good or with its attempts used, and is put back with
\* a delay of at most maxBackoff.
THEOREM LateFinalizersAreFenced ==
    ASSUME OneGoroutineEach \/ MaxHold < LeaseDuration
    PROVE  Spec => OnlyHolderReleases
<1> DEFINE Released(d) ==
               /\ \E w \in Worker :
                      /\ pc[w] \in Finalizing /\ job[w] = d /\ att[w] = attempts[d]
                      /\ status'[d] = "failed" => GivesUp(w, attempts[d])
               /\ status'[d] = "pending" => wait'[d] \in 1..MaxBackoff
           A == \A d \in Delivery :
                    status[d] = "delivering" /\ status'[d] # "delivering" => Released(d)
           Tied == RowInv /\ OwnerClaimedLast
<1>1. Tied /\ [Next]_vars => [A]_vars
  <2> SUFFICES ASSUME Tied, Next, NEW d \in Delivery, status[d] = "delivering", status'[d] # "delivering"
               PROVE  Released(d)
    OBVIOUS
  <2>1. ASSUME NEW e \in Delivery, NEW p, ClaimDelivery(e, p) PROVE FALSE
    BY <2>1 DEF ClaimDelivery, RowInv, TypeOK, RowOK
  <2>2. ASSUME NEW e \in Delivery, Enqueue(e) PROVE FALSE
    BY <2>2 DEF Enqueue, RowInv, TypeOK, RowOK
  <2>3. PICK w \in Worker : pc[w] \in Finalizing /\ Held(job[w], ProcessOf[w]) /\ Finalization(w)
    BY <2>1, <2>2, Zenon DEF Next, WorkerStep, Claim, NothingEligible, ClaimError, Receive, Deliver, Finalize, FinalizeConflict,
                      FinalizeError, StartRun, Stop, Tick, row
  <2>4. PICK s \in {"pending", "delivered", "failed"}, next \in (0 - MaxAge)..MaxBackoff :
            /\ Release(job[w], s, next)
            /\ s = "pending" => next \in 1..MaxBackoff
            /\ s = "failed" => GivesUp(w, att[w])
    BY <2>3, FinalizationIsRelease, Zenon
  <2>5. job[w] = d
    BY <2>4 DEF Release, RowInv, TypeOK, RowOK
  <2>6. status'[d] = s /\ wait'[d] = next
    BY <2>4, <2>5 DEF Release, RowInv, TypeOK, RowOK
  <2>7. att[w] = attempts[d]
    BY <2>3, <2>5, Zenon DEF OwnerClaimedLast, Busy
  <2> QED
    BY <2>3, <2>4, <2>5, <2>6, <2>7, Zenon
<1>2. SlowInv => Tied
  BY DEF SlowInv
<1>3. LeaseInv => Tied
  BY Zenon DEF LeaseInv, BusyHoldsLease, OwnerClaimedLast
<1>4. ASSUME OneGoroutineEach PROVE Spec => OnlyHolderReleases
  BY <1>1, <1>2, <1>4, SlowInvInit, SlowInvNext, PTL DEF Spec, OnlyHolderReleases
<1>5. ASSUME MaxHold < LeaseDuration PROVE Spec => OnlyHolderReleases
  BY <1>1, <1>3, <1>5, LeaseInvInit, LeaseInvNext, PTL DEF Spec, OnlyHolderReleases
<1> QED
  BY <1>4, <1>5

=============================================================================
