-------------------------- MODULE LifecycleProofs ---------------------------
(***************************************************************************)
(* Proofs about WorkQueue and Lifecycle, for any keys and workers.  First  *)
(* the manager on its own; then the process, which runs that manager as it *)
(* is, so that what is proved of the manager holds in the process.         *)
(***************************************************************************)
EXTENDS Lifecycle, TLAPS, SequenceTheorems

-----------------------------------------------------------------------------
(* The manager: its queue, informers and workers (WorkQueue).              *)

\* The FIFO holds each dirty key that nobody processes, once.
FifoInv ==
    /\ \A i, j \in 1 .. Len(queue) : queue[i] = queue[j] => i = j
    /\ \A i \in 1 .. Len(queue) : queue[i] \in dirty /\ queue[i] \notin processing
    /\ \A k \in dirty : k \in processing \/ \E i \in 1 .. Len(queue) : queue[i] = k

\* The keys that are processed are those that workers hold, each by one.
HolderInv ==
    /\ \A w \in Worker : item[w] # None <=> worker[w] \in {"resolve", "finish", "done"}
    /\ \A w \in Worker : item[w] # None => item[w] \in processing
    /\ \A k \in processing : \E w \in Worker : item[w] = k
    /\ OneWorkerPerKey

\* What the manager has done by each of its steps.
PhaseInv ==
    /\ ~accepting => cancelled
    /\ manager \in {"stopping", "draining", "joining", "returned"} => cancelled
    /\ manager \in {"draining", "joining", "returned"} <=> shutting
    /\ manager \in {"new", "sync"} => \A w \in Worker : worker[w] = "off"
    /\ manager = "returned" => \A w \in Worker : worker[w] \in {"off", "exited"}

\* NoUpdateLost, with "dirty" for what is in the FIFO or will be.
TrackInv ==
    ~cancelled => \A k \in Key :
        /\ unseen[k] = "yes" =>
               \/ k \in watched \/ k \in notifying \/ k \in delayed \/ k \in dirty
               \/ \E w \in Worker : item[w] = k /\ worker[w] = "resolve"
        /\ unseen[k] = "read" => \E w \in Worker : item[w] = k /\ worker[w] = "finish"

QueueInv == QueueTypeOK /\ FifoInv /\ HolderInv /\ PhaseInv /\ TrackInv

-----------------------------------------------------------------------------
(* The FIFO.                                                               *)

\* Appending a key keeps the others where they are.
LEMMA AppendKey ==
    ASSUME NEW q \in Seq(Key), NEW k \in Key
    PROVE  /\ Append(q, k) \in Seq(Key) /\ Len(Append(q, k)) = Len(q) + 1
           /\ Append(q, k)[Len(q) + 1] = k
           /\ \A i \in 1 .. Len(q) : Append(q, k)[i] = q[i]
  BY AppendProperties

\* Taking the first key moves the others up by one.
LEMMA TakeKey ==
    ASSUME NEW q \in Seq(Key), q # <<>>
    PROVE  /\ Tail(q) \in Seq(Key) /\ Len(q) \in Nat \ {0} /\ Len(Tail(q)) = Len(q) - 1
           /\ Head(q) = q[1] /\ q[1] \in Key
           /\ \A i \in 1 .. Len(Tail(q)) : i + 1 \in 1 .. Len(q) /\ Tail(q)[i] = q[i + 1]
  BY HeadTailProperties, EmptySeq, LenProperties, ElementOfSeq

\* Appending a dirty key that nobody processes and that is not in the FIFO.
LEMMA FifoAppend ==
    ASSUME QueueTypeOK, NEW k \in Key,
           queue' = Append(queue, k),
           \A i, j \in 1 .. Len(queue) : queue[i] = queue[j] => i = j,
           \A i \in 1 .. Len(queue) : queue[i] # k,
           \A i \in 1 .. Len(queue) : queue[i] \in dirty' /\ queue[i] \notin processing',
           k \in dirty', k \notin processing',
           \A d \in dirty' : d = k \/ d \in processing' \/ \E i \in 1 .. Len(queue) : queue[i] = d
    PROVE  FifoInv' /\ queue' \in Seq(Key)
<1> DEFINE n == Len(queue)
<1>1. /\ queue' \in Seq(Key) /\ n \in Nat /\ Len(queue') = n + 1 /\ queue'[n + 1] = k
      /\ \A i \in 1 .. n : queue'[i] = queue[i]
  BY AppendKey, LenProperties DEF QueueTypeOK
<1> HIDE DEF n
<1>2. \A i \in 1 .. n + 1 : i \in 1 .. n \/ i = n + 1
  BY <1>1
<1>3. \A i, j \in 1 .. n + 1 : queue'[i] = queue'[j] => i = j
  BY <1>1, <1>2 DEF n
<1>4. \A i \in 1 .. n + 1 : queue'[i] \in dirty' /\ queue'[i] \notin processing'
  BY <1>1, <1>2 DEF n
<1>5. \A d \in dirty' : d \in processing' \/ \E i \in 1 .. n + 1 : queue'[i] = d
  <2> SUFFICES ASSUME NEW d \in dirty', d \notin processing' PROVE \E i \in 1 .. n + 1 : queue'[i] = d
    BY Zenon
  <2>1. CASE d = k
    BY <1>1, <2>1
  <2>2. CASE d # k
    <3>1. PICK i \in 1 .. n : queue[i] = d
      BY <2>2 DEF n
    <3> QED
      BY <1>1, <3>1
  <2> QED
    BY <2>1, <2>2, Zenon
<1> QED
  BY <1>1, <1>3, <1>4, <1>5 DEF FifoInv

\* Add keeps the FIFO in order, and the key is dirty then, unless the queue shuts down.
LEMMA FifoAdd ==
    ASSUME QueueTypeOK, FifoInv, NEW k \in Key, Add(k), UNCHANGED processing
    PROVE  /\ FifoInv' /\ queue' \in Seq(Key) /\ dirty' \subseteq Key /\ dirty \subseteq dirty'
           /\ ~shutting => k \in dirty'
<1>1. CASE shutting \/ k \in dirty
  BY <1>1 DEF Add, FifoInv, QueueTypeOK
<1>2. CASE ~shutting /\ k \notin dirty /\ k \in processing
  BY <1>2 DEF Add, FifoInv, QueueTypeOK
<1>3. CASE ~shutting /\ k \notin dirty /\ k \notin processing
  <2>1. queue' = Append(queue, k) /\ dirty' = dirty \cup {k}
    BY <1>3 DEF Add
  <2>2. FifoInv' /\ queue' \in Seq(Key)
    BY <1>3, <2>1, FifoAppend DEF FifoInv
  <2> QED
    BY <2>1, <2>2 DEF QueueTypeOK
<1> QED
  BY <1>1, <1>2, <1>3

\* Get takes the first key: it is not dirty any more and is processed.
LEMMA FifoGet ==
    ASSUME QueueTypeOK, FifoInv, NEW w \in Worker, Get(w)
    PROVE  /\ FifoInv' /\ queue' \in Seq(Key)
           /\ Head(queue) \in dirty \ processing /\ Head(queue) \in Key
<1>1. queue \in Seq(Key) /\ queue # <<>> /\ queue' = Tail(queue)
  BY DEF Get, QueueTypeOK
<1>2. /\ queue' \in Seq(Key) /\ Len(queue) \in Nat \ {0} /\ Len(queue') = Len(queue) - 1
      /\ Head(queue) = queue[1] /\ queue[1] \in Key
      /\ \A i \in 1 .. Len(queue') : i + 1 \in 1 .. Len(queue) /\ queue'[i] = queue[i + 1]
  BY <1>1, TakeKey
<1>3. dirty' = dirty \ {queue[1]} /\ processing' = processing \cup {queue[1]} /\ 1 \in 1 .. Len(queue)
  BY <1>2 DEF Get
<1>4. \A i, j \in 1 .. Len(queue') : queue'[i] = queue'[j] => i = j
  BY <1>2 DEF FifoInv
<1>5. \A i \in 1 .. Len(queue') : queue'[i] \in dirty' /\ queue'[i] \notin processing'
  BY <1>2, <1>3 DEF FifoInv
<1>6. ASSUME NEW d \in dirty', d \notin processing' PROVE \E i \in 1 .. Len(queue') : queue'[i] = d
  <2>1. PICK i \in 1 .. Len(queue) : queue[i] = d
    BY <1>3, <1>6 DEF FifoInv
  <2>2. i # 1
    BY <1>3, <1>6, <2>1
  <2>3. i - 1 \in 1 .. Len(queue') /\ (i - 1) + 1 = i
    BY <1>2, <2>2
  <2>4. queue'[i - 1] = queue[(i - 1) + 1]
    BY <1>2, <2>3
  <2> QED
    BY <2>1, <2>3, <2>4
<1>7. queue[1] \in dirty \ processing
  BY <1>3 DEF FifoInv
<1> QED
  BY <1>2, <1>4, <1>5, <1>6, <1>7 DEF FifoInv

\* Done puts a key that became dirty meanwhile back into the FIFO.
LEMMA FifoDone ==
    ASSUME QueueTypeOK, FifoInv, NEW w \in Worker, Done(w), item[w] \in processing
    PROVE  FifoInv' /\ queue' \in Seq(Key)
<1>1. /\ processing' = processing \ {item[w]} /\ dirty' = dirty /\ item[w] \in Key
      /\ queue' = IF item[w] \in dirty THEN Append(queue, item[w]) ELSE queue
  BY DEF Done, QueueTypeOK
<1>2. \A i \in 1 .. Len(queue) : queue[i] # item[w] /\ queue[i] \in dirty' /\ queue[i] \notin processing'
  BY <1>1 DEF FifoInv
<1>3. CASE item[w] \in dirty
  BY <1>1, <1>2, <1>3, FifoAppend DEF FifoInv
<1>4. CASE item[w] \notin dirty
  BY <1>1, <1>2, <1>4 DEF FifoInv, QueueTypeOK
<1> QED
  BY <1>3, <1>4

-----------------------------------------------------------------------------
(* The inductive invariant.                                                *)

\* An empty queue without workers satisfies the invariant.
LEMMA QueueInitInv == QueueInit => QueueInv
<1> SUFFICES ASSUME QueueInit PROVE QueueInv
  OBVIOUS
<1>1. QueueTypeOK
  BY EmptySeq, Zenon DEF QueueInit, QueueTypeOK, ManagerSteps, WorkerSteps
<1>2. FifoInv
  BY DEF QueueInit, FifoInv
<1>3. HolderInv
  BY DEF QueueInit, HolderInv, OneWorkerPerKey
<1>4. PhaseInv /\ TrackInv
  BY DEF QueueInit, PhaseInv, TrackInv
<1> QED
  BY <1>1, <1>2, <1>3, <1>4 DEF QueueInv

\* A step of the cluster, an informer, a timer or the sweeper.
LEMMA ClientStepInv ==
    ASSUME QueueInv, NEW k \in Key, ClientStep(k)
    PROVE  QueueInv'
<1> USE DEF QueueInv
<1>0. /\ UNCHANGED <<cancelled, manager, accepting, processing, shutting, worker, item>>
  BY DEF ClientStep, Change, Callback, Enqueue, DelayOver, SweepAdd, informerVars, queueVars, workerVars
<1>1. HolderInv' /\ PhaseInv'
  BY <1>0 DEF HolderInv, PhaseInv, OneWorkerPerKey
<1>2. CASE Change(k)
  <2>1. UNCHANGED <<queue, dirty, delayed, notifying>> /\ watched' = watched \cup {k}
        /\ unseen' = [unseen EXCEPT ![k] = "yes"]
    BY <1>2 DEF Change, queueVars
  <2>2. QueueTypeOK'
    BY <1>0, <2>1 DEF QueueTypeOK
  <2>3. FifoInv'
    BY <1>0, <2>1 DEF FifoInv
  <2>4. TrackInv'
    BY <1>0, <2>1 DEF TrackInv, QueueTypeOK
  <2> QED
    BY <1>1, <2>2, <2>3, <2>4
<1>3. CASE Callback(k)
  <2>1. UNCHANGED <<queue, dirty, delayed, unseen>> /\ watched' = watched \ {k}
        /\ notifying' = IF accepting THEN notifying \cup {k} ELSE notifying
    BY <1>3 DEF Callback, queueVars
  <2>2. QueueTypeOK'
    BY <1>0, <2>1 DEF QueueTypeOK
  <2>3. FifoInv'
    BY <1>0, <2>1 DEF FifoInv
  <2>4. TrackInv'
    BY <1>0, <2>1 DEF TrackInv, PhaseInv
  <2> QED
    BY <1>1, <2>2, <2>3, <2>4
<1>4. CASE Enqueue(k) \/ DelayOver(k) \/ SweepAdd(k)
  <2>1. Add(k) /\ UNCHANGED <<watched, unseen>>
    BY <1>4 DEF Enqueue, DelayOver, SweepAdd, informerVars
  <2>2. /\ notifying' \subseteq notifying /\ delayed' \subseteq delayed
        /\ \A j \in notifying : j \in notifying' \/ j = k
        /\ \A j \in delayed : j \in delayed' \/ j = k
    BY <1>4 DEF Enqueue, DelayOver, SweepAdd, informerVars
  <2>3. /\ FifoInv' /\ queue' \in Seq(Key) /\ dirty' \subseteq Key /\ dirty \subseteq dirty'
        /\ ~shutting => k \in dirty'
    BY <1>0, <2>1, FifoAdd
  <2>4. QueueTypeOK'
    BY <1>0, <2>1, <2>2, <2>3 DEF QueueTypeOK
  <2>5. TrackInv'
    BY <1>0, <2>1, <2>2, <2>3 DEF TrackInv, PhaseInv
  <2> QED
    BY <1>1, <2>3, <2>4, <2>5
<1> QED
  BY <1>2, <1>3, <1>4 DEF ClientStep

\* A step of runWorker.
LEMMA WorkerStepInv ==
    ASSUME QueueInv, NEW w \in Worker, WorkerStep(w)
    PROVE  QueueInv'
<1> USE DEF QueueInv
<1>0. /\ UNCHANGED <<cancelled, manager, accepting, watched, notifying, shutting>>
      /\ worker[w] \notin {"off", "exited"}
  BY DEF WorkerStep, Get, GetShutdown, Resolve, Reconciled, Done, informerVars, queueVars
<1>a. manager \notin {"new", "sync", "returned"}
  BY <1>0 DEF PhaseInv
<1>b. PhaseInv'
  BY <1>0, <1>a DEF PhaseInv
<1>1. CASE Get(w)
  <2> DEFINE k == Head(queue)
  <2>1. /\ FifoInv' /\ queue' \in Seq(Key) /\ k \in dirty \ processing /\ k \in Key
    BY <1>1, FifoGet
  <2>2. /\ worker[w] = "get" /\ UNCHANGED <<delayed, unseen>>
        /\ dirty' = dirty \ {k} /\ processing' = processing \cup {k}
        /\ worker' = [worker EXCEPT ![w] = "resolve"] /\ item' = [item EXCEPT ![w] = k]
    BY <1>1 DEF Get
  <2> HIDE DEF k
  <2>3. QueueTypeOK'
    BY <1>0, <2>1, <2>2 DEF QueueTypeOK, WorkerSteps
  <2>4. item[w] = None
    BY <2>2 DEF HolderInv
  <2>5. HolderInv'
    BY <2>1, <2>2, <2>4, WorkQueueAssumption DEF HolderInv, OneWorkerPerKey, QueueTypeOK
  <2>6. TrackInv'
    BY <1>0, <2>1, <2>2, <2>4, WorkQueueAssumption DEF TrackInv, QueueTypeOK
  <2> QED
    BY <1>b, <2>1, <2>3, <2>5, <2>6
<1>2. CASE GetShutdown(w)
  <2>1. /\ worker[w] = "get" /\ shutting /\ UNCHANGED <<queue, dirty, processing, delayed, item, unseen>>
        /\ worker' = [worker EXCEPT ![w] = "exited"]
    BY <1>2 DEF GetShutdown, queueVars
  <2>2. QueueTypeOK' /\ FifoInv'
    BY <1>0, <2>1 DEF QueueTypeOK, WorkerSteps, FifoInv
  <2>3. HolderInv'
    BY <2>1 DEF HolderInv, OneWorkerPerKey, QueueTypeOK
  <2>4. TrackInv'
    BY <1>0, <1>b, <2>1 DEF TrackInv, PhaseInv
  <2> QED
    BY <1>b, <2>2, <2>3, <2>4
<1>3. CASE Resolve(w)
  <2>1. /\ worker[w] = "resolve" /\ UNCHANGED <<queue, dirty, processing, delayed, item>>
        /\ worker' = [worker EXCEPT ![w] = "finish"]
        /\ unseen' = [unseen EXCEPT ![item[w]] = IF @ = "yes" THEN "read" ELSE @]
    BY <1>3 DEF Resolve, queueVars
  <2>2. item[w] \in Key
    BY <2>1 DEF HolderInv, QueueTypeOK
  <2>3. QueueTypeOK' /\ FifoInv'
    BY <1>0, <2>1, <2>2 DEF QueueTypeOK, WorkerSteps, FifoInv
  <2>4. HolderInv'
    BY <2>1 DEF HolderInv, OneWorkerPerKey, QueueTypeOK
  <2>5. TrackInv'
    BY <1>0, <2>1, <2>2 DEF TrackInv, QueueTypeOK, HolderInv, OneWorkerPerKey
  <2> QED
    BY <1>b, <2>3, <2>4, <2>5
<1>4. ASSUME NEW r \in Results, Reconciled(w, r) PROVE QueueInv'
  <2>1. /\ worker[w] \in {"resolve", "finish"} /\ UNCHANGED <<queue, dirty, processing, item>>
        /\ worker[w] = "resolve" => r = "error"
        /\ worker' = [worker EXCEPT ![w] = "done"]
        /\ unseen' = [unseen EXCEPT ![item[w]] =
                         IF @ = "read" THEN IF r = "error" THEN "yes" ELSE "no" ELSE @]
        /\ delayed' = delayed \/ delayed' = delayed \cup {item[w]}
        /\ r = "error" /\ ~cancelled /\ ~shutting => delayed' = delayed \cup {item[w]}
    BY <1>4 DEF Reconciled, AddDelayed, Results
  <2>2. item[w] \in Key
    BY <2>1 DEF HolderInv, QueueTypeOK
  <2>3. QueueTypeOK'
    BY <1>0, <2>1, <2>2 DEF QueueTypeOK, WorkerSteps
  <2>4. FifoInv'
    BY <2>1 DEF FifoInv
  <2>5. HolderInv'
    BY <2>1 DEF HolderInv, OneWorkerPerKey, QueueTypeOK
  <2>6. TrackInv'
    <3> SUFFICES ASSUME ~cancelled, NEW k \in Key
                 PROVE  /\ unseen'[k] = "yes" =>
                              \/ k \in watched \/ k \in notifying \/ k \in delayed' \/ k \in dirty
                              \/ \E v \in Worker : item[v] = k /\ worker'[v] = "resolve"
                        /\ unseen'[k] = "read" => \E v \in Worker : item[v] = k /\ worker'[v] = "finish"
      BY <1>0, <2>1 DEF TrackInv
    <3>1. CASE k # item[w]
      BY <2>1, <2>2, <3>1 DEF TrackInv, QueueTypeOK
    <3>2. CASE k = item[w] /\ r = "error"
      <4>1. k \in delayed'
        BY <2>1, <3>2 DEF PhaseInv
      <4>2. unseen'[k] # "read"
        BY <2>1, <2>2, <3>2 DEF QueueTypeOK
      <4> QED
        BY <4>1, <4>2
    <3>3. CASE k = item[w] /\ r # "error"
      <4>1. unseen'[k] # "read" /\ (unseen'[k] = "yes" => unseen[k] = "yes")
        BY <2>1, <2>2, <3>3 DEF QueueTypeOK
      <4>2. \A v \in Worker : item[v] = k => v = w
        BY <2>2, <3>3, WorkQueueAssumption DEF HolderInv, OneWorkerPerKey
      <4>3. worker[w] = "finish"
        BY <2>1, <3>3
      <4> QED
        BY <2>1, <4>1, <4>2, <4>3 DEF TrackInv
    <3> QED
      BY <3>1, <3>2, <3>3
  <2> QED
    BY <1>b, <2>3, <2>4, <2>5, <2>6
<1>5. CASE Done(w)
  <2>1. /\ worker[w] = "done" /\ UNCHANGED <<dirty, delayed, unseen>>
        /\ processing' = processing \ {item[w]}
        /\ worker' = [worker EXCEPT ![w] = "get"] /\ item' = [item EXCEPT ![w] = None]
    BY <1>5 DEF Done
  <2>2. item[w] \in Key /\ item[w] \in processing
    BY <2>1 DEF HolderInv, QueueTypeOK
  <2>3. FifoInv' /\ queue' \in Seq(Key)
    BY <1>5, <2>2, FifoDone
  <2>4. QueueTypeOK'
    BY <1>0, <2>1, <2>3 DEF QueueTypeOK, WorkerSteps
  <2>5. HolderInv'
    BY <2>1, <2>2, WorkQueueAssumption DEF HolderInv, OneWorkerPerKey, QueueTypeOK
  <2>6. TrackInv'
    BY <1>0, <2>1, <2>2 DEF TrackInv, QueueTypeOK
  <2> QED
    BY <1>b, <2>3, <2>4, <2>5, <2>6
<1> QED
  BY <1>1, <1>2, <1>3, <1>4, <1>5 DEF WorkerStep

\* A step of Manager.Run, or the cancellation.
LEMMA ManagerStepInv ==
    ASSUME QueueInv, ManagerStep \/ Cancel
    PROVE  QueueInv'
<1> USE DEF QueueInv
<1>0. UNCHANGED <<watched, notifying, queue, dirty, processing, delayed, item, unseen>>
  BY DEF ManagerStep, StartInformers, CachesSynced, CachesNotSynced, StopHandler, ShutDown, Drained, Join,
         Cancel, informerVars, queueVars, workerVars
<1>1. QueueTypeOK'
  <2>1. /\ cancelled' \in BOOLEAN /\ manager' \in ManagerSteps /\ accepting' \in BOOLEAN /\ shutting' \in BOOLEAN
        /\ worker' \in [Worker -> WorkerSteps]
    BY Zenon DEF ManagerStep, StartInformers, CachesSynced, CachesNotSynced, StopHandler, ShutDown, Drained, Join,
           Cancel, informerVars, queueVars, workerVars, QueueTypeOK, ManagerSteps, WorkerSteps
  <2> QED
    BY <1>0, <2>1 DEF QueueTypeOK
<1>2. FifoInv'
  BY <1>0 DEF FifoInv
<1>3. worker' = worker \/ (\A w \in Worker : worker[w] = "off" /\ worker'[w] = "get")
  BY DEF ManagerStep, StartInformers, CachesSynced, CachesNotSynced, StopHandler, ShutDown, Drained, Join,
         Cancel, informerVars, queueVars, workerVars, PhaseInv
<1>4. HolderInv'
  BY <1>0, <1>3 DEF HolderInv, OneWorkerPerKey
<1>5. TrackInv'
  <2>1. ~cancelled' => ~cancelled
    BY DEF ManagerStep, StartInformers, CachesSynced, CachesNotSynced, StopHandler, ShutDown, Drained, Join, Cancel
  <2> QED
    BY <1>0, <1>3, <2>1 DEF TrackInv
<1>6. PhaseInv'
  <2>1. CASE StartInformers
    BY <2>1 DEF StartInformers, PhaseInv, informerVars, queueVars, workerVars
  <2>2. CASE CachesSynced
    BY <2>2 DEF CachesSynced, PhaseInv, informerVars, queueVars
  <2>3. CASE CachesNotSynced
    BY <2>3 DEF CachesNotSynced, PhaseInv, workerVars
  <2>4. CASE StopHandler
    BY <2>4 DEF StopHandler, PhaseInv, queueVars, workerVars
  <2>5. CASE ShutDown
    BY <2>5 DEF ShutDown, PhaseInv, informerVars, workerVars
  <2>6. CASE Drained
    BY <2>6 DEF Drained, PhaseInv, informerVars, queueVars, workerVars
  <2>7. CASE Join
    BY <2>7 DEF Join, PhaseInv, informerVars, queueVars, workerVars
  <2>8. CASE Cancel
    BY <2>8 DEF Cancel, PhaseInv, informerVars, queueVars, workerVars
  <2> QED
    BY <2>1, <2>2, <2>3, <2>4, <2>5, <2>6, <2>7, <2>8 DEF ManagerStep
<1> QED
  BY <1>1, <1>2, <1>4, <1>5, <1>6

\* Every step keeps the invariant.
LEMMA QueueNextInv == QueueInv /\ [QueueNext]_managerVars => QueueInv'
<1> SUFFICES ASSUME QueueInv, [QueueNext]_managerVars PROVE QueueInv'
  OBVIOUS
<1>1. CASE UNCHANGED managerVars
  <2>1. UNCHANGED <<cancelled, manager, accepting, watched, notifying, queue, dirty, processing, delayed,
                    shutting, worker, item, unseen>>
    BY <1>1 DEF managerVars, informerVars, queueVars, workerVars
  <2> QED
    BY <2>1 DEF QueueInv, QueueTypeOK, FifoInv, HolderInv, PhaseInv, TrackInv, OneWorkerPerKey
<1> QED
  BY <1>1, ClientStepInv, WorkerStepInv, ManagerStepInv DEF QueueNext

-----------------------------------------------------------------------------
(* The theorems.                                                           *)

\* What the invariant says of the properties.
LEMMA QueueInvImplies ==
    QueueInv => QueueTypeOK /\ OneWorkerPerKey /\ NoUpdateLost /\ ReturnedMeansStopped
<1> SUFFICES ASSUME QueueInv PROVE QueueTypeOK /\ OneWorkerPerKey /\ NoUpdateLost /\ ReturnedMeansStopped
  OBVIOUS
<1>1. QueueTypeOK /\ OneWorkerPerKey
  BY DEF QueueInv, HolderInv
<1>2. NoUpdateLost
  BY Zenon DEF QueueInv, TrackInv, FifoInv, NoUpdateLost
<1>3. ReturnedMeansStopped
  BY WorkQueueAssumption DEF QueueInv, QueueTypeOK, PhaseInv, HolderInv, ReturnedMeansStopped
<1> QED
  BY <1>1, <1>2, <1>3

\* The invariant holds throughout.
THEOREM QueueInvariant == QueueSpec => []QueueInv
  BY QueueInitInv, QueueNextInv, PTL DEF QueueSpec

\* In one process no two workers reconcile one object at the same time, for any
\* number of keys and workers (the queue, and the deferred Done of runWorker).
THEOREM WorkersExclude == QueueSpec => []OneWorkerPerKey
  BY QueueInvariant, QueueInvImplies, PTL

\* No change is forgotten while the manager runs, for any number of keys and
\* workers (the callbacks, Done, and the re-adds of runWorker).
THEOREM NothingIsForgotten == QueueSpec => []NoUpdateLost
  BY QueueInvariant, QueueInvImplies, PTL

\* After Manager.Run has returned no worker is at work (Stop, drain and Wait).
THEOREM ManagerReturnsLast == QueueSpec => []ReturnedMeansStopped
  BY QueueInvariant, QueueInvImplies, PTL

-----------------------------------------------------------------------------
(* The process (Lifecycle).                                                *)

Others == Runners \ {"manager"}

\* Nothing runs before App.Run.
Before == stage \notin {"select", "waiting", "closing", "exited"}

ProcessTypeOK ==
    /\ stage \in Stages
    /\ signalled \in BOOLEAN
    /\ store \in {"none", "open", "closed"}
    /\ gates \subseteq {"config", "mongo", "informers"}
    /\ runner \in [Others -> {"off", "first", "running"} \cup RunnerResults]
    /\ failed \in BOOLEAN /\ timedOut \in BOOLEAN

StoreInv ==
    /\ stage \in {"load", "validate", "client", "connect"} => store = "none"
    /\ stage \in {"verify"} \cup BuildStages \cup {"select", "waiting", "closing"} => store = "open"
    /\ stage = "exited" => store = "closed" \/ (store = "none" /\ ~Started)

\* The runners start together; a process that exits without them has failed.
StartInv ==
    /\ Before => ~cancelled /\ ~failed /\ ~timedOut /\ manager = "new" /\ \A r \in Others : runner[r] = "off"
    /\ InRun => \A r \in Others : runner[r] # "off"
    /\ stage = "exited" => \/ \A r \in Others : runner[r] # "off"
                           \/ failed /\ ~timedOut /\ manager = "new" /\ \A r \in Others : runner[r] = "off"
    /\ "informers" \in gates => Started /\ manager \notin {"new", "sync"}

\* The first result or the signal cancels; without a signal it was an error.
ExitInv ==
    /\ stage = "select" => (cancelled <=> signalled) /\ \A r \in Runners : ~Stopped(r)
    /\ stage \in {"waiting", "closing"} => cancelled /\ (signalled \/ failed)
    /\ timedOut => failed
    /\ stage = "closing" \/ (stage = "exited" /\ Started) => timedOut \/ \A r \in Runners : Stopped(r)
    /\ stage = "exited" => failed \/ (signalled /\ Started)
    /\ ~failed => \A r \in Runners : Result(r) # "error"

ProcessInv == ProcessTypeOK /\ StoreInv /\ StartInv /\ ExitInv

Inv == QueueInv /\ ProcessInv

-----------------------------------------------------------------------------
(* The manager inside the process.                                         *)

\* Every step of the process is a step of the manager's queue or leaves it alone.
LEMMA QueueStep ==
    ASSUME Inv, [Next]_vars
    PROVE  [QueueNext]_managerVars
<1>1. CASE UNCHANGED managerVars
  BY <1>1
<1>2. CASE UNCHANGED <<manager, informerVars, queueVars, workerVars, unseen>> /\ cancelled'
  BY <1>2 DEF QueueNext, Cancel
<1>3. CASE Starting
  <2>1. CASE StartRunners
    <3>1. UNCHANGED <<manager, informerVars, queueVars, workerVars, unseen>> /\ cancelled' = signalled /\ ~cancelled
      BY <2>1 DEF StartRunners, Inv, ProcessInv, StartInv, Before
    <3>2. CASE signalled
      BY <1>2, <3>1, <3>2
    <3>3. CASE ~signalled
      BY <3>1, <3>3 DEF managerVars, Inv, ProcessInv, ProcessTypeOK, QueueInv, QueueTypeOK
    <3> QED
      BY <3>2, <3>3
  <2>2. CASE ~StartRunners
    BY <1>1, <1>3, <2>2 DEF Starting, LoadConfig, ValidateConfig, BuildClient, Connect, EarlyFailure, Verify,
                            VerifyFails, Build, BuildFails, Go, Abort
  <2> QED
    BY <2>1, <2>2
<1>4. CASE Running
  BY <1>1, <1>4, Zenon DEF Running, ContextDone, AllReceived, ShutdownTimeout, Close, Go
<1>5. CASE Signal
  <2>1. UNCHANGED <<manager, informerVars, queueVars, workerVars, unseen>> /\ cancelled' = (cancelled \/ InRun)
    BY <1>5 DEF Signal
  <2>2. CASE cancelled \/ InRun
    BY <1>2, <2>1, <2>2, Zenon
  <2>3. CASE ~cancelled /\ ~InRun
    BY <2>1, <2>3 DEF managerVars, Inv, QueueInv, QueueTypeOK
  <2> QED
    BY <2>2, <2>3
<1>6. CASE RunnerStep
  <2>1. ASSUME NEW r, NEW result, Return(r, result) PROVE [QueueNext]_managerVars
    <3>1. UNCHANGED <<manager, informerVars, queueVars, workerVars, unseen>> /\ (cancelled' \/ UNCHANGED cancelled)
      BY <2>1 DEF Return, Receive
    <3> QED
      BY <1>2, <3>1 DEF managerVars
  <2>2. CASE FirstSweep
    BY <1>1, <2>2 DEF FirstSweep
  <2>3. ASSUME NEW k \in Key, SweepOnce(k) PROVE [QueueNext]_managerVars
    BY <2>3 DEF SweepOnce, QueueNext, ClientStep
  <2> QED
    BY <1>6, <2>1, <2>2, <2>3 DEF RunnerStep, SweeperStops, DispatcherStops, SweepFails, HealthStops
<1>7. CASE ManagerSynced \/ ManagerRuns \/ ManagerReturns
  BY <1>7 DEF ManagerSynced, ManagerRuns, ManagerReturns, QueueNext, ManagerStep
<1>8. CASE QueueRuns
  BY <1>8 DEF QueueRuns, Alive, QueueNext, ClientStep
<1>9. CASE UNCHANGED vars
  BY <1>1, <1>9 DEF vars
<1> QED
  BY <1>3, <1>4, <1>5, <1>6, <1>7, <1>8, <1>9 DEF Next

-----------------------------------------------------------------------------
(* The process.                                                            *)

\* The stages between the store and App.Run, one by one.
LEMMA BuildStagesListed ==
    BuildStages = {"providers", "notifiers", "reconciler", "manager", "sweeper", "hostname", "dispatcher", "app"}
<1>1. 1 .. 8 = {1, 2, 3, 4, 5, 6, 7, 8}
  OBVIOUS
<1> QED
  BY <1>1 DEF BuildStages, Building

\* A process that has not begun to start satisfies the invariant.
LEMMA InitInv ==
    Init => Inv
<1> SUFFICES ASSUME Init PROVE Inv
  OBVIOUS
<1>1. QueueInv
  BY QueueInitInv DEF Init
<1>2. ProcessTypeOK /\ StoreInv
  BY BuildStagesListed, Zenon DEF Init, ProcessTypeOK, StoreInv, Stages, Runners, Others
<1>3. StartInv
  BY DEF Init, QueueInit, StartInv, Before, InRun, Started, Others, Runners
<1>4. ExitInv
  BY DEF Init, QueueInit, ExitInv, Started, Result, Stopped, RunnerResults, Runners
<1> QED
  BY <1>1, <1>2, <1>3, <1>4 DEF Inv, ProcessInv

\* A step that changes neither the process nor what it looks at in the manager.
LEMMA StutterInv ==
    ASSUME ProcessInv, UNCHANGED processVars, UNCHANGED cancelled,
           manager' = manager \/ (manager \notin {"new", "returned"} /\ manager' \notin {"new", "sync", "returned"})
                   \/ (stage # "exited" /\ ~Before /\ manager = "new" /\ manager' = "sync")
    PROVE  ProcessInv'
<1>1. ProcessTypeOK' /\ StoreInv'
  BY DEF ProcessInv, ProcessTypeOK, StoreInv, Started, processVars
<1>2. StartInv'
  BY DEF ProcessInv, StartInv, Before, InRun, Started, processVars
<1>3. \A r \in Runners : Result(r)' = Result(r)
  BY DEF Result, processVars
<1>4. ExitInv'
  BY <1>3 DEF ProcessInv, ExitInv, Started, Stopped, processVars
<1> QED
  BY <1>1, <1>2, <1>4 DEF ProcessInv

\* Before App.Run no runner has begun, and none has a result.
LEMMA NoRunnerYet ==
    ASSUME \A r \in Others : runner[r] = "off", manager = "new"
    PROVE  ~Started /\ \A r \in Runners : ~Stopped(r) /\ Result(r) # "error"
<1>1. "health" \in Others /\ Runners = Others \cup {"manager"}
  BY DEF Others, Runners
<1>2. \A r \in Runners : Result(r) \in {"off", "running"}
  BY <1>1 DEF Result, Others, Runners
<1> QED
  BY <1>1, <1>2 DEF Started, Stopped, RunnerResults

\* main and NewProduction preserve the process's part of it.
LEMMA StartingInv ==
    ASSUME ProcessInv, Starting
    PROVE  ProcessInv'
<1>0. ProcessTypeOK /\ StoreInv /\ StartInv /\ ExitInv
  BY DEF ProcessInv
<1>1. Before
  <2>1. ASSUME NEW i \in 1 .. 8, stage = Building[i] PROVE stage \in BuildStages
    BY <2>1 DEF BuildStages
  <2>2. stage \in {"load", "validate", "client", "connect", "verify"} \cup BuildStages
    BY <2>1, BuildStagesListed
       DEF Starting, LoadConfig, ValidateConfig, BuildClient, Connect, EarlyFailure, Verify, VerifyFails, Build,
           BuildFails, StartRunners
  <2> QED
    BY <2>2, BuildStagesListed DEF Before
<1>2. /\ ~cancelled /\ ~failed /\ ~timedOut /\ manager = "new" /\ "informers" \notin gates
      /\ \A r \in Others : runner[r] = "off"
  <2>1. ~cancelled /\ ~failed /\ ~timedOut /\ manager = "new" /\ \A r \in Others : runner[r] = "off"
    BY <1>0, <1>1 DEF StartInv
  <2> QED
    BY <1>0, <2>1 DEF StartInv
<1>3. ASSUME UNCHANGED <<runner, manager>>
      PROVE  /\ ~Started' /\ \A r \in Runners : ~Stopped(r)' /\ Result(r)' # "error"
             /\ manager' = "new" /\ \A r \in Others : runner'[r] = "off"
  <2>1. ~Started /\ \A r \in Runners : ~Stopped(r) /\ Result(r) # "error"
    BY <1>2, NoRunnerYet
  <2>2. (Started' <=> Started) /\ \A r \in Runners : (Stopped(r)' <=> Stopped(r)) /\ Result(r)' = Result(r)
    BY <1>3 DEF Started, Stopped, Result
  <2> QED
    BY <1>2, <1>3, <2>1, <2>2
<1>4. ASSUME Abort, (stage \in {"load", "validate", "client", "connect"} /\ store' = store) \/ store' = "closed"
      PROVE  ProcessInv'
  <2>1. /\ stage' = "exited" /\ failed' /\ failed' \in BOOLEAN
        /\ UNCHANGED <<cancelled, manager, signalled, gates, runner, timedOut>>
    BY <1>4 DEF Abort, managerVars
  <2>2. ProcessTypeOK' /\ StoreInv'
    BY <1>0, <1>3, <1>4, <2>1, BuildStagesListed DEF ProcessTypeOK, StoreInv, Stages
  <2>3. StartInv'
    BY <1>2, <1>3, <2>1 DEF StartInv, Before, InRun
  <2>4. ExitInv'
    BY <1>2, <1>3, <2>1 DEF ExitInv
  <2> QED
    BY <2>2, <2>3, <2>4 DEF ProcessInv
<1>5. ASSUME NEW next \in Stages, Go(next), next \notin {"select", "waiting", "closing", "exited"},
             gates' \in {gates, gates \cup {"config"}, gates \cup {"mongo"}},
             IF next \in {"load", "validate", "client", "connect"} THEN store' = "none" ELSE store' = "open"
      PROVE  ProcessInv'
  <2>1. stage' = next /\ UNCHANGED <<cancelled, manager, signalled, runner, failed, timedOut>>
    BY <1>5 DEF Go, managerVars
  <2>2. gates' \subseteq {"config", "mongo", "informers"} /\ "informers" \notin gates'
    BY <1>0, <1>2, <1>5 DEF ProcessTypeOK
  <2>3. ProcessTypeOK'
    BY <1>0, <1>5, <2>1, <2>2 DEF ProcessTypeOK
  <2>4. StoreInv'
    BY <1>5, <2>1, BuildStagesListed DEF StoreInv
  <2>5. StartInv'
    BY <1>2, <1>3, <1>5, <2>1, <2>2 DEF StartInv, Before, InRun
  <2>6. ExitInv'
    BY <1>2, <1>3, <1>5, <2>1 DEF ExitInv
  <2> QED
    BY <2>3, <2>4, <2>5, <2>6 DEF ProcessInv
<1>6. CASE StartRunners
  <2>1. /\ stage' = "select" /\ cancelled' = signalled
        /\ UNCHANGED <<manager, signalled, store, gates, failed, timedOut>>
        /\ stage = "app"
    BY <1>6 DEF StartRunners
  <2>2. /\ runner' \in [Others -> {"off", "first", "running"} \cup RunnerResults]
        /\ \A r \in Others : runner'[r] \in {"first", "running"}
    BY <1>6 DEF StartRunners, Others
  <2>3. \A r \in Runners : ~Stopped(r)' /\ Result(r)' # "error"
    <3>1. \A r \in Runners : Result(r)' \in {"first", "running"}
      BY <1>2, <2>1, <2>2 DEF Result, Others
    <3> QED
      BY <3>1 DEF Stopped, RunnerResults
  <2>4. ProcessTypeOK' /\ StoreInv'
    BY <1>0, <2>1, <2>2, BuildStagesListed DEF ProcessTypeOK, StoreInv, Stages
  <2>5. StartInv'
    BY <1>2, <2>1, <2>2 DEF StartInv, Before, InRun
  <2>6. ExitInv'
    BY <1>2, <2>1, <2>3 DEF ExitInv
  <2> QED
    BY <2>4, <2>5, <2>6 DEF ProcessInv
<1>7. CASE LoadConfig \/ ValidateConfig \/ BuildClient \/ Connect \/ Verify
  <2>1. stage \in {"load", "validate", "client", "connect"} => store = "none"
    BY <1>0 DEF StoreInv
  <2>2. stage = "verify" => store = "open"
    BY <1>0 DEF StoreInv
  <2>3. Building[1] = "providers" /\ {"validate", "client", "connect", "verify", "providers"} \subseteq Stages
    BY BuildStagesListed DEF Building, Stages
  <2> QED
    BY <1>5, <1>7, <2>1, <2>2, <2>3 DEF LoadConfig, ValidateConfig, BuildClient, Connect, Verify
<1>8. CASE \E i \in 1 .. 7 : Build(i)
  <2>1. PICK i \in 1 .. 7 : Build(i)
    BY <1>8
  <2>2. stage \in BuildStages /\ Building[i + 1] \in BuildStages
    BY <2>1 DEF Build, BuildStages
  <2>3. store = "open"
    BY <1>0, <2>2 DEF StoreInv
  <2> QED
    BY <1>5, <2>1, <2>2, <2>3, BuildStagesListed DEF Build, Stages
<1>9. CASE EarlyFailure \/ VerifyFails \/ \E i \in 1 .. 8 : BuildFails(i)
  BY <1>4, <1>9, Zenon DEF EarlyFailure, VerifyFails, BuildFails
<1> QED
  BY <1>6, <1>7, <1>8, <1>9, Zenon DEF Starting

\* So do App.Run, its timer and a signal.
LEMMA RunningInv ==
    ASSUME ProcessInv, Running \/ Signal, cancelled \in BOOLEAN
    PROVE  ProcessInv'
<1> USE DEF ProcessInv
<1>1. UNCHANGED <<runner, manager>>
  BY Zenon DEF Running, ContextDone, AllReceived, ShutdownTimeout, Close, Go, Signal, managerVars
<1>2. /\ \A r \in Runners : (Stopped(r)' <=> Stopped(r)) /\ Result(r)' = Result(r)
      /\ Started' <=> Started
  BY <1>1 DEF Result, Stopped, Started
<1>3. ProcessTypeOK' /\ StoreInv'
  BY BuildStagesListed, Zenon DEF Running, ContextDone, AllReceived, ShutdownTimeout, Close, Go, Signal, ProcessTypeOK,
                           StoreInv, Stages
<1>4. StartInv'
  <2>1. CASE Running
    <3>1. InRun /\ (InRun' \/ stage' = "exited") /\ UNCHANGED gates
      BY <2>1, Zenon DEF Running, ContextDone, AllReceived, ShutdownTimeout, Close, Go, InRun
    <3> QED
      BY <1>1, <1>2, <3>1 DEF StartInv, Before, InRun
  <2>2. CASE Signal
    <3>1. UNCHANGED <<stage, gates, failed, timedOut>> /\ (Before => UNCHANGED cancelled)
      BY <2>2 DEF Signal, InRun, Before
    <3> QED
      BY <1>1, <1>2, <3>1 DEF StartInv, Before, InRun
  <2> QED
    BY <2>1, <2>2
<1>5. ExitInv'
  <2>1. CASE ContextDone \/ AllReceived
    BY <1>2, <2>1 DEF ContextDone, AllReceived, Go, managerVars, ExitInv
  <2>2. CASE ShutdownTimeout
    BY <1>2, <2>2 DEF ShutdownTimeout, managerVars, ExitInv
  <2>3. CASE Close
    <3>1. Started
      BY <2>3 DEF Close, StartInv, InRun, Started, Others, Runners
    <3> QED
      BY <1>2, <2>3, <3>1, Zenon DEF Close, managerVars, ExitInv, ProcessTypeOK
  <2>4. CASE Signal
    BY <1>2, <2>4, Zenon DEF Signal, ExitInv, InRun
  <2> QED
    BY <2>1, <2>2, <2>3, <2>4 DEF Running
<1> QED
  BY <1>3, <1>4, <1>5

\* A runner returns nil or the cancellation only under a done context.
LEMMA ReturnInv ==
    ASSUME ProcessInv, cancelled \in BOOLEAN, NEW r \in Others, NEW result \in RunnerResults,
           Return(r, result), runner[r] \in {"first", "running"}, result = "error" \/ cancelled
    PROVE  ProcessInv'
<1> USE DEF ProcessInv
<1>1. /\ InRun
      /\ runner' = [runner EXCEPT ![r] = result] /\ runner \in [Others -> {"off", "first", "running"} \cup RunnerResults]
      /\ Receive(result)
      /\ UNCHANGED <<manager, signalled, store, gates, timedOut>>
  BY DEF Return, ProcessTypeOK
<1>2. /\ Result(r)' = result /\ ~Stopped(r) /\ Stopped(r)'
      /\ \A q \in Runners \ {r} : Result(q)' = Result(q) /\ (Stopped(q)' <=> Stopped(q))
  BY <1>1 DEF Result, Stopped, Others, Runners, RunnerResults
<1>3. /\ InRun'
      /\ \A q \in Others : runner[q] # "off" /\ runner'[q] # "off"
      /\ Started /\ Started'
  BY <1>1 DEF InRun, Receive, StartInv, Started, RunnerResults, Others, Runners
<1>4. ProcessTypeOK' /\ StoreInv'
  BY <1>1, <1>3, BuildStagesListed, Zenon DEF ProcessTypeOK, StoreInv, Receive, InRun, Stages, normalizeRunnerError
<1>5. StartInv'
  BY <1>1, <1>3 DEF StartInv, InRun, Before
<1>6. ExitInv'
  <2>1. CASE stage \in {"select", "waiting"}
    <3>1. /\ stage' = "waiting" /\ cancelled' /\ failed' = (failed \/ result = "error")
      BY <1>1, <2>1 DEF Receive, normalizeRunnerError
    <3>2. signalled \/ failed \/ result = "error"
      BY <2>1 DEF ExitInv
    <3> QED
      BY <1>1, <1>2, <3>1, <3>2, Zenon DEF ExitInv, Others, Runners
  <2>2. CASE stage = "closing"
    <3>1. timedOut /\ failed
      BY <1>2, <2>2 DEF ExitInv, Others, Runners
    <3>2. UNCHANGED <<stage, cancelled, failed>>
      BY <1>1, <2>2 DEF Receive
    <3> QED
      BY <1>1, <2>2, <3>1, <3>2 DEF ExitInv
  <2> QED
    BY <1>1, <2>1, <2>2 DEF InRun
<1> QED
  BY <1>4, <1>5, <1>6

\* So do sweeper, dispatcher and health server.
LEMMA RunnerStepInv ==
    ASSUME ProcessInv, cancelled \in BOOLEAN, RunnerStep
    PROVE  ProcessInv'
<1>1. CASE SweeperStops \/ DispatcherStops \/ \E result \in RunnerResults : SweepFails(result) \/ HealthStops(result)
  BY <1>1, ReturnInv DEF SweeperStops, DispatcherStops, SweepFails, HealthStops, Others, Runners, RunnerResults
<1>2. CASE FirstSweep
  <2> USE DEF ProcessInv
  <2>1. /\ InRun /\ runner["sweeper"] = "first" /\ runner' = [runner EXCEPT !["sweeper"] = "running"]
        /\ UNCHANGED <<cancelled, manager, stage, signalled, store, gates, failed, timedOut>>
        /\ runner \in [Others -> {"off", "first", "running"} \cup RunnerResults]
    BY <1>2 DEF FirstSweep, managerVars, ProcessTypeOK
  <2>2. /\ Started' <=> Started
        /\ \A q \in Others : runner[q] = "off" <=> runner'[q] = "off"
        /\ \A r \in Runners : (Stopped(r)' <=> Stopped(r)) /\ (Result(r)' = "error" <=> Result(r) = "error")
    BY <2>1 DEF Started, Stopped, Result, Others, Runners, RunnerResults
  <2>3. ProcessTypeOK' /\ StoreInv'
    BY <2>1, <2>2, Zenon DEF ProcessTypeOK, StoreInv
  <2>4. StartInv'
    BY <2>1, <2>2 DEF StartInv, Before, InRun
  <2>5. ExitInv'
    BY <2>1, <2>2 DEF ExitInv
  <2> QED
    BY <2>3, <2>4, <2>5
<1>3. ASSUME NEW k \in Key, SweepOnce(k) PROVE ProcessInv'
  BY <1>3, StutterInv DEF SweepOnce, SweepAdd
<1> QED
  BY <1>1, <1>2, <1>3 DEF RunnerStep

\* So do the start, the work and the return of the manager.
LEMMA ManagerInv ==
    ASSUME ProcessInv, QueueInv, ManagerSynced \/ ManagerRuns \/ ManagerReturns
    PROVE  ProcessInv'
<1>1. CASE ManagerRuns
  <2>1. UNCHANGED <<processVars, cancelled>> /\ InRun
    BY <1>1 DEF ManagerRuns, StartInformers, StopHandler, ShutDown, Drained
  <2>2. \/ manager = "new" /\ manager' = "sync"
        \/ manager \notin {"new", "returned"} /\ manager' \notin {"new", "sync", "returned"}
    BY <1>1 DEF ManagerRuns, StartInformers, StopHandler, ShutDown, Drained
  <2> QED
    BY <2>1, <2>2, StutterInv DEF InRun, Before
<1>2. CASE ManagerSynced
  <2> USE DEF ProcessInv
  <2>1. /\ InRun /\ manager = "sync" /\ manager' = "running" /\ gates' = gates \cup {"informers"}
        /\ UNCHANGED <<cancelled, stage, signalled, store, runner, failed, timedOut>>
    BY <1>2 DEF ManagerSynced, CachesSynced
  <2>2. Started /\ Started' /\ \A r \in Runners : Result(r)' = Result(r) /\ (Stopped(r)' <=> Stopped(r))
    BY <2>1 DEF Result, Stopped, Started, StartInv, Others, Runners
  <2>3. ProcessTypeOK' /\ StoreInv'
    BY <2>1, <2>2 DEF ProcessTypeOK, StoreInv
  <2>4. StartInv'
    BY <2>1, <2>2 DEF StartInv, Before, InRun
  <2>5. ExitInv'
    BY <2>1, <2>2 DEF ExitInv
  <2> QED
    BY <2>3, <2>4, <2>5
<1>3. CASE ManagerReturns
  <2> USE DEF ProcessInv
  <2>1. /\ InRun /\ manager # "returned" /\ manager' = "returned" /\ UNCHANGED cancelled
        /\ stage' = IF stage = "select" THEN "waiting" ELSE stage
        /\ UNCHANGED <<signalled, store, gates, runner, failed, timedOut>>
    BY <1>3 DEF ManagerReturns, CachesNotSynced, Join
  <2>2. cancelled
    BY <1>3 DEF ManagerReturns, CachesNotSynced, Join, QueueInv, PhaseInv
  <2>3. /\ ~Stopped("manager") /\ Result("manager")' = "nil"
        /\ Started /\ Started'
        /\ \A r \in Runners \ {"manager"} : Result(r)' = Result(r) /\ (Stopped(r)' <=> Stopped(r))
    BY <2>1 DEF Result, Stopped, Started, StartInv, RunnerResults, Others, Runners
  <2>4. ProcessTypeOK' /\ StoreInv'
    BY <2>1, BuildStagesListed DEF ProcessTypeOK, StoreInv, InRun, Stages
  <2>5. StartInv'
    BY <2>1, <2>3 DEF StartInv, Before, InRun
  <2>6. ExitInv'
    BY <2>1, <2>2, <2>3 DEF ExitInv, InRun, Runners
  <2> QED
    BY <2>4, <2>5, <2>6
<1> QED
  BY <1>1, <1>2, <1>3

\* So do informers, queue and workers.
LEMMA QueueRunsInv ==
    ASSUME ProcessInv, QueueRuns
    PROVE  ProcessInv'
<1>1. UNCHANGED <<processVars, cancelled, manager>>
  <2>1. ASSUME NEW w \in Worker, Alive(WorkerStep(w)) PROVE UNCHANGED <<processVars, cancelled, manager>>
    BY <2>1 DEF Alive, WorkerStep, Get, GetShutdown, Resolve, Reconciled, Done
  <2> QED
    BY <2>1 DEF QueueRuns, Alive, Change, Callback, Enqueue, DelayOver
<1> QED
  BY <1>1, StutterInv

\* Every step of a process preserves the invariant.
LEMMA NextInv ==
    Inv /\ [Next]_vars => Inv'
<1> SUFFICES ASSUME Inv, [Next]_vars PROVE Inv'
  OBVIOUS
<1>1. QueueInv'
  BY QueueStep, QueueNextInv DEF Inv
<1>2. ProcessInv'
  <2>1. cancelled \in BOOLEAN /\ QueueInv /\ ProcessInv
    BY DEF Inv, QueueInv, QueueTypeOK
  <2>2. CASE Next
    BY <2>1, <2>2, StartingInv, RunningInv, RunnerStepInv, ManagerInv, QueueRunsInv DEF Next
  <2>3. CASE UNCHANGED vars
    BY <2>1, <2>3, StutterInv DEF vars, managerVars
  <2> QED
    BY <2>2, <2>3
<1> QED
  BY <1>1, <1>2 DEF Inv

-----------------------------------------------------------------------------

\* What the inductive invariant says of a process, in the words of Lifecycle.
LEMMA InvImplies ==
    Inv => TypeOK /\ StoreClosedLast /\ CleanExit /\ ReadyMeansStarted
<1> SUFFICES ASSUME Inv PROVE TypeOK /\ StoreClosedLast /\ CleanExit /\ ReadyMeansStarted
  OBVIOUS
<1> USE DEF Inv, ProcessInv
<1>1. TypeOK
  BY DEF TypeOK, ProcessTypeOK, QueueInv, Others
<1>2. Started => stage \in {"select", "waiting", "closing", "exited"}
  BY DEF Started, StartInv, Before, Others, Runners
<1>3. StoreClosedLast
  BY <1>2 DEF StoreClosedLast, StoreInv, ExitInv
<1>4. CleanExit
  BY DEF CleanExit, ExitInv
<1>5. ReadyMeansStarted
  <2>1. Ready => Started /\ manager \notin {"new", "sync"}
    BY DEF Ready, StartInv
  <2>2. Started => store # "none"
    BY <1>2 DEF StoreInv
  <2> QED
    BY <2>1, <2>2 DEF ReadyMeansStarted
<1> QED
  BY <1>1, <1>3, <1>4, <1>5

\* The invariant holds in every reachable state of a process.
THEOREM LifecycleInvariant ==
    Spec => []Inv
<1> QED
  BY InitInv, NextInv, PTL DEF Spec

\* A process runs the manager of WorkQueue: whatever main, the signal, the
\* other runners and the shutdown timer do, its informers, queue and workers
\* take only the steps that QueueSpec allows.
THEOREM ProcessRunsManager ==
    Spec => QueueSpec
<1>1. Init => QueueInit
  BY DEF Init
<1>2. Inv /\ [Next]_vars => [QueueNext]_managerVars
  BY QueueStep
<1> QED
  BY <1>1, <1>2, LifecycleInvariant, PTL DEF Spec, QueueSpec

\* In a process, too, a key is with one worker at a time and no change is
\* forgotten, until the shutdown begins.
THEOREM ProcessLosesNothing ==
    Spec => [](OneWorkerPerKey /\ NoUpdateLost)
<1> QED
  BY ProcessRunsManager, WorkersExclude, NothingIsForgotten, PTL

\* When a process's Manager.Run has returned, none of its workers is at work,
\* whatever ended the run: a signal, a runner that failed or the caches.
THEOREM ProcessStopsWorkers ==
    Spec => []ReturnedMeansStopped
<1> QED
  BY ProcessRunsManager, ManagerReturnsLast, PTL

\* Stages, store, gates, runners and the manager's queue, informers and workers
\* keep their types, for any keys, workers and retry bound.
THEOREM TypeCorrect ==
    Spec => []TypeOK
<1> QED
  BY LifecycleInvariant, InvImplies, PTL

\* App.Run closes the store after its runners, or after the shutdown timeout,
\* and NewProduction closes it whatever stage fails.
THEOREM StoreOutlivesRunners ==
    Spec => []StoreClosedLast
<1> QED
  BY LifecycleInvariant, InvImplies, PTL

\* Exit status 0 means a signal and no failure of any runner.
THEOREM ExitStatusIsTrue ==
    Spec => []CleanExit
<1> QED
  BY LifecycleInvariant, InvImplies, PTL

\* /readyz answers 200 only after the store and the caches are ready.
THEOREM ReadinessIsTrue ==
    Spec => []ReadyMeansStarted
<1> QED
  BY LifecycleInvariant, InvImplies, PTL

=============================================================================
