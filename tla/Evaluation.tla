----------------------------- MODULE Evaluation -----------------------------
(***************************************************************************)
(* One pass of the reconciler from the object to the decision: Normalize,  *)
(* GetIncident, Engine.Evaluate, decide with its primary and its fallback  *)
(* provider, Compose and Commit, all under one reconcile timeout.  What    *)
(* the store does with the decision is the module Reconciler's.            *)
(***************************************************************************)
EXTENDS Provider, Response

CONSTANTS
    Objects,            \* objects that Resolve returns
    Providers,          \* pairs of protocols: primary, and fallback or None
    ReconcileTimeout,   \* controller.reconcileTimeout
    StoreTime           \* the longest that the calls before decide take, and Commit

ASSUME EvaluationAssumption ==
    /\ ReconcileTimeout \in Nat \ {0} /\ StoreTime \in Nat
    /\ Providers \subseteq Protocol \X (Protocol \cup {None})

\* What the API guarantees of the objects it returns.  Conditions of the built-in
\* kinds are a map by type and containers one by name; an object keeps its
\* namespace.
ASSUME ObjectsAssumption ==
    /\ None \notin Objects
    /\ \A o \in Objects :
           /\ DOMAIN o = ObjectFields
           /\ o.conditions \in Seq([type : Words, status : Words \cup {"malformed"}, reason : Words,
                                     age : Nat \cup {NoTime}])
           /\ o.containers \in Seq([name : Words, is : STRING, reason : Words, restarts : Nat])
           /\ \A i \in DOMAIN o.conditions : o.conditions[i].status = "malformed" => o.kind = "Custom"
           /\ o.kind # "Custom" =>
                  \A i, j \in DOMAIN o.conditions : o.conditions[i].type = o.conditions[j].type => o.conditions[i] = o.conditions[j]
           /\ \A i, j \in DOMAIN o.containers : o.containers[i].name = o.containers[j].name => o.containers[i] = o.containers[j]
           /\ o.replicas \in Nat \cup {None} /\ {o.available, o.unavailable, o.ready} \subseteq Nat
    /\ \A o, p \in Objects : o.uid = p.uid => o.namespace = p.namespace

\* The status of a kind that has one is not nil.
ASSUME NilIsNoStatus ==
    \A o \in Objects :
        /\ o.kind = "Deployment" => normalizeDeployment(o).workload # None
        /\ o.kind = "Job" => normalizeJob(o).job # None
        /\ o.kind = "Event" => normalizeEvent(o).event # None

VARIABLES
    stage,       \* where the pass is
    object,      \* the object that Resolve returned
    providers,   \* the configured providers
    asked,       \* how many providers have been asked
    result,      \* the result of the rules
    decision     \* the decision

vars == <<callVars, stage, object, providers, asked, result, decision>>

Stages == {"idle", "resolved", "skipped", "failed", "decide", "ask", "commit", "committed", "expired"}

\* The stages in which a pass has ended.
Ended == {"skipped", "failed", "committed", "expired"}

TypeOK ==
    /\ CallTypeOK
    /\ stage \in Stages
    /\ object = None <=> stage = "idle"
    /\ providers \in Providers
    /\ asked \in 0 .. 2
    /\ stage \in {"idle", "resolved", "skipped", "failed"} => decision = None /\ call = "idle"
    /\ decision # None => decision.severity \in DOMAIN severityRank /\ decision.action \in DOMAIN actionRank

Init ==
    /\ CallIdle /\ left = 0
    /\ stage = "idle" /\ object = None /\ asked = 0 /\ result = None /\ decision = None
    /\ providers \in Providers

-----------------------------------------------------------------------------

\* The context of the pass begins; an object that cannot be normalized is an error.
Resolve(o) ==
    /\ stage = "idle"
    /\ stage' = IF Normalize(o) = None THEN "failed" ELSE "resolved"
    /\ object' = o
    /\ left' = ReconcileTimeout
    /\ UNCHANGED <<call, attempt, budget, wait, spent, reply, providers, asked, result, decision>>

isRecovery(r) == r.rules = {"recovered"}

\* The incident is read, if there is one, the rules are applied, and incident
\* and snapshot are stored.  The pass ends here if the incident, as it was read
\* or inserted meanwhile, has the content hash of the snapshot (known), or if
\* there is nothing to report and no incident to change.
Load(previous, known, time) ==
    LET r == Evaluate(Normalize(object), previous)
    IN  /\ stage = "resolved"
        /\ result' = r
        /\ left' = IF time < left THEN left - time ELSE 0
        /\ stage' = IF time >= left THEN "failed"
                    ELSE IF \/ known /\ ~isRecovery(r)
                            \/ r.disposition = "no_match" /\ previous \in {None, "resolved"}
                      THEN "skipped" ELSE "decide"
        /\ UNCHANGED <<call, attempt, budget, wait, spent, reply, object, providers, asked, decision>>

\* A result that needs no provider is composed at once.
Decide ==
    /\ stage = "decide"
    /\ IF result.disposition # "semantic"
         THEN /\ stage' = "commit"
              /\ decision' = Compose(result, None, FALSE)
              /\ UNCHANGED <<callVars, asked>>
         ELSE /\ stage' = "ask"
              /\ asked' = 1
              /\ Retry
              /\ UNCHANGED decision
    /\ UNCHANGED <<object, providers, result>>

Evidence == reply # NoBody /\ Accepts(providers[asked], reply)

\* Mutant: the fallback is asked only when the primary does not answer at all.
MutReturned ==
    /\ stage = "ask" /\ call = "returned"
    /\ IF reply = NoBody /\ asked = 1 /\ providers[2] # None
         THEN /\ asked' = 2
              /\ Retry
              /\ UNCHANGED <<stage, decision>>
         ELSE /\ stage' = "commit"
              /\ decision' = Compose(result, IF Evidence THEN reply.answers ELSE None, ~Evidence)
              /\ UNCHANGED <<callVars, asked>>
    /\ UNCHANGED <<object, providers, result>>

\* A provider has returned: after a failure the fallback is asked.
Returned ==
    /\ stage = "ask" /\ call = "returned"
    /\ IF ~Evidence /\ asked = 1 /\ providers[2] # None
         THEN /\ asked' = 2
              /\ Retry
              /\ UNCHANGED <<stage, decision>>
         ELSE /\ stage' = "commit"
              /\ decision' = Compose(result, IF Evidence THEN reply.answers ELSE None, ~Evidence)
              /\ UNCHANGED <<callVars, asked>>
    /\ UNCHANGED <<object, providers, result>>

\* The transaction runs under what is left of the reconcile timeout.
Commit(time) ==
    /\ stage = "commit"
    /\ stage' = IF time < left THEN "committed" ELSE "expired"
    /\ left' = 0
    /\ UNCHANGED <<call, attempt, budget, wait, spent, reply, object, providers, asked, result, decision>>

\* The next pass.
Again ==
    /\ stage \in Ended
    /\ stage' = "idle" /\ object' = None /\ asked' = 0 /\ result' = None /\ decision' = None
    /\ call' = "idle" /\ attempt' = 0 /\ budget' = 0 /\ wait' = 0 /\ left' = 0 /\ spent' = 0 /\ reply' = NoBody
    /\ UNCHANGED providers

\* A step of the call of a provider.
Calling == CallStep /\ UNCHANGED <<stage, object, providers, asked, result, decision>>

Next ==
    \/ stage = "idle" /\ \E o \in Objects : Resolve(o)
    \/ \E previous \in {None, "open", "resolved", "suppressed"}, known \in BOOLEAN, time \in 0 .. StoreTime :
           Load(previous, known, time)
    \/ Decide
    \/ Calling
    \/ Returned
    \/ \E time \in 0 .. StoreTime : Commit(time)
    \/ Again

Spec == Init /\ [][Next]_vars

\* What happens without an answer of a provider: time passes, contexts end, and
\* the reconciler goes on.
Progress ==
    \/ Decide \/ Returned
    \/ (DeadlineExceeded \/ Wake \/ Tick) /\ UNCHANGED <<stage, object, providers, asked, result, decision>>
    \/ \E time \in 0 .. StoreTime : Commit(time)

FairSpec == Spec /\ WF_vars(Progress)

-----------------------------------------------------------------------------
(* Properties of the time that a pass takes.                               *)

\* The providers that were asked have used at most one decision timeout each,
\* whatever they answer, however often they are retried and whatever they ask
\* for in Retry-After (Retry's context, Retry-After's limit, sleepContext).
DecisionTimeBound ==
    stage \in {"ask", "commit"} => left + StoreTime + asked * TotalTimeout >= ReconcileTimeout

\* "Provider failure creates the configured deterministic fallback rather than
\* dropping the incident": a decision, once made, is committed within the
\* reconcile timeout under which decide and Commit run.
EveryDecisionIsCommitted == stage # "expired"

\* A decision is made and its transaction ends, also if no provider ever answers
\* (every request carries the context of Retry, every sleep ends with it).
EvaluationEnds == stage = "decide" ~> stage \in Ended

-----------------------------------------------------------------------------
(* Properties of what is decided.                                          *)

\* The fallback decision is the last resort of decide: it is committed for a
\* semantic result only when every configured provider has been asked.
FallbackIsLast ==
    (stage = "committed" /\ "provider_unavailable" \in decision.reasons /\ result.disposition = "semantic")
        => asked = IF providers[2] = None THEN 1 ELSE 2

\* An object that the configuration ignores, by its namespace or by a label
\* whose key is no credential's.
Ignored(o) ==
    \/ o.namespace \in IgnoredNamespaces
    \/ \E l \in o.labels, i \in IgnoredLabels :
           l.key \notin SensitiveKeys /\ i.key = l.key /\ i.value \in {None, l.value}

\* The ignore lists work through all the layers: buildNormalizer lets the labels
\* through that the engine looks for, the engine suppresses, Compose keeps it.
\* Nothing else is suppressed.
IgnoredIsSilent ==
    stage = "committed" => (decision.action = "suppress" <=> Ignored(object))

\* An object that is down by its own status: a container that has looped long
\* and often enough, a failed Job, a Deployment without available replicas.
Down(o) ==
    \/ /\ o.kind = "Pod"
       /\ \E i \in DOMAIN o.containers : /\ o.containers[i].is = "waiting" /\ o.containers[i].reason = "CrashLoopBackOff"
                                         /\ o.containers[i].restarts >= CrashLoopCriticalThreshold
       /\ \E i \in DOMAIN o.conditions : /\ o.conditions[i].type = "Ready" /\ o.conditions[i].status = "False"
                                         /\ o.conditions[i].age >= MinimumAge
    \/ /\ o.kind = "Job"
       /\ \E i \in DOMAIN o.conditions : o.conditions[i].type = "Failed" /\ o.conditions[i].status = "True"
    \/ /\ o.kind = "Deployment"
       /\ o.replicas # 0 /\ o.available = 0 /\ o.unavailable > 0
       /\ \E i \in DOMAIN o.conditions : /\ o.conditions[i].type = "Available" /\ o.conditions[i].status = "False"
                                         /\ o.conditions[i].age >= MinimumAge

\* What is down is paged for, and no provider has a say in it.
DownIsPaged ==
    stage = "committed" /\ Down(object) /\ ~Ignored(object) => decision.action = "page" /\ asked = 0

Ages(s) == <<[i \in DOMAIN s.conditions |-> s.conditions[i].age],
             IF s.event = None THEN NoTime ELSE s.event.lastObserved>>

\* Reconcile skips an object whose content hash is the incident's.  That is sound
\* as far as the hash tells apart what the rules do: of two states of an object
\* with one hash, the rules say the same, times being equal.
RulesFollowHash ==
    stage = "resolved" =>
        LET s == Normalize(object)
        IN  \A o \in {p \in Objects : p.kind = object.kind /\ p.uid = object.uid} :
                LET t == Normalize(o)
                IN  (t # None /\ ContentHash(t) = ContentHash(s) /\ Ages(t) = Ages(s))
                        => Evaluate(t, "open") = Evaluate(s, "open")

Backwards(seq) == [i \in DOMAIN seq |-> seq[Len(seq) + 1 - i]]

\* The order in which the API lists conditions and containers carries no meaning:
\* it changes neither the hash nor the result of the rules.
ListingOrderIrrelevant ==
    stage = "resolved" =>
        LET s == Normalize(object)
            t == Normalize([object EXCEPT !.conditions = Backwards(@), !.containers = Backwards(@)])
        IN  ContentHash(t) = ContentHash(s) /\ Evaluate(t, "open") = Evaluate(s, "open")

ValidAnswers ==
    {a \in {b.answers : b \in Body} \ {None} : ValidateAnswers(Questions, a)}

Riskier(a, b) ==
    /\ a.operational_impact.score >= b.operational_impact.score
    /\ a.requires_immediate_attention.noul >= b.requires_immediate_attention.noul
    /\ a.likely_transient.noul <= b.likely_transient.noul

\* Evidence of more impact, more urgency and less transience never leads to a
\* milder decision (composeOperationalTriage at its thresholds).
RiskierEvidenceNeverLowers ==
    stage = "committed" /\ asked > 0 /\ Evidence =>
        \A a \in ValidAnswers : Riskier(a, reply.answers) =>
            LET d == Compose(result, a, FALSE)
            IN  /\ severityRank[d.severity] >= severityRank[decision.severity]
                /\ actionRank[d.action] >= actionRank[decision.action]

\* Providers are held to the schema of AnswerJSONSchema: whatever ValidateAnswers
\* accepts can be said in it.
SchemaAdmitsTheValid ==
    (call = "returned" /\ reply # NoBody /\ reply.answers # None /\ ValidateAnswers(Questions, reply.answers))
        => AnswerJSONSchema(Questions, reply.answers)

=============================================================================
