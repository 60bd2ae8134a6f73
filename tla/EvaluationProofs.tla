-------------------------- MODULE EvaluationProofs --------------------------
(***************************************************************************)
(* Proofs about Evaluation, for any timeouts, numbers of attempts, delays, *)
(* headers, objects and answers: how answers are composed, the time that a *)
(* pass takes, and in which order providers are asked.                     *)
(***************************************************************************)
EXTENDS Evaluation, TLAPS

-----------------------------------------------------------------------------
(* Composition, for all evidence.                                          *)

\* "Provider evidence cannot downgrade a deterministic critical result": what
\* Compose returns is at least as severe and as loud as the decision of the
\* rules, whatever the provider said, for any result that carries one.
THEOREM RulesAreAFloor ==
    ASSUME NEW r, NEW answers, NEW failure \in BOOLEAN, r.decision # None,
           r.decision.severity \in DOMAIN severityRank, r.decision.action \in DOMAIN actionRank
    PROVE  /\ severityRank[Compose(r, answers, failure).severity] >= severityRank[r.decision.severity]
           /\ actionRank[Compose(r, answers, failure).action] >= actionRank[r.decision.action]
<1>1. ASSUME NEW d, d.severity \in DOMAIN severityRank, d.action \in DOMAIN actionRank
      PROVE  /\ severityRank[applyDeterministicFloor(d, r.decision).severity] >= severityRank[r.decision.severity]
             /\ actionRank[applyDeterministicFloor(d, r.decision).action] >= actionRank[r.decision.action]
  BY <1>1 DEF applyDeterministicFloor, severityRank, actionRank
<1>2. CASE r.disposition # "semantic"
  BY <1>2 DEF Compose, severityRank, actionRank
<1>3. CASE r.disposition = "semantic"
  <2>1. ASSUME NEW d \in {fallbackDecision, composeOperationalTriage(answers)}
        PROVE  WithRules(d, r).severity \in DOMAIN severityRank /\ WithRules(d, r).action \in DOMAIN actionRank
    BY DEF WithRules, fallbackDecision, composeOperationalTriage, severityRank, actionRank
  <2>2. PICK d \in {fallbackDecision, composeOperationalTriage(answers)} :
            Compose(r, answers, failure) = applyDeterministicFloor(WithRules(d, r), r.decision)
    BY <1>3 DEF Compose
  <2> QED
    BY <1>1, <2>1, <2>2
<1> QED
  BY <1>2, <1>3

\* Evidence of at least the impact and the urgency and of at most the transience
\* never composes to a milder decision, whatever the numbers
\* (composeOperationalTriage and its thresholds).
THEOREM TriageIsMonotone ==
    ASSUME NEW a, NEW b,
           a.operational_impact.score \in Int, b.operational_impact.score \in Int,
           a.requires_immediate_attention.noul \in Int, b.requires_immediate_attention.noul \in Int,
           a.likely_transient.noul \in Int, b.likely_transient.noul \in Int,
           a.operational_impact.score >= b.operational_impact.score,
           a.requires_immediate_attention.noul >= b.requires_immediate_attention.noul,
           a.likely_transient.noul <= b.likely_transient.noul
    PROVE  /\ severityRank[composeOperationalTriage(a).severity] >= severityRank[composeOperationalTriage(b).severity]
           /\ actionRank[composeOperationalTriage(a).action] >= actionRank[composeOperationalTriage(b).action]
  BY DEF composeOperationalTriage, Thresholds, severityRank, actionRank

-----------------------------------------------------------------------------
(* The time that a pass takes.                                            *)

\* How many providers a pass may ask.
MostAsked == IF \E p \in Providers : p[2] # None THEN 2 ELSE 1

\* The clocks of a call and of a pass.
TimeTypeOK ==
    /\ call \in {"idle", "request", "sleep", "returned"}
    /\ stage \in Stages
    /\ providers \in Providers
    /\ attempt \in 0 .. MaxAttempts
    /\ budget \in 0 .. TotalTimeout
    /\ spent \in 0 .. TotalTimeout
    /\ wait \in Nat
    /\ left \in Nat
    /\ asked \in 0 .. MostAsked

\* A pass has used at most n total timeouts and the time before decide.
Within(n) == left + StoreTime + n * TotalTimeout >= ReconcileTimeout

\* Within a call the total timeout is spent or still to be spent, and calls
\* before it have used one total timeout each.
CallInv ==
    /\ call \in {"request", "sleep"} => /\ stage = "ask"
                                        /\ attempt >= 1
                                        /\ budget + spent = TotalTimeout
    /\ call = "sleep" => attempt < MaxAttempts
    /\ stage = "ask" => asked >= 1 /\ call # "idle"

PassInv ==
    /\ stage \in {"idle", "resolved", "decide"} => asked = 0
    /\ stage = "resolved" => left = ReconcileTimeout
    /\ stage = "decide" => Within(0)
    /\ call \in {"request", "sleep"} => left + spent + StoreTime + (asked - 1) * TotalTimeout >= ReconcileTimeout
    /\ stage = "ask" /\ call = "returned" => Within(asked)
    /\ stage = "commit" => Within(asked)

TimeInv == TimeTypeOK /\ CallInv /\ PassInv

\* The multiples of the total timeout that occur.
LEMMA Multiples ==
    ASSUME NEW n \in 0 .. MostAsked
    PROVE  /\ n \in {0, 1, 2}
           /\ TotalTimeout \in Nat /\ TotalTimeout > 0 /\ StoreTime \in Nat /\ ReconcileTimeout \in Nat
           /\ 0 * TotalTimeout = 0 /\ 1 * TotalTimeout = TotalTimeout /\ 2 * TotalTimeout = TotalTimeout + TotalTimeout
           /\ n * TotalTimeout \in Nat
           /\ n >= 1 => n * TotalTimeout = (n - 1) * TotalTimeout + TotalTimeout /\ (n - 1) * TotalTimeout \in Nat
<1>1. n \in {0, 1, 2}
  BY DEF MostAsked
<1>2. TotalTimeout \in Nat /\ TotalTimeout > 0 /\ StoreTime \in Nat /\ ReconcileTimeout \in Nat
  BY ProviderAssumption, EvaluationAssumption
<1>3. 0 * TotalTimeout = 0 /\ 1 * TotalTimeout = TotalTimeout /\ 2 * TotalTimeout = TotalTimeout + TotalTimeout
  BY <1>2
<1> QED
  BY <1>1, <1>2, <1>3

\* A pass starts with its whole reconcile timeout.
LEMMA InitTime ==
    Init => TimeInv
  BY ProviderAssumption DEF Init, CallIdle, TimeInv, TimeTypeOK, CallInv, PassInv, Stages, MostAsked

\* A call returns: what it has spent is at most the total timeout.
LEMMA ReturnTime ==
    ASSUME TimeInv, NEW body, Return(body), call \in {"request", "sleep"},
           UNCHANGED <<stage, object, providers, asked, result, decision>>
    PROVE  TimeInv'
<1> USE DEF TimeInv
<1>1. /\ stage = "ask" /\ asked \in 0 .. MostAsked /\ asked >= 1 /\ spent \in 0 .. TotalTimeout /\ left \in Nat
      /\ left + spent + StoreTime + (asked - 1) * TotalTimeout >= ReconcileTimeout
  BY DEF TimeTypeOK, CallInv, PassInv
<1>2. Within(asked)
  <2> DEFINE m == (asked - 1) * TotalTimeout
             n == asked * TotalTimeout
  <2>1. m \in Nat /\ n = m + TotalTimeout /\ TotalTimeout \in Nat /\ StoreTime \in Nat /\ ReconcileTimeout \in Nat
    BY <1>1, Multiples
  <2>2. left + spent + StoreTime + m >= ReconcileTimeout
    BY <1>1
  <2>3. left + StoreTime + n >= ReconcileTimeout
    <3> HIDE DEF m, n
    <3> QED
      BY <1>1, <2>1, <2>2
  <2> QED
    BY <2>3 DEF Within
<1>3. TimeTypeOK'
  BY ProviderAssumption DEF Return, TimeTypeOK
<1>4. CallInv'
  BY <1>1 DEF Return, CallInv
<1>5. PassInv'
  BY <1>1, <1>2 DEF Return, PassInv, Within
<1> QED
  BY <1>3, <1>4, <1>5

\* A call begins, with one more provider asked.
LEMMA RetryTime ==
    ASSUME TimeInv, Retry, asked < MostAsked, Within(asked), stage' = "ask", asked' = asked + 1, UNCHANGED providers
    PROVE  TimeInv'
<1> USE DEF TimeInv
<1>1. asked \in 0 .. MostAsked /\ asked + 1 \in 0 .. MostAsked /\ left \in Nat
  BY DEF TimeTypeOK, MostAsked
<1> DEFINE m == asked * TotalTimeout
           n == (asked + 1) * TotalTimeout
<1>2. m \in Nat /\ n = m + TotalTimeout /\ TotalTimeout \in Nat /\ StoreTime \in Nat /\ ReconcileTimeout \in Nat
  BY <1>1, Multiples
<1>3. left + StoreTime + m >= ReconcileTimeout
  BY DEF Within
<1>4. left + StoreTime + n >= ReconcileTimeout
  <2> HIDE DEF m, n
  <2> QED
    BY <1>1, <1>2, <1>3
<1>5. TimeTypeOK'
  BY <1>1, ProviderAssumption DEF Retry, TimeTypeOK, Stages
<1>6. CallInv'
  BY <1>1, ProviderAssumption DEF Retry, CallInv
<1>7. (asked' - 1) * TotalTimeout = m /\ asked' * TotalTimeout = n
  BY <1>1
<1>8. PassInv'
  <2> HIDE DEF m, n
  <2> QED
    BY <1>1, <1>2, <1>3, <1>4, <1>7 DEF Retry, PassInv, Within
<1> QED
  BY <1>5, <1>6, <1>8

\* Every step of a provider's call keeps the account of time.
LEMMA CallingTime ==
    ASSUME TimeInv, Calling
    PROVE  TimeInv'
<1> USE DEF TimeInv
<1>1. UNCHANGED <<stage, object, providers, asked, result, decision>>
  BY DEF Calling
<1>2. ASSUME NEW body, Return(body), call \in {"request", "sleep"} PROVE TimeInv'
  BY <1>1, <1>2, ReturnTime
<1>3. ASSUME NEW status, NEW hint \in Nat, Fail(status, hint) PROVE TimeInv'
  <2>1. CASE Expired \/ ~Retryable(status) \/ attempt = MaxAttempts
    BY <1>2, <1>3, <2>1 DEF Fail
  <2>2. CASE ~(Expired \/ ~Retryable(status) \/ attempt = MaxAttempts)
    <3>1. /\ call = "request" /\ call' = "sleep" /\ wait' = Delay(hint)
          /\ UNCHANGED <<attempt, budget, left, spent, reply>>
      BY <1>3, <2>2 DEF Fail
    <3>2. attempt \in 1 .. MaxAttempts
      BY <3>1, ProviderAssumption DEF TimeTypeOK, CallInv
    <3>3. Backoff[attempt] \in 0 .. MaxBackoff
      BY <3>2, ProviderAssumption
    <3>4. Delay(hint) \in Nat
      BY <3>3, ProviderAssumption DEF Delay
    <3>5. TimeTypeOK'
      BY <1>1, <3>1, <3>4 DEF TimeTypeOK
    <3>6. CallInv'
      BY <1>1, <2>2, <3>1, ProviderAssumption DEF CallInv, TimeTypeOK
    <3>7. PassInv'
      BY <1>1, <3>1 DEF PassInv, Within
    <3> QED
      BY <3>5, <3>6, <3>7
  <2> QED
    BY <2>1, <2>2
<1>4. CASE Wake
  <2>1. CASE Expired
    BY <1>2, <1>4, <2>1 DEF Wake
  <2>2. CASE ~Expired
    <3>1. /\ call = "sleep" /\ call' = "request" /\ attempt' = attempt + 1
          /\ UNCHANGED <<budget, wait, left, spent, reply>>
      BY <1>4, <2>2 DEF Wake
    <3>2. TimeTypeOK' /\ CallInv'
      BY <1>1, <3>1, ProviderAssumption DEF TimeTypeOK, CallInv
    <3>3. PassInv'
      BY <1>1, <3>1 DEF PassInv, Within
    <3> QED
      BY <3>2, <3>3
  <2> QED
    BY <2>1, <2>2
<1>5. CASE Tick
  <2>1. /\ call \in {"request", "sleep"} /\ stage = "ask" /\ asked >= 1 /\ asked \in 0 .. MostAsked
        /\ budget \in 1 .. TotalTimeout /\ left \in Nat /\ left >= 1
        /\ budget' = budget - 1 /\ left' = left - 1 /\ spent' = spent + 1
        /\ UNCHANGED <<call, attempt>>
    BY <1>5, ProviderAssumption DEF Tick, Expired, TimeTypeOK, CallInv
  <2>2. TimeTypeOK' /\ CallInv'
    BY <1>1, <1>5, <2>1, ProviderAssumption DEF Tick, TimeTypeOK, CallInv
  <2>3. left' + spent' + StoreTime + (asked - 1) * TotalTimeout >= ReconcileTimeout
    <3> DEFINE m == (asked - 1) * TotalTimeout
    <3>1. m \in Nat /\ StoreTime \in Nat /\ ReconcileTimeout \in Nat /\ spent \in Nat
      BY <2>1, Multiples DEF TimeTypeOK
    <3>2. left + spent + StoreTime + m >= ReconcileTimeout
      BY <2>1 DEF PassInv
    <3> HIDE DEF m
    <3>3. left' + spent' + StoreTime + m >= ReconcileTimeout
      BY <2>1, <3>1, <3>2
    <3> QED
      BY <3>3 DEF m
  <2>4. PassInv'
    BY <1>1, <2>1, <2>3 DEF PassInv
  <2> QED
    BY <2>2, <2>4
<1>6. \A status \in Statuses : Hints(status) \subseteq Nat
  BY ProviderAssumption DEF Hints
<1> QED
  BY <1>2, <1>3, <1>4, <1>5, <1>6 DEF Calling, CallStep, Succeed, DeadlineExceeded

\* The steps of the reconciler around the calls.
LEMMA PassTime ==
    ASSUME TimeInv, NEW time \in 0 .. StoreTime, NEW previous, NEW known, NEW o,
           Resolve(o) \/ Load(previous, known, time) \/ Decide \/ Returned \/ Commit(time) \/ Again
    PROVE  TimeInv'
<1> USE DEF TimeInv
<1>0. TotalTimeout \in Nat /\ ReconcileTimeout \in Nat /\ StoreTime \in Nat /\ 0 * TotalTimeout = 0 /\ 0 \in 0 .. MostAsked
  BY ProviderAssumption, EvaluationAssumption DEF MostAsked
<1>1. CASE Resolve(o)
  BY <1>0, <1>1 DEF Resolve, TimeTypeOK, CallInv, PassInv, Stages
<1>2. CASE Load(previous, known, time)
  <2>1. /\ stage = "resolved" /\ left = ReconcileTimeout /\ asked = 0 /\ call \in {"idle", "returned"}
        /\ stage' \in {"failed", "skipped", "decide"} /\ (stage' = "decide" => time < left)
        /\ left' = (IF time < left THEN left - time ELSE 0)
        /\ UNCHANGED <<call, attempt, budget, wait, spent, providers, asked>>
    BY <1>2 DEF Load, TimeTypeOK, CallInv, PassInv
  <2>2. TimeTypeOK' /\ CallInv'
    BY <1>0, <2>1 DEF TimeTypeOK, CallInv, Stages
  <2>3. PassInv'
    BY <1>0, <2>1 DEF PassInv, Within
  <2> QED
    BY <2>2, <2>3
<1>3. CASE Decide
  <2>1. stage = "decide" /\ asked = 0 /\ Within(asked) /\ asked < MostAsked /\ UNCHANGED providers
    BY <1>3 DEF Decide, PassInv, MostAsked
  <2>2. CASE result.disposition # "semantic"
    <3>1. stage' = "commit" /\ UNCHANGED <<callVars, asked, providers>>
      BY <1>3, <2>2 DEF Decide
    <3>2. TimeTypeOK' /\ CallInv'
      BY <2>1, <3>1 DEF TimeTypeOK, CallInv, callVars, Stages
    <3>3. PassInv'
      BY <2>1, <3>1, <3>2 DEF PassInv, CallInv, callVars, Within
    <3> QED
      BY <3>2, <3>3
  <2>3. CASE result.disposition = "semantic"
    BY <1>3, <2>1, <2>3, RetryTime DEF Decide
  <2> QED
    BY <2>2, <2>3
<1>4. CASE Returned
  <2>1. stage = "ask" /\ call = "returned" /\ Within(asked) /\ UNCHANGED providers /\ providers \in Providers
    BY <1>4 DEF Returned, PassInv, TimeTypeOK
  <2>2. CASE ~Evidence /\ asked = 1 /\ providers[2] # None
    BY <1>4, <2>1, <2>2, RetryTime DEF Returned, MostAsked
  <2>3. CASE ~(~Evidence /\ asked = 1 /\ providers[2] # None)
    <3>1. stage' = "commit" /\ UNCHANGED <<callVars, asked, providers>>
      BY <1>4, <2>3 DEF Returned
    <3>2. TimeTypeOK' /\ CallInv'
      BY <2>1, <3>1 DEF TimeTypeOK, CallInv, callVars, Stages
    <3>3. PassInv'
      BY <2>1, <3>1 DEF PassInv, callVars, Within
    <3> QED
      BY <3>2, <3>3
  <2> QED
    BY <2>2, <2>3
<1>5. CASE Commit(time)
  BY <1>0, <1>5 DEF Commit, TimeTypeOK, CallInv, PassInv, Stages
<1>6. CASE Again
  BY <1>0, <1>6, ProviderAssumption DEF Again, TimeTypeOK, CallInv, PassInv, Stages
<1> QED
  BY <1>1, <1>2, <1>3, <1>4, <1>5, <1>6

\* So does every step of a pass.
LEMMA NextTime ==
    TimeInv /\ [Next]_vars => TimeInv'
<1> SUFFICES ASSUME TimeInv, [Next]_vars PROVE TimeInv'
  OBVIOUS
<1>1. CASE UNCHANGED vars
  BY <1>1 DEF vars, callVars, TimeInv, TimeTypeOK, CallInv, PassInv, Within
<1>2. 0 \in 0 .. StoreTime
  BY EvaluationAssumption
<1>3. CASE Next
  BY <1>2, <1>3, CallingTime, PassTime DEF Next
<1> QED
  BY <1>1, <1>3

\* The inductive invariant of the clocks holds.
THEOREM TimeInvariant ==
    Spec => []TimeInv
<1> QED
  BY InitTime, NextTime, PTL DEF Spec

\* However many attempts and headers and whatever timeouts are configured, the
\* providers that were asked have used at most one total timeout each (the
\* context of Retry, the limit on Retry-After, the order of decide).
THEOREM ProvidersKeepTheirTime ==
    Spec => []DecisionTimeBound
<1>1. TimeInv => DecisionTimeBound
  <2> SUFFICES ASSUME TimeInv, stage \in {"ask", "commit"} PROVE Within(asked)
    BY DEF DecisionTimeBound, Within
  <2> USE DEF TimeInv
  <2>1. CASE stage = "commit" \/ call = "returned"
    BY <2>1 DEF PassInv
  <2>2. CASE stage = "ask" /\ call # "returned"
    <3> DEFINE m == (asked - 1) * TotalTimeout
               n == asked * TotalTimeout
    <3>1. /\ call \in {"request", "sleep"} /\ spent \in 0 .. TotalTimeout /\ left \in Nat
          /\ m \in Nat /\ n = m + TotalTimeout /\ TotalTimeout \in Nat /\ StoreTime \in Nat /\ ReconcileTimeout \in Nat
      BY <2>2, Multiples DEF CallInv, TimeTypeOK
    <3>2. left + spent + StoreTime + m >= ReconcileTimeout
      BY <3>1 DEF PassInv
    <3>3. left + StoreTime + n >= ReconcileTimeout
      <4> HIDE DEF m, n
      <4> QED
        BY <3>1, <3>2
    <3> QED
      BY <3>3 DEF Within
  <2> QED
    BY <2>1, <2>2
<1> QED
  BY <1>1, TimeInvariant, PTL

\* What the configuration would have to guarantee: if the reconcile timeout is
\* longer than a total timeout for each provider and the store's calls before
\* and after, no decision is ever lost to it (decide and Commit under one context).
THEOREM EnoughTimeCommits ==
    ASSUME ReconcileTimeout > 2 * StoreTime + MostAsked * TotalTimeout
    PROVE  Spec => []EveryDecisionIsCommitted
<1>1. Init => EveryDecisionIsCommitted
  BY DEF Init, EveryDecisionIsCommitted
<1>2. TimeInv /\ EveryDecisionIsCommitted /\ [Next]_vars => EveryDecisionIsCommitted'
  <2> SUFFICES ASSUME TimeInv, EveryDecisionIsCommitted, [Next]_vars, stage' = "expired" PROVE FALSE
    BY DEF EveryDecisionIsCommitted
  <2>1. PICK time \in 0 .. StoreTime : Commit(time)
    BY DEF EveryDecisionIsCommitted, vars, Next, Resolve, Load, Decide, Calling, Returned, Again
  <2> DEFINE n == asked * TotalTimeout
             m == MostAsked * TotalTimeout
  <2>2. ~(time < left) /\ left \in Nat /\ asked \in 0 .. MostAsked /\ left + StoreTime + n >= ReconcileTimeout
    BY <2>1 DEF Commit, TimeInv, TimeTypeOK, PassInv, Within
  <2>3. MostAsked \in 0 .. MostAsked /\ MostAsked \in {1, 2}
    BY DEF MostAsked
  <2>4. n \in Nat /\ m \in Nat /\ n <= m /\ StoreTime \in Nat /\ ReconcileTimeout \in Nat
    <3>1. /\ TotalTimeout \in Nat /\ StoreTime \in Nat /\ ReconcileTimeout \in Nat
          /\ 0 * TotalTimeout = 0 /\ 1 * TotalTimeout = TotalTimeout /\ 2 * TotalTimeout = TotalTimeout + TotalTimeout
      BY <2>3, Multiples
    <3>2. \/ asked = 0
          \/ asked = 1
          \/ asked = 2 /\ MostAsked = 2
      BY <2>2, <2>3
    <3>3. \/ n = 0
          \/ n = TotalTimeout
          \/ n = TotalTimeout + TotalTimeout /\ m = TotalTimeout + TotalTimeout
      BY <3>1, <3>2
    <3>4. m = TotalTimeout \/ m = TotalTimeout + TotalTimeout
      BY <2>3, <3>1
    <3> HIDE DEF n, m
    <3> QED
      BY <3>1, <3>3, <3>4
  <2>5. ReconcileTimeout > 2 * StoreTime + m
    OBVIOUS
  <2> HIDE DEF n, m
  <2> QED
    BY <2>2, <2>4, <2>5
<1> QED
  BY <1>1, <1>2, TimeInvariant, PTL DEF Spec

-----------------------------------------------------------------------------
(* What is decided.                                                        *)

\* A result that asks for evidence.
Semantic(r) == r.disposition = "semantic"

\* A result that is left to a provider names its questions and has no decision.
LEMMA SemanticResult ==
    ASSUME NEW s, NEW previous, Semantic(Evaluate(s, previous))
    PROVE  Evaluate(s, previous).questionSet = "operational-triage-v1" /\ Evaluate(s, previous).decision = None
  BY DEF Semantic, Evaluate, Result

\* Valid answers never compose to the fallback.
LEMMA EvidenceReasons ==
    ASSUME NEW r, Semantic(r), r.questionSet = "operational-triage-v1", r.decision = None,
           NEW a, ValidateAnswers(Questions, a)
    PROVE  "provider_unavailable" \notin Compose(r, a, FALSE).reasons
<1>1. a.incident_family.choice \in Questions.incident_family.criteria
  <2>1. /\ "incident_family" \in DOMAIN Questions
        /\ Questions["incident_family"].type = "choice"
    BY Zenon DEF Questions
  <2>2. validateChoiceAnswer(Questions["incident_family"], a["incident_family"])
    BY <2>1, Zenon DEF ValidateAnswers
  <2> QED
    BY <2>2, Zenon DEF validateChoiceAnswer
<1>2. a.incident_family.choice # "provider_unavailable"
  BY <1>1 DEF Questions
<1>3. composeOperationalTriage(a).reasons = {"provider_evidence", a.incident_family.choice}
  BY DEF composeOperationalTriage
<1>4. WithRules(composeOperationalTriage(a), r).reasons = composeOperationalTriage(a).reasons
  BY DEF WithRules, composeOperationalTriage
<1>5. Compose(r, a, FALSE) = WithRules(composeOperationalTriage(a), r)
  BY Zenon DEF Compose, Semantic, applyDeterministicFloor
<1>6. Compose(r, a, FALSE).reasons = {"provider_evidence", a.incident_family.choice}
  BY <1>3, <1>4, <1>5, Zenon
<1>7. "provider_unavailable" # "provider_evidence"
  OBVIOUS
<1> QED
  BY <1>2, <1>6, <1>7, Zenon

\* How many providers are configured.
Configured == IF providers[2] = None THEN 1 ELSE 2

\* A provider is asked only for a semantic result, one after the other; a
\* decision that gives their failure for its reason comes after the last.
AskInv ==
    /\ stage \in {"decide", "ask", "commit", "committed"} /\ Semantic(result) =>
           result.questionSet = "operational-triage-v1" /\ result.decision = None
    /\ stage = "ask" => Semantic(result) /\ (asked = 1 \/ asked = Configured)
    /\ stage \in {"commit", "committed"} /\ Semantic(result) =>
           asked = Configured \/ "provider_unavailable" \notin decision.reasons

\* Every step of a pass keeps the order in which providers are asked.
LEMMA NextAsk ==
    AskInv /\ [Next]_vars => AskInv'
<1> SUFFICES ASSUME AskInv, [Next]_vars PROVE AskInv'
  OBVIOUS
<1>1. CASE UNCHANGED <<stage, providers, asked, result, decision>>
  BY <1>1 DEF AskInv, Configured
<1>2. ASSUME NEW previous, NEW known, NEW time, Load(previous, known, time) PROVE AskInv'
  <2>1. result' = Evaluate(Normalize(object), previous) /\ stage' \in {"failed", "skipped", "decide"}
    BY <1>2 DEF Load
  <2> QED
    BY <2>1, SemanticResult DEF AskInv, Semantic
<1>3. CASE Decide
  BY <1>3, Zenon DEF Decide, AskInv, Semantic
<1>4. CASE Returned
  <2>1. /\ stage = "ask" /\ Semantic(result) /\ (asked = 1 \/ asked = Configured)
        /\ result.questionSet = "operational-triage-v1" /\ result.decision = None
        /\ UNCHANGED <<providers, result>>
    BY <1>4 DEF Returned, AskInv
  <2>2. CASE ~Evidence /\ asked = 1 /\ providers[2] # None
    BY <1>4, <2>1, <2>2 DEF Returned, AskInv, Configured, Semantic
  <2>3. CASE ~Evidence /\ ~(asked = 1 /\ providers[2] # None)
    <3>1. stage' = "commit" /\ UNCHANGED asked /\ asked = Configured
      BY <1>4, <2>1, <2>3 DEF Returned, Configured
    <3> QED
      BY <2>1, <3>1 DEF AskInv, Configured, Semantic
  <2>4. CASE Evidence
    <3>1. stage' = "commit" /\ decision' = Compose(result, reply.answers, FALSE)
      BY <1>4, <2>4, Zenon DEF Returned
    <3>2. ValidateAnswers(Questions, reply.answers)
      BY <2>4 DEF Evidence, Accepts, jevEvaluate, structuredEvaluate
    <3>3. "provider_unavailable" \notin decision'.reasons
      BY <2>1, <3>1, <3>2, EvidenceReasons, Zenon
    <3> QED
      BY <2>1, <3>1, <3>3, Zenon DEF AskInv, Semantic
  <2> QED
    BY <2>2, <2>3, <2>4
<1>5. ASSUME NEW time, Commit(time) PROVE AskInv'
  BY <1>5 DEF Commit, AskInv, Configured
<1>6. ASSUME NEW o, Resolve(o) PROVE AskInv'
  BY <1>6 DEF Resolve, AskInv
<1>7. CASE Again
  BY <1>7 DEF Again, AskInv
<1> QED
  BY <1>1, <1>2, <1>3, <1>4, <1>5, <1>6, <1>7 DEF Next, Calling, vars

\* For any answers of any providers, the fallback decision is committed for a
\* semantic result only after every configured provider has been asked (decide).
THEOREM FallbackComesLast ==
    Spec => []FallbackIsLast
<1>1. Init => AskInv
  BY DEF Init, AskInv
<1>2. AskInv => FallbackIsLast
  BY DEF AskInv, FallbackIsLast, Configured, Semantic
<1> QED
  BY <1>1, <1>2, NextAsk, PTL DEF Spec

-----------------------------------------------------------------------------
(* The ignore lists.                                                       *)

\* The engine sees of a snapshot what the configuration says of its object.
LEMMA NormalizedIgnored ==
    ASSUME NEW o, Normalize(o) # None
    PROVE  ignoredReason(Normalize(o)) <=> Ignored(o)
<1>1. Normalize(o).source.namespace = o.namespace /\ Normalize(o).labels = labels(o.labels)
  <2>1. ASSUME NEW conditions
        PROVE  /\ Common(o, conditions).source.namespace = o.namespace
               /\ Common(o, conditions).labels = labels(o.labels)
    BY DEF Common, source
  <2>2. ASSUME NEW s \in {normalizePod(o), normalizeDeployment(o), normalizeStatefulSet(o), normalizeDaemonSet(o),
                          normalizeJob(o), normalizeEvent(o), normalizeUnstructured(o)}
        PROVE  s.source.namespace = o.namespace /\ s.labels = labels(o.labels)
    <3>1. CASE s = normalizePod(o)
      BY <3>1 DEF normalizePod, Common, source
    <3>2. CASE s = normalizeDeployment(o)
      BY <3>2 DEF normalizeDeployment, Common, source
    <3>3. CASE s = normalizeStatefulSet(o)
      BY <3>3 DEF normalizeStatefulSet, Common, source
    <3>4. CASE s = normalizeDaemonSet(o)
      BY <3>4 DEF normalizeDaemonSet, Common, source
    <3>5. CASE s = normalizeJob(o)
      BY <3>5 DEF normalizeJob, Common, source
    <3>6. CASE s = normalizeEvent(o)
      BY <3>6 DEF normalizeEvent, Common, source
    <3>7. CASE s = normalizeUnstructured(o)
      BY <2>1, <3>7 DEF normalizeUnstructured
    <3> QED
      BY <3>1, <3>2, <3>3, <3>4, <3>5, <3>6, <3>7, Zenon
  <2>3. Normalize(o) \in {normalizePod(o), normalizeDeployment(o), normalizeStatefulSet(o), normalizeDaemonSet(o),
                          normalizeJob(o), normalizeEvent(o), normalizeUnstructured(o)}
    BY DEF Normalize, Supported, snapshot
  <2> QED
    BY <2>2, <2>3
<1> QED
  BY <1>1 DEF ignoredReason, Ignored, labels, AllowedLabels

\* The fields of a decision of the rules.
LEMMA IsDecision ==
    ASSUME NEW severity \in {"critical", "warning", "info"}, NEW action \in {"page", "notify", "record", "suppress"},
           NEW reasons \in SUBSET RuleIDs, NEW rules \in SUBSET RuleIDs
    PROVE  [severity |-> severity, action |-> action, reasons |-> reasons, rules |-> rules] \in Decision
  BY DEF Decision

\* The decision about an ignored object is one.
LEMMA IgnoredIsDecision ==
    ignoredDecision \in Decision
<1>1. {"ignored"} \in SUBSET RuleIDs
  BY DEF RuleIDs
<1> QED
  BY <1>1, IsDecision DEF ignoredDecision

\* Compose suppresses what the engine does, and nothing else.
LEMMA ComposedSuppression ==
    ASSUME NEW s, NEW previous, NEW answers, NEW failure \in BOOLEAN
    PROVE  Compose(Evaluate(s, previous), answers, failure).action = "suppress" <=> ignoredReason(s)
<1> DEFINE r == Evaluate(s, previous)
<1>1. CASE ignoredReason(s)
  <2>1. r.disposition = "suppress" /\ r.decision = ignoredDecision
    BY <1>1 DEF Evaluate, Result
  <2>2. Compose(r, answers, failure) = ignoredDecision
    <3> HIDE DEF r
    <3> QED
      BY <2>1, IgnoredIsDecision, NilIsNoDecision DEF Compose
  <2> QED
    BY <1>1, <2>2 DEF ignoredDecision
<1>2. CASE ~ignoredReason(s)
  <2>1. r.decision = None \/ r.decision.action # "suppress"
    BY <1>2 DEF Evaluate, Result, decisionFor
  <2>2. r.disposition = "semantic" => r.decision = None
    BY SemanticResult DEF Semantic
  <2>3. ASSUME NEW d \in {fallbackDecision, composeOperationalTriage(answers)}
        PROVE  WithRules(d, r).action # "suppress"
    <3> HIDE DEF r
    <3> QED
      BY DEF WithRules, fallbackDecision, composeOperationalTriage
  <2> HIDE DEF r
  <2>4. CASE r.decision = None
    <3>1. PICK d \in {fallbackDecision, composeOperationalTriage(answers)} :
              Compose(r, answers, failure) = applyDeterministicFloor(WithRules(d, r), r.decision)
      BY <2>4 DEF Compose
    <3> QED
      BY <1>2, <2>3, <2>4, <3>1, Zenon DEF applyDeterministicFloor, r
  <2>5. CASE r.decision # None
    BY <1>2, <2>1, <2>2, <2>5, Zenon DEF Compose, r
  <2> QED
    BY <2>4, <2>5
<1> QED
  BY <1>1, <1>2

\* From Load on, the result is that of the rules on the object's snapshot.
ResultInv ==
    /\ stage \in {"resolved", "decide", "ask", "commit", "committed"} => Normalize(object) # None
    /\ stage \in {"decide", "ask", "commit", "committed"} =>
           \E previous \in {None, "open", "resolved", "suppressed"} : result = Evaluate(Normalize(object), previous)
    /\ stage \in {"commit", "committed"} => (decision.action = "suppress" <=> ignoredReason(Normalize(object)))

\* Every step of a pass keeps result and decision those of its object.
LEMMA NextResult ==
    ResultInv /\ [Next]_vars => ResultInv'
<1> SUFFICES ASSUME ResultInv, [Next]_vars PROVE ResultInv'
  OBVIOUS
<1>1. CASE UNCHANGED <<stage, object, result, decision>>
  BY <1>1 DEF ResultInv
<1>2. ASSUME NEW o, Resolve(o) PROVE ResultInv'
  BY <1>2 DEF Resolve, ResultInv
<1>3. ASSUME NEW previous \in {None, "open", "resolved", "suppressed"}, NEW known, NEW time, Load(previous, known, time)
      PROVE  ResultInv'
  <2>1. /\ stage = "resolved" /\ stage' \in {"failed", "skipped", "decide"}
        /\ result' = Evaluate(Normalize(object), previous) /\ UNCHANGED object
    BY <1>3 DEF Load
  <2> QED
    BY <2>1 DEF ResultInv
<1>4. ASSUME stage \in {"decide", "ask"}, stage' = "ask", UNCHANGED <<object, result>> PROVE ResultInv'
  BY <1>4 DEF ResultInv
<1>5. ASSUME NEW answers, NEW failure \in BOOLEAN, stage \in {"decide", "ask"}, stage' = "commit",
             UNCHANGED <<object, result>>, decision' = Compose(result, answers, failure)
      PROVE  ResultInv'
  <2>1. PICK previous \in {None, "open", "resolved", "suppressed"} : result = Evaluate(Normalize(object), previous)
    BY <1>5 DEF ResultInv
  <2>2. decision'.action = "suppress" <=> ignoredReason(Normalize(object))
    BY <1>5, <2>1, ComposedSuppression
  <2> QED
    BY <1>5, <2>1, <2>2 DEF ResultInv
<1>6. CASE Decide
  BY <1>4, <1>5, <1>6, Zenon DEF Decide
<1>7. CASE Returned
  <2>1. CASE Evidence
    BY <1>5, <1>7, <2>1, Zenon DEF Returned
  <2>2. CASE ~Evidence
    BY <1>4, <1>5, <1>7, <2>2, Zenon DEF Returned
  <2> QED
    BY <2>1, <2>2
<1>8. ASSUME NEW time, Commit(time) PROVE ResultInv'
  BY <1>8 DEF Commit, ResultInv
<1>9. CASE Again
  BY <1>9 DEF Again, ResultInv
<1> QED
  BY <1>1, <1>2, <1>3, <1>6, <1>7, <1>8, <1>9 DEF Next, Calling, vars

\* For any object, ignore list and provider: a decision suppresses exactly what
\* the configuration ignores (buildNormalizer's labels, ignoredReason, Compose).
THEOREM IgnoredExactly ==
    Spec => []IgnoredIsSilent
<1>1. Init => ResultInv
  BY DEF Init, ResultInv
<1>2. ResultInv => IgnoredIsSilent
  BY NormalizedIgnored DEF ResultInv, IgnoredIsSilent
<1> QED
  BY <1>1, <1>2, NextResult, PTL DEF Spec

-----------------------------------------------------------------------------
(* The rules.                                                              *)

\* Every rule reports itself and one of two severities.
LEMMA MatchShape ==
    ASSUME NEW s, NEW m \in Matches(s)
    PROVE  /\ m = [rule |-> m.rule, severity |-> m.severity]
           /\ m.rule \in RuleIDs
           /\ m.severity \in {"critical", "warning"}
<1>1. m \in podCrashLoop(s) \/ m \in podUnschedulable(s) \/ m \in imagePullFailure(s)
      \/ m \in failedJob(s) \/ m \in workloadUnavailable(s) \/ m \in warningEvent(s)
  BY DEF Matches
<1>2. ASSUME NEW id \in RuleIDs, NEW severity \in {"critical", "warning"}, m \in Match(id, severity)
      PROVE  m = [rule |-> m.rule, severity |-> m.severity] /\ m.rule \in RuleIDs /\ m.severity \in {"critical", "warning"}
  BY <1>2 DEF Match
<1>3. podCrashLoop(s) \in {Match("pod-crash-loop", "critical"), Match("pod-crash-loop", "warning"), {}}
  BY Zenon DEF podCrashLoop
<1>4. podUnschedulable(s) \in {Match("pod-unschedulable", "warning"), {}}
  BY DEF podUnschedulable
<1>5. imagePullFailure(s) \in {Match("image-pull-failure", "warning"), {}}
  BY DEF imagePullFailure
<1>6. failedJob(s) \in {Match("job-failed", "critical"), {}}
  BY DEF failedJob
<1>7. workloadUnavailable(s) \in {Match("workload-unavailable", "critical"), Match("workload-unavailable", "warning"), {}}
  BY DEF workloadUnavailable
<1>8. warningEvent(s) \in {Match("warning-event", "warning"), {}}
  BY DEF warningEvent
<1>9. /\ "pod-crash-loop" \in RuleIDs /\ "pod-unschedulable" \in RuleIDs /\ "image-pull-failure" \in RuleIDs
      /\ "job-failed" \in RuleIDs /\ "workload-unavailable" \in RuleIDs /\ "warning-event" \in RuleIDs
  BY DEF RuleIDs
<1> QED
  BY <1>1, <1>2, <1>3, <1>4, <1>5, <1>6, <1>7, <1>8, <1>9

\* The highest severity is that of a match, and critical if one match is.
LEMMA HighestSeverity ==
    ASSUME NEW M, M # {}, \A m \in M : m.severity \in {"critical", "warning"}
    PROVE  /\ highestSeverity(M) \in {"critical", "warning"}
           /\ (\E m \in M : m.severity = "critical") => highestSeverity(M) = "critical"
<1> DEFINE Highest(m) == \A n \in M : severityRank[m.severity] >= severityRank[n.severity]
           top == CHOOSE m \in M : Highest(m)
<1>1. severityRank["critical"] = 3 /\ severityRank["warning"] = 2
  BY DEF severityRank
<1>2. \E m \in M : Highest(m)
  <2>1. CASE \E m \in M : m.severity = "critical"
    BY <1>1, <2>1
  <2>2. CASE \A m \in M : m.severity = "warning"
    BY <1>1, <2>2
  <2> QED
    BY <2>1, <2>2
<1>3. top \in M /\ Highest(top)
  <2> HIDE DEF Highest
  <2> QED
    BY <1>2
<1>4. highestSeverity(M) = top.severity
  BY DEF highestSeverity
<1> HIDE DEF top
<1> QED
  BY <1>1, <1>3, <1>4

\* decisionFor returns a decision of the rules.
LEMMA DecisionForTyped ==
    ASSUME NEW s, Matches(s) # {}
    PROVE  decisionFor(Matches(s)) \in Decision
<1>1. highestSeverity(Matches(s)) \in {"critical", "warning"}
  BY MatchShape, HighestSeverity
<1>2. {m.rule : m \in Matches(s)} \in SUBSET RuleIDs
  BY MatchShape
<1> QED
  BY <1>1, <1>2, IsDecision, Zenon DEF decisionFor

\* So is the decision of a recovery.
LEMMA RecoveredIsDecision ==
    [severity |-> "info", action |-> "record", reasons |-> {"recovered"}, rules |-> {"recovered"}] \in Decision
<1>1. {"recovered"} \in SUBSET RuleIDs
  BY DEF RuleIDs
<1> QED
  BY <1>1, IsDecision

\* The engine either asks for evidence, or has nothing to say, or decides.
LEMMA EvaluateTyped ==
    ASSUME NEW s, NEW previous
    PROVE  LET r == Evaluate(s, previous)
           IN  \/ r.disposition \in {"suppress", "terminal"} /\ r.decision \in Decision
               \/ r.disposition \in {"semantic", "no_match"} /\ r.decision = None
<1> DEFINE r == Evaluate(s, previous)
<1>1. CASE ignoredReason(s)
  <2>1. r = Result("suppress", Match("ignored", "info"), ignoredDecision, None)
    BY <1>1 DEF Evaluate
  <2>2. r.disposition = "suppress" /\ r.decision = ignoredDecision
    <3> HIDE DEF r
    <3> QED
      BY <2>1 DEF Result
  <2> QED
    BY <2>2, IgnoredIsDecision, Zenon
<1>2. CASE ~ignoredReason(s) /\ Matches(s) = {}
  <2> DEFINE d == [severity |-> "info", action |-> "record", reasons |-> {"recovered"}, rules |-> {"recovered"}]
  <2>1. \/ r = Result("terminal", Match("recovered", "info"), d, None)
        \/ r = Result("no_match", {}, None, None)
    BY <1>2 DEF Evaluate
  <2>2. d \in Decision
    BY RecoveredIsDecision
  <2> HIDE DEF d
  <2> QED
    BY <2>1, <2>2 DEF Result
<1>3. CASE ~ignoredReason(s) /\ Matches(s) # {}
  <2>1. \/ r = Result("semantic", Matches(s), None, "operational-triage-v1")
        \/ r = Result("terminal", Matches(s), decisionFor(Matches(s)), None)
    BY <1>3 DEF Evaluate
  <2>2. decisionFor(Matches(s)) \in Decision
    BY <1>3, DecisionForTyped
  <2> QED
    BY <2>1, <2>2 DEF Result
<1> QED
  BY <1>1, <1>2, <1>3

-----------------------------------------------------------------------------
(* The composer.                                                           *)

\* Whatever the evidence, a decision has a severity and an action.
LEMMA ComposeTyped ==
    ASSUME NEW s, NEW previous, NEW answers, NEW failure \in BOOLEAN
    PROVE  LET d == Compose(Evaluate(s, previous), answers, failure)
           IN  d.severity \in DOMAIN severityRank /\ d.action \in DOMAIN actionRank
<1> DEFINE r == Evaluate(s, previous)
<1>1. \/ r.disposition \in {"suppress", "terminal"} /\ r.decision \in Decision
      \/ r.disposition \in {"semantic", "no_match"} /\ r.decision = None
  BY EvaluateTyped
<1> HIDE DEF r
<1>2. CASE r.disposition \in {"suppress", "terminal"} /\ r.decision \in Decision
  <2>1. Compose(r, answers, failure) = r.decision
    BY <1>2, NilIsNoDecision DEF Compose
  <2> QED
    BY <1>2, <2>1, Zenon DEF r, Decision, severityRank, actionRank
<1>3. CASE r.decision = None
  <2>1. PICK d \in {fallbackDecision, composeOperationalTriage(answers)} : Compose(r, answers, failure) = WithRules(d, r)
    BY <1>3, Zenon DEF Compose, applyDeterministicFloor
  <2>2. WithRules(d, r).severity \in DOMAIN severityRank /\ WithRules(d, r).action \in DOMAIN actionRank
    BY DEF WithRules, fallbackDecision, composeOperationalTriage, severityRank, actionRank
  <2> QED
    BY <2>1, <2>2, Zenon DEF r
<1> QED
  BY <1>1, <1>2, <1>3, Zenon

\* What valid answers are, question by question.
LEMMA ValidAnswer ==
    ASSUME NEW a, ValidateAnswers(Questions, a)
    PROVE  /\ validateChoiceAnswer(Questions.incident_family, a.incident_family)
           /\ validateScoreAnswer(Questions.operational_impact, a.operational_impact)
           /\ validateNoulAnswer(a.requires_immediate_attention)
           /\ validateNoulAnswer(a.likely_transient)
<1>1. /\ {"incident_family", "operational_impact", "requires_immediate_attention", "likely_transient"} = DOMAIN Questions
      /\ Questions["incident_family"].type = "choice" /\ Questions["operational_impact"].type = "score"
      /\ Questions["requires_immediate_attention"].type = "noul" /\ Questions["likely_transient"].type = "noul"
  BY Zenon DEF Questions
<1>2. validateChoiceAnswer(Questions["incident_family"], a["incident_family"])
  BY <1>1, Zenon DEF ValidateAnswers
<1>3. validateScoreAnswer(Questions["operational_impact"], a["operational_impact"])
  BY <1>1, Zenon DEF ValidateAnswers
<1>4. validateNoulAnswer(a["requires_immediate_attention"]) /\ validateNoulAnswer(a["likely_transient"])
  BY <1>1, Zenon DEF ValidateAnswers
<1> QED
  BY <1>2, <1>3, <1>4

\* The numbers that composeOperationalTriage compares are numbers.
LEMMA ValidNumbers ==
    ASSUME NEW a, ValidateAnswers(Questions, a)
    PROVE  /\ a.operational_impact.score \in Int
           /\ a.requires_immediate_attention.noul \in Int
           /\ a.likely_transient.noul \in Int
<1>1. \A x, y : x \in 0 .. y => x \in Int
  OBVIOUS
<1>2. a.operational_impact.score \in 0 .. 100 * (Len(Questions.operational_impact.levels) - 1)
  BY ValidAnswer, Zenon DEF validateScoreAnswer
<1>3. a.requires_immediate_attention.noul \in 0 .. 100 /\ a.likely_transient.noul \in 0 .. 100
  BY ValidAnswer, Zenon DEF validateNoulAnswer, validateUnitValue
<1> QED
  BY <1>1, <1>2, <1>3, Zenon

\* With valid evidence a semantic result is composed from the evidence alone.
LEMMA ComposedEvidence ==
    ASSUME NEW r, Semantic(r), r.questionSet = "operational-triage-v1", r.decision = None,
           NEW a, ValidateAnswers(Questions, a)
    PROVE  /\ Compose(r, a, FALSE).severity = composeOperationalTriage(a).severity
           /\ Compose(r, a, FALSE).action = composeOperationalTriage(a).action
<1>1. Compose(r, a, FALSE) = WithRules(composeOperationalTriage(a), r)
  BY Zenon DEF Compose, Semantic, applyDeterministicFloor
<1>2. /\ WithRules(composeOperationalTriage(a), r).severity = composeOperationalTriage(a).severity
      /\ WithRules(composeOperationalTriage(a), r).action = composeOperationalTriage(a).action
  BY DEF WithRules, composeOperationalTriage
<1> QED
  BY <1>1, <1>2, Zenon

\* What ValidateAnswers accepts can be said in the schema of AnswerJSONSchema.
LEMMA ValidFitsSchema ==
    ASSUME NEW a, ValidateAnswers(Questions, a)
    PROVE  AnswerJSONSchema(Questions, a)
<1>1. ASSUME NEW q, NEW b, q.type = "noul", validateNoulAnswer(b) PROVE answerSchemaFor(q, b)
  <2>1. strictObject(b, {"noul"})
    BY <1>1 DEF validateNoulAnswer, strictObject, Fields
  <2>2. unitNumber(b.noul)
    BY <1>1 DEF validateNoulAnswer, validateUnitValue, unitNumber
  <2> QED
    BY <1>1, <2>1, <2>2 DEF answerSchemaFor
<1>2. ASSUME NEW keys, NEW p, validateDistribution(keys, p) PROVE probabilityObject(p, keys) /\ p # None
  BY <1>2 DEF validateDistribution, probabilityObject, validateUnitValue, unitNumber
<1>3. ASSUME NEW c, validateConfidence(c) PROVE unitNumber(c) /\ c # None
  BY <1>3 DEF validateConfidence, validateUnitValue, unitNumber
<1>4. ASSUME NEW q, NEW b, q.type = "choice", None \notin q.criteria, validateChoiceAnswer(q, b)
      PROVE  answerSchemaFor(q, b)
  <2>1. /\ b.noul = None /\ b.score = None /\ b.legend = None /\ b.choice \in q.criteria
        /\ probabilityObject(b.probabilities, q.criteria) /\ b.probabilities # None
        /\ unitNumber(b.confidence) /\ b.confidence # None
    BY <1>2, <1>3, <1>4 DEF validateChoiceAnswer
  <2>2. strictObject(b, {"choice", "probabilities", "confidence"})
    BY <1>4, <2>1 DEF strictObject, Fields
  <2> QED
    BY <1>4, <2>1, <2>2 DEF answerSchemaFor
<1>5. ASSUME NEW q, NEW b, q.type = "score", validateScoreAnswer(q, b) PROVE answerSchemaFor(q, b)
  <2>1. /\ b.noul = None /\ b.choice = None /\ b.score # None /\ b.score \in 0 .. 100 * (Len(q.levels) - 1)
        /\ b.legend # None /\ b.legend = Legend(q)
        /\ probabilityObject(b.probabilities, LevelKeys(q)) /\ b.probabilities # None
        /\ unitNumber(b.confidence) /\ b.confidence # None
    BY <1>2, <1>3, <1>5, Zenon DEF validateScoreAnswer
  <2>2. strictObject(b, {"score", "legend", "probabilities", "confidence"})
    BY <2>1 DEF strictObject, Fields
  <2> QED
    BY <1>5, <2>1, <2>2 DEF answerSchemaFor
<1>6. DOMAIN a = DOMAIN Questions /\ \A id \in DOMAIN Questions : a[id].type = Questions[id].type
  BY Zenon DEF ValidateAnswers
<1>7. /\ DOMAIN Questions = {"incident_family", "operational_impact", "requires_immediate_attention", "likely_transient"}
      /\ Questions["incident_family"].type = "choice" /\ Questions["operational_impact"].type = "score"
      /\ Questions["requires_immediate_attention"].type = "noul" /\ Questions["likely_transient"].type = "noul"
  BY Zenon DEF Questions
<1>8. /\ answerSchemaFor(Questions["incident_family"], a["incident_family"])
      /\ answerSchemaFor(Questions["operational_impact"], a["operational_impact"])
      /\ answerSchemaFor(Questions["requires_immediate_attention"], a["requires_immediate_attention"])
      /\ answerSchemaFor(Questions["likely_transient"], a["likely_transient"])
  BY <1>1, <1>4, <1>5, <1>7, ValidAnswer, NilIsNoChoice, Zenon
<1> QED
  BY <1>6, <1>7, <1>8 DEF AnswerJSONSchema

-----------------------------------------------------------------------------
(* The pass.                                                               *)

\* What is decided at the end of a pass, and from what: a result that asks for no
\* evidence is composed without, and no provider asked; any other one from the
\* answers of the last provider, if they are evidence.
DecideInv ==
    /\ stage = "decide" => asked = 0
    /\ stage = "ask" => Semantic(result)
    /\ stage \in {"commit", "committed"} /\ ~Semantic(result) => asked = 0 /\ decision = Compose(result, None, FALSE)
    /\ stage \in {"commit", "committed"} /\ Semantic(result) =>
           decision = Compose(result, IF Evidence THEN reply.answers ELSE None, ~Evidence)

\* Every step of a pass keeps the rules' result and the decision in order.
LEMMA NextDecide ==
    TimeInv /\ DecideInv /\ [Next]_vars => DecideInv'
<1> SUFFICES ASSUME TimeInv, DecideInv, [Next]_vars PROVE DecideInv'
  OBVIOUS
<1>1. CASE UNCHANGED vars
  BY <1>1, Zenon DEF DecideInv, vars, callVars, Evidence
<1>2. ASSUME NEW o, Resolve(o) PROVE DecideInv'
  BY <1>2 DEF Resolve, DecideInv
<1>3. ASSUME NEW previous, NEW known, NEW time, Load(previous, known, time) PROVE DecideInv'
  <2>1. stage = "resolved" /\ stage' \in {"failed", "skipped", "decide"} /\ UNCHANGED asked
    BY <1>3 DEF Load
  <2> QED
    BY <2>1, Zenon DEF DecideInv, TimeInv, PassInv
<1>4. CASE Decide
  BY <1>4, Zenon DEF Decide, DecideInv, Semantic
<1>5. CASE Calling
  <2>1. stage = "ask" /\ UNCHANGED <<stage, result>>
    BY <1>5 DEF Calling, CallStep, DeadlineExceeded, Wake, Tick, TimeInv, CallInv
  <2> QED
    BY <2>1 DEF DecideInv, Semantic
<1>6. CASE Returned
  <2>1. stage = "ask" /\ Semantic(result) /\ UNCHANGED <<providers, result>>
    BY <1>6 DEF Returned, DecideInv
  <2>2. CASE ~Evidence /\ asked = 1 /\ providers[2] # None
    BY <1>6, <2>1, <2>2 DEF Returned, DecideInv, Semantic
  <2>3. CASE ~(~Evidence /\ asked = 1 /\ providers[2] # None)
    <3>1. /\ stage' = "commit" /\ UNCHANGED <<reply, asked>>
          /\ decision' = Compose(result, IF Evidence THEN reply.answers ELSE None, ~Evidence)
      BY <1>6, <2>3, Zenon DEF Returned, callVars
    <3> QED
      BY <2>1, <3>1, Zenon DEF DecideInv, Semantic, Evidence
  <2> QED
    BY <2>2, <2>3
<1>7. ASSUME NEW time, Commit(time) PROVE DecideInv'
  BY <1>7, Zenon DEF Commit, DecideInv, Semantic, Evidence
<1>8. CASE Again
  BY <1>8 DEF Again, DecideInv
<1> QED
  BY <1>1, <1>2, <1>3, <1>4, <1>5, <1>6, <1>7, <1>8 DEF Next

\* All that is known of a pass.
PassesInv == TimeInv /\ AskInv /\ ResultInv /\ DecideInv

\* What is proved of the single parts holds in every pass.
LEMMA PassesInvariant ==
    Spec => []PassesInv
<1>1. Init => PassesInv
  BY InitTime DEF Init, PassesInv, AskInv, ResultInv, DecideInv
<1>2. PassesInv /\ [Next]_vars => PassesInv'
  BY NextTime, NextAsk, NextResult, NextDecide DEF PassesInv
<1> QED
  BY <1>1, <1>2, PTL DEF Spec

\* Providers are held to the schema of AnswerJSONSchema: for any rubric's answers
\* that ValidateAnswers accepts, the schema has admitted them.
THEOREM SchemaAdmits ==
    Spec => []SchemaAdmitsTheValid
<1>1. SchemaAdmitsTheValid
  BY ValidFitsSchema DEF SchemaAdmitsTheValid
<1> QED
  BY <1>1, PTL

\* Evidence of more impact, more urgency and less transience never leads to a
\* milder decision than the one that was committed, for any answers of any
\* provider (decide, Compose and composeOperationalTriage).
THEOREM RiskNeverLowers ==
    Spec => []RiskierEvidenceNeverLowers
<1>1. PassesInv => RiskierEvidenceNeverLowers
  <2> SUFFICES ASSUME PassesInv, stage = "committed", asked > 0, Evidence, NEW a \in ValidAnswers, Riskier(a, reply.answers)
               PROVE  /\ severityRank[Compose(result, a, FALSE).severity] >= severityRank[decision.severity]
                      /\ actionRank[Compose(result, a, FALSE).action] >= actionRank[decision.action]
    BY Zenon DEF RiskierEvidenceNeverLowers
  <2> DEFINE b == reply.answers
  <2>0. asked # 0
    OBVIOUS
  <2>1. Semantic(result) /\ result.questionSet = "operational-triage-v1" /\ result.decision = None
    BY <2>0, Zenon DEF PassesInv, DecideInv, AskInv
  <2>2. decision = Compose(result, b, FALSE)
    BY <2>1, Zenon DEF PassesInv, DecideInv
  <2>3. ValidateAnswers(Questions, b) /\ ValidateAnswers(Questions, a)
    BY Zenon DEF Evidence, Accepts, jevEvaluate, structuredEvaluate, ValidAnswers
  <2>4. /\ severityRank[composeOperationalTriage(a).severity] >= severityRank[composeOperationalTriage(b).severity]
        /\ actionRank[composeOperationalTriage(a).action] >= actionRank[composeOperationalTriage(b).action]
    <3> HIDE DEF b
    <3> QED
      BY <2>3, ValidNumbers, TriageIsMonotone, Zenon DEF Riskier, b
  <2>5. /\ Compose(result, a, FALSE).severity = composeOperationalTriage(a).severity
        /\ Compose(result, a, FALSE).action = composeOperationalTriage(a).action
        /\ Compose(result, b, FALSE).severity = composeOperationalTriage(b).severity
        /\ Compose(result, b, FALSE).action = composeOperationalTriage(b).action
    <3> HIDE DEF b
    <3> QED
      BY <2>1, <2>3, ComposedEvidence, Zenon
  <2> HIDE DEF b
  <2> QED
    BY <2>2, <2>4, <2>5, Zenon
<1> QED
  BY <1>1, PassesInvariant, PTL

\* What is there before a decision, and what a decision is.
TypeInv ==
    /\ object = None <=> stage = "idle"
    /\ stage # "idle" => object \in Objects
    /\ stage \in {"idle", "resolved", "skipped", "failed"} => decision = None /\ call = "idle"
    /\ reply # NoBody => call = "returned"
    /\ decision # None => decision.severity \in DOMAIN severityRank /\ decision.action \in DOMAIN actionRank

\* Every step of a pass keeps the types of result, reply and decision.
LEMMA NextType ==
    PassesInv /\ TypeInv /\ [Next]_vars => TypeInv'
<1> SUFFICES ASSUME PassesInv, TypeInv, [Next]_vars PROVE TypeInv'
  OBVIOUS
<1>1. CASE UNCHANGED vars
  BY <1>1 DEF TypeInv, vars, callVars
<1>2. ASSUME NEW o \in Objects, Resolve(o) PROVE TypeInv'
  <2>1. o # None
    BY ObjectsAssumption
  <2> QED
    BY <1>2, <2>1 DEF Resolve, TypeInv
<1>3. ASSUME NEW previous, NEW known, NEW time, Load(previous, known, time) PROVE TypeInv'
  <2>1. /\ stage = "resolved" /\ stage' \in {"failed", "skipped", "decide"}
        /\ UNCHANGED <<object, call, reply, decision>>
    BY <1>3 DEF Load
  <2> QED
    BY <2>1 DEF TypeInv
<1>4. ASSUME NEW answers, NEW failure \in BOOLEAN, stage \in {"decide", "ask"}, stage' = "commit",
             UNCHANGED <<object, call, reply>>, decision' = Compose(result, answers, failure)
      PROVE  TypeInv'
  <2>1. PICK previous : result = Evaluate(Normalize(object), previous)
    BY <1>4 DEF PassesInv, ResultInv
  <2>2. decision'.severity \in DOMAIN severityRank /\ decision'.action \in DOMAIN actionRank
    BY <1>4, <2>1, ComposeTyped
  <2> QED
    BY <1>4, <2>2 DEF TypeInv
<1>5. ASSUME stage \in {"decide", "ask"}, stage' = "ask", Retry, UNCHANGED <<object, decision>> PROVE TypeInv'
  BY <1>5 DEF TypeInv, Retry
<1>6. CASE Decide
  BY <1>4, <1>5, <1>6, Zenon DEF Decide, callVars
<1>7. CASE Returned
  <2>1. CASE Evidence
    BY <1>4, <1>7, <2>1, Zenon DEF Returned, callVars
  <2>2. CASE ~Evidence
    BY <1>4, <1>5, <1>7, <2>2, Zenon DEF Returned, callVars
  <2> QED
    BY <2>1, <2>2
<1>8. CASE Calling
  <2>1. stage = "ask" /\ call \in {"request", "sleep"} /\ UNCHANGED <<stage, object, decision>>
    BY <1>8 DEF Calling, CallStep, DeadlineExceeded, Wake, Tick, PassesInv, TimeInv, CallInv
  <2>2. reply' # NoBody => call' = "returned"
    BY <1>8, <2>1, Zenon DEF Calling, CallStep, Succeed, Fail, DeadlineExceeded, Wake, Tick, Return, TypeInv
  <2> QED
    BY <2>1, <2>2 DEF TypeInv
<1>9. ASSUME NEW time, Commit(time) PROVE TypeInv'
  BY <1>9, Zenon DEF Commit, TypeInv
<1>10. CASE Again
  BY <1>10 DEF Again, TypeInv
<1> QED
  BY <1>1, <1>2, <1>3, <1>6, <1>7, <1>8, <1>9, <1>10 DEF Next

\* They hold in every pass.
LEMMA TypeInvariant ==
    Spec => []TypeInv
<1>1. Init => TypeInv
  BY DEF Init, CallIdle, TypeInv
<1> QED
  BY <1>1, NextType, PassesInvariant, PTL DEF Spec

\* The type invariant of a pass: for any objects, rules and answers, a decision
\* has one of the severities and actions that rules and composer rank, and there
\* is none before the rules have been applied.
THEOREM TypeCorrect ==
    Spec => []TypeOK
<1>1. PassesInv /\ TypeInv => TypeOK
  BY DEF PassesInv, TimeInv, TimeTypeOK, TypeInv, TypeOK, CallTypeOK, MostAsked
<1> QED
  BY <1>1, TypeInvariant, PassesInvariant, PTL

=============================================================================
