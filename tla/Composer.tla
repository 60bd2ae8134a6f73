------------------------------ MODULE Composer ------------------------------
(***************************************************************************)
(* The rubric, the schema that providers are asked to answer in, the       *)
(* validation of what they answer, and the composition of rule result and  *)
(* evidence.  Numbers are in hundredths and compared exactly: the code's   *)
(* tolerances (1e-9, 1e-6) are below that.                                 *)
(***************************************************************************)
EXTENDS Rules

\* OperationalTriageV1: instructions and descriptions are left out.
Questions ==
    [incident_family |->
        [type |-> "choice", levels |-> <<>>,
         criteria |-> {"application", "configuration", "dependency", "infrastructure", "security", "unknown"}],
     operational_impact |->
        [type |-> "score", levels |-> <<"none", "limited", "material", "broad">>, criteria |-> {}],
     requires_immediate_attention |-> [type |-> "noul", levels |-> <<>>, criteria |-> {"true", "false"}],
     likely_transient |-> [type |-> "noul", levels |-> <<>>, criteria |-> {"true", "false"}]]

ASSUME NilIsNoChoice == None \notin Questions.incident_family.criteria

\* The keys of a score's legend and probabilities.
LevelKeys(question) == 0 .. Len(question.levels) - 1

Legend(question) == [i \in LevelKeys(question) |-> question.levels[i + 1]]

-----------------------------------------------------------------------------
(* Validation.  An answer is a tagged record in which None is absent.      *)

\* No two levels are the same, and each type has its own fields.
ValidateQuestions(questions) ==
    /\ DOMAIN questions # {}
    /\ \A id \in DOMAIN questions : LET q == questions[id] IN
         CASE q.type = "noul" -> q.levels = <<>> /\ q.criteria \in {{}, {"true", "false"}}
           [] q.type = "choice" -> q.levels = <<>> /\ Cardinality(q.criteria) >= 2
           [] q.type = "score" -> /\ q.criteria = {} /\ Len(q.levels) >= 2
                                  /\ Cardinality(Range(q.levels)) = Len(q.levels)
           [] OTHER -> FALSE

validateUnitValue(value) == value \in 0 .. 100

validateDistribution(keys, p) ==
    /\ p # None /\ DOMAIN p = keys
    /\ \A k \in keys : validateUnitValue(p[k])
    /\ MapThenSumSet(LAMBDA k : p[k], keys) = 100

validateConfidence(value) == value # None /\ validateUnitValue(value)

validateNoulAnswer(a) ==
    /\ a.noul # None /\ validateUnitValue(a.noul)
    /\ {a.choice, a.score, a.legend, a.probabilities, a.confidence} = {None}

\* Mutant: the chosen family need not be the most probable one.
MutValidateChoiceAnswer(q, a) ==
    /\ {a.noul, a.score, a.legend} = {None}
    /\ a.choice \in q.criteria
    /\ validateConfidence(a.confidence)
    /\ validateDistribution(q.criteria, a.probabilities)

validateChoiceAnswer(q, a) ==
    /\ {a.noul, a.score, a.legend} = {None}
    /\ a.choice \in q.criteria
    /\ validateConfidence(a.confidence)
    /\ validateDistribution(q.criteria, a.probabilities)
    /\ \A c \in q.criteria : a.probabilities[c] <= a.probabilities[a.choice]

\* The score is the mean of the levels under the probabilities.
validateScoreAnswer(q, a) ==
    /\ {a.noul, a.choice} = {None}
    /\ a.score # None /\ a.score \in 0 .. 100 * (Len(q.levels) - 1)
    /\ validateConfidence(a.confidence)
    /\ a.legend # None /\ a.legend = Legend(q)
    /\ validateDistribution(LevelKeys(q), a.probabilities)
    /\ MapThenSumSet(LAMBDA k : k * a.probabilities[k], LevelKeys(q)) = a.score

\* Exactly the questions are answered, each by its own type.
ValidateAnswers(questions, answers) ==
    /\ ValidateQuestions(questions)
    /\ DOMAIN answers = DOMAIN questions
    /\ \A id \in DOMAIN questions : LET q == questions[id] a == answers[id] IN
         /\ a.type = q.type
         /\ CASE q.type = "noul" -> validateNoulAnswer(a)
              [] q.type = "choice" -> validateChoiceAnswer(q, a)
              [] q.type = "score" -> validateScoreAnswer(q, a)

-----------------------------------------------------------------------------
(* AnswerJSONSchema, as the test that the schema makes of an answer.       *)

Fields == {"noul", "choice", "score", "legend", "probabilities", "confidence"}

\* An object with exactly the required fields.
strictObject(a, required) == \A f \in Fields : a[f] # None <=> f \in required

unitNumber(value) == value >= 0 /\ value <= 100

probabilityObject(p, keys) == DOMAIN p = keys /\ \A k \in keys : unitNumber(p[k])

\* Mutant: the highest level is left out of the range of scores.
MutAnswerSchemaFor(q, a) ==
    CASE q.type = "noul" -> strictObject(a, {"noul"}) /\ unitNumber(a.noul)
      [] q.type = "choice" -> /\ strictObject(a, {"choice", "probabilities", "confidence"})
                              /\ a.choice \in q.criteria
                              /\ probabilityObject(a.probabilities, q.criteria) /\ unitNumber(a.confidence)
      [] q.type = "score" -> /\ strictObject(a, {"score", "legend", "probabilities", "confidence"})
                             /\ a.score \in 0 .. 100 * (Len(q.levels) - 2)
                             /\ a.legend = Legend(q)
                             /\ probabilityObject(a.probabilities, LevelKeys(q)) /\ unitNumber(a.confidence)

answerSchemaFor(q, a) ==
    CASE q.type = "noul" -> strictObject(a, {"noul"}) /\ unitNumber(a.noul)
      [] q.type = "choice" -> /\ strictObject(a, {"choice", "probabilities", "confidence"})
                              /\ a.choice \in q.criteria
                              /\ probabilityObject(a.probabilities, q.criteria) /\ unitNumber(a.confidence)
      [] q.type = "score" -> /\ strictObject(a, {"score", "legend", "probabilities", "confidence"})
                             /\ a.score \in 0 .. 100 * (Len(q.levels) - 1)
                             /\ a.legend = Legend(q)
                             /\ probabilityObject(a.probabilities, LevelKeys(q)) /\ unitNumber(a.confidence)

AnswerJSONSchema(questions, answers) ==
    /\ DOMAIN answers = DOMAIN questions
    /\ \A id \in DOMAIN questions :
           answers[id].type = questions[id].type /\ answerSchemaFor(questions[id], answers[id])

-----------------------------------------------------------------------------
(* Composer.                                                               *)

Thresholds == [warningImpact |-> 100, criticalImpact |-> 250, warningImmediateAttention |-> 50,
               criticalImmediateAttention |-> 85, likelyTransientRecord |-> 70]

actionRank == [page |-> 4, notify |-> 3, record |-> 2, suppress |-> 1]

fallbackDecision == [severity |-> "warning", action |-> "notify", reasons |-> {"provider_unavailable"}, rules |-> {}]

\* Mutant: a transient incident is what needs a human.
MutComposeOperationalTriage(answers) ==
    LET impact == answers.operational_impact.score
        immediate == answers.requires_immediate_attention.noul
        transient == answers.likely_transient.noul
        Evidence(severity, action) ==
            [severity |-> severity, action |-> action,
             reasons |-> {"provider_evidence", answers.incident_family.choice}, rules |-> {}]
    IN  IF impact >= Thresholds.criticalImpact \/ immediate >= Thresholds.criticalImmediateAttention
          THEN Evidence("critical", "page")
        ELSE IF \/ impact >= Thresholds.warningImpact
                \/ immediate >= Thresholds.warningImmediateAttention
                \/ transient >= Thresholds.likelyTransientRecord
          THEN Evidence("warning", "notify")
        ELSE Evidence("info", "record")

composeOperationalTriage(answers) ==
    LET impact == answers.operational_impact.score
        immediate == answers.requires_immediate_attention.noul
        transient == answers.likely_transient.noul
        Evidence(severity, action) ==
            [severity |-> severity, action |-> action,
             reasons |-> {"provider_evidence", answers.incident_family.choice}, rules |-> {}]
    IN  IF impact >= Thresholds.criticalImpact \/ immediate >= Thresholds.criticalImmediateAttention
          THEN Evidence("critical", "page")
        ELSE IF \/ impact >= Thresholds.warningImpact
                \/ immediate >= Thresholds.warningImmediateAttention
                \/ transient < Thresholds.likelyTransientRecord
          THEN Evidence("warning", "notify")
        ELSE Evidence("info", "record")

\* A deterministic decision is a floor for severity and action.
applyDeterministicFloor(d, floor) ==
    IF floor = None THEN d
    ELSE [severity |-> IF severityRank[floor.severity] > severityRank[d.severity] THEN floor.severity ELSE d.severity,
          action |-> IF actionRank[floor.action] > actionRank[d.action] THEN floor.action ELSE d.action,
          reasons |-> d.reasons \cup floor.reasons, rules |-> d.rules \cup floor.rules]

\* The rules that matched are part of every composed decision.
WithRules(d, result) == [d EXCEPT !.rules = @ \cup result.rules]

\* A terminal or suppressing decision stands; without valid evidence the
\* fallback applies, also where no rubric was asked.
Compose(result, answers, failed) ==
    IF result.disposition # "semantic" /\ result.decision # None THEN result.decision
    ELSE LET composed == IF \/ failed \/ result.questionSet # "operational-triage-v1"
                            \/ ~ValidateAnswers(Questions, answers)
                           THEN fallbackDecision
                           ELSE composeOperationalTriage(answers)
         IN  applyDeterministicFloor(WithRules(composed, result), result.decision)

=============================================================================
