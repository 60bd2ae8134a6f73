---------------------------- MODULE MCEvaluation ----------------------------
(* Instances of Evaluation for TLC.                                        *)
EXTENDS Evaluation

MCDictionary ==
    <<"", "Available", "CrashLoopBackOff", "ErrImagePull", "Error", "Failed", "False", "ImagePullBackOff",
      "PodScheduled", "Progressing", "Ready", "True", "Unschedulable",
      "a", "b", "running", "terminated", "unknown", "waiting">>

MCIgnoredLabels == {[key |-> "team", value |-> "ops"], [key |-> "quiet", value |-> None],
                    [key |-> "token", value |-> None]}
MCSensitiveKeys == {"token"}
MCIgnoredNamespaces == {"kube-system"}

MCBackoff == policyBackoff(1)
MCRetryAfter == {0, 1, 9}

-----------------------------------------------------------------------------
(* Objects.  Ages lie around MinimumAge and EventQuietPeriod, counts around *)
(* the thresholds; an object of one kind and namespace has one UID.         *)

Blank ==
    [kind |-> "Secret", namespace |-> "shop", uid |-> "shop", generation |-> 1, owners |-> <<>>, labels |-> {},
     conditions |-> <<>>, containers |-> <<>>, replicas |-> None, ready |-> 0, available |-> 0, unavailable |-> 0,
     failed |-> 0, backoffLimit |-> None, type |-> "", reason |-> "", message |-> [text |-> "", credential |-> None], regarding |-> None,
     count |-> 0, eventTime |-> NoTime, lastTimestamp |-> NoTime, readable |-> TRUE]

Condition(type, status, reason, age) == [type |-> type, status |-> status, reason |-> reason, age |-> age]

Container(name, is, reason, restarts) == [name |-> name, is |-> is, reason |-> reason, restarts |-> restarts]

Ready == {Condition("Ready", "False", "Error", age) : age \in {NoTime, 1, 2}} \cup {Condition("Ready", "True", "", 2)}

Scheduled == {Condition("PodScheduled", "False", "Unschedulable", age) : age \in {1, 2}}
             \cup {Condition("PodScheduled", "False", "Error", 2)}

Containers ==
    {Container("b", "waiting", "CrashLoopBackOff", n) : n \in 1 .. 3}
    \cup {Container("b", "waiting", reason, 0) : reason \in {"ErrImagePull", "ImagePullBackOff", "Error"}}
    \cup {Container("b", is, "Error", 3) : is \in {"running", "terminated", "starting"}}

Pods ==
    {[Blank EXCEPT !.kind = "Pod", !.conditions = cs, !.containers = <<c>>] :
        cs \in {<<r>> : r \in Ready} \cup {<<p, r>> : p \in Scheduled, r \in Ready} \cup {<<>>},
        c \in Containers}
    \cup {[Blank EXCEPT !.kind = "Pod", !.conditions = <<Condition("Ready", "False", "Error", 2)>>,
                        !.containers = <<c, Container("a", "waiting", "CrashLoopBackOff", n)>>] :
             c \in Containers, n \in {2, 3}}

Workloads ==
    {[Blank EXCEPT !.kind = k, !.replicas = desired, !.ready = available, !.available = available,
                   !.unavailable = unavailable, !.conditions = cs] :
        k \in {"Deployment", "StatefulSet"}, desired \in {None, 0, 2}, available \in 0 .. 2, unavailable \in 0 .. 1,
        cs \in {<<>>} \cup {<<Condition("Progressing", "True", "", 1), Condition("Available", status, "", age)>> :
                               status \in {"False", "True"}, age \in {NoTime, 1, 2}}}
    \cup {[Blank EXCEPT !.kind = "DaemonSet", !.replicas = 2, !.ready = n, !.available = n, !.unavailable = 2 - n,
                        !.conditions = <<Condition("Ready", "False", "", 2)>>] : n \in 0 .. 2}

Jobs ==
    {[Blank EXCEPT !.kind = "Job", !.failed = failed, !.backoffLimit = limit, !.conditions = cs] :
        failed \in {0, 1, 5, 6}, limit \in {None, 0, 1},
        cs \in {<<>>, <<Condition("Failed", "True", "Error", NoTime)>>, <<Condition("Failed", "False", "", 1)>>}}

Event(type, reason) == [Blank EXCEPT !.kind = "Event", !.type = type, !.reason = reason]

Events ==
    {[Event(type, "Killing") EXCEPT !.lastTimestamp = 0] : type \in {"Normal", "Warning"}}
    \cup {[Event("Warning", "FailedMount") EXCEPT !.eventTime = e, !.lastTimestamp = l] :
             <<e, l>> \in {<<NoTime, 2>>, <<1, 2>>, <<2, 1>>, <<NoTime, NoTime>>}}
    \cup {[Event("Warning", "FailedMount") EXCEPT
              !.lastTimestamp = 0, !.count = n, !.message = [text |-> "mount failed", credential |-> c]] :
             <<n, c>> \in {<<1, None>>, <<2, "s1">>}}

Customs ==
    {[Blank EXCEPT !.kind = "Custom", !.readable = r, !.conditions = cs] :
        r \in BOOLEAN, cs \in {<<>>, <<Condition("Ready", "False", "", 2), Condition("", "malformed", "", NoTime)>>}}

\* A pod in a crash loop, with labels and owners, in an ignored namespace, too large.
CrashLoop ==
    [Blank EXCEPT !.kind = "Pod", !.uid = "labelled", !.conditions = <<Condition("Ready", "False", "Error", 2)>>,
                  !.containers = <<Container("a", "waiting", "CrashLoopBackOff", 3)>>]

Label(key, value) == [key |-> key, value |-> value]

Labelled ==
    {[CrashLoop EXCEPT !.labels = ls] :
        ls \in {{Label("team", "ops")}, {Label("team", "dev")}, {Label("quiet", "yes"), Label("team", "dev")},
                {Label("token", "t")}, {Label("app", "web")}}}
    \cup {[CrashLoop EXCEPT !.namespace = "kube-system", !.uid = "system"],
          [CrashLoop EXCEPT !.owners = <<[uid |-> "o1", controller |-> FALSE], [uid |-> "o2", controller |-> TRUE]>>],
          [CrashLoop EXCEPT !.conditions = @ \o @ \o @ \o @]}

MCObjects == Pods \cup Workloads \cup Jobs \cup Events \cup Customs \cup Labelled \cup {Blank}

-----------------------------------------------------------------------------
(* Answers and bodies.                                                     *)

NoAnswer == [type |-> "", noul |-> None, choice |-> None, score |-> None, legend |-> None,
             probabilities |-> None, confidence |-> None]

Noul(n) == [NoAnswer EXCEPT !.type = "noul", !.noul = n]

Family(choice, p) ==
    [NoAnswer EXCEPT !.type = "choice", !.choice = choice, !.confidence = 80,
                     !.probabilities = [c \in Questions.incident_family.criteria |-> IF c \in DOMAIN p THEN p[c] ELSE 0]]

\* A score of i hundredths, as the mean of the two levels around it.
Impact(i) ==
    LET low == IF i = 300 THEN 2 ELSE i \div 100
    IN  [NoAnswer EXCEPT !.type = "score", !.score = i, !.confidence = 80,
                         !.legend = Legend(Questions.operational_impact),
                         !.probabilities = [k \in 0 .. 3 |-> IF k = low THEN 100 - (i - 100 * low)
                                                             ELSE IF k = low + 1 THEN i - 100 * low ELSE 0]]

Triage(impact, immediate, transient) ==
    [incident_family |-> Family("dependency", [dependency |-> 60, unknown |-> 40]),
     operational_impact |-> Impact(impact),
     requires_immediate_attention |-> Noul(immediate),
     likely_transient |-> Noul(transient)]

\* Answers on both sides of every threshold.
GenuineAnswers ==
    {Triage(i, 0, t) : i \in {0, 99, 100, 249, 250, 300}, t \in {69, 70, 100}}
    \cup {Triage(0, n, t) : n \in {49, 50, 84, 85, 100}, t \in {69, 70}}

A == Triage(100, 50, 70)

\* Answers with one defect each.
DefectiveAnswers ==
    {[A EXCEPT !.incident_family = f] :
        f \in {Family("dependency", [dependency |-> 40, unknown |-> 60]), Family("dependency", [dependency |-> 60]),
               Family("weather", [dependency |-> 100]), [Family("unknown", [unknown |-> 100]) EXCEPT !.confidence = None],
               [Family("unknown", [unknown |-> 100]) EXCEPT !.probabilities = None], Noul(50)}}
    \cup {[A EXCEPT !.operational_impact = s] :
        s \in {[Impact(100) EXCEPT !.score = 101], [Impact(300) EXCEPT !.score = 301],
               [Impact(100) EXCEPT !.legend = None], [Impact(100) EXCEPT !.legend[1] = "broad"],
               [Impact(100) EXCEPT !.noul = 10], [Impact(100) EXCEPT !.confidence = 101]}}
    \cup {[A EXCEPT !.likely_transient = n] : n \in {Noul(None), Noul(101), Noul(-1), [Noul(70) EXCEPT !.confidence = 50]}}
    \cup {[q \in DOMAIN A \ {"likely_transient"} |-> A[q]], [q \in DOMAIN A \cup {"mood"} |-> IF q = "mood" THEN Noul(1) ELSE A[q]]}

Jev == [family |-> "jev", intact |-> TRUE, extra |-> "none", items |-> 0, role |-> "", finish |-> "", text |-> FALSE,
        calls |-> 0, tool |-> FALSE, usage |-> TRUE, model |-> TRUE, tokens |-> 1, answers |-> A]

\* What a provider sends that answers in full.
Genuine(protocol) ==
    CASE protocol \in {"typesafe", "openrouter"} -> Jev
      [] protocol = "anthropic_tool" ->
           [Jev EXCEPT !.family = "anthropic", !.items = 1, !.role = "assistant", !.finish = "tool_use", !.tool = TRUE]
      [] protocol = "openai_json_schema" ->
           [Jev EXCEPT !.family = "openai", !.items = 1, !.role = "assistant", !.finish = "stop", !.text = TRUE]
      [] protocol = "openai_tool" ->
           [Jev EXCEPT !.family = "openai", !.items = 1, !.role = "assistant", !.finish = "tool_calls", !.calls = 1,
                       !.tool = TRUE]

Enveloped == {Genuine(p) : p \in Protocol \ {"typesafe", "openrouter"}}

GenuineBodies(protocol) ==
    {[Genuine(protocol) EXCEPT !.answers = a] : a \in GenuineAnswers \cup {A}}
    \cup (IF protocol = "openrouter" THEN {[Genuine(protocol) EXCEPT !.extra = "id"]} ELSE {})

\* Bodies with one defect each.
DefectiveBodies ==
    UNION {{[b EXCEPT !.intact = FALSE], [b EXCEPT !.usage = FALSE], [b EXCEPT !.model = FALSE], [b EXCEPT !.tokens = -1],
            [b EXCEPT !.answers = None]} : b \in Enveloped \cup {Jev}}
    \cup UNION {{[b EXCEPT !.items = 2], [b EXCEPT !.role = "user"], [b EXCEPT !.finish = "length"],
                 [b EXCEPT !.tool = ~@, !.text = ~@], [b EXCEPT !.calls = 2]} : b \in Enveloped \ {Genuine("anthropic_tool")}}
    \cup {[Genuine("anthropic_tool") EXCEPT !.finish = "max_tokens"], [Genuine("anthropic_tool") EXCEPT !.items = 2],
          [Genuine("anthropic_tool") EXCEPT !.tool = FALSE], [Jev EXCEPT !.extra = "unknown"]}
    \cup {[Jev EXCEPT !.answers = a] : a \in DefectiveAnswers}

MCBody ==
    {[b EXCEPT !.answers = a] : b \in Enveloped \cup {Jev}, a \in GenuineAnswers \cup {A}}
    \cup {[Jev EXCEPT !.extra = "id"]} \cup DefectiveBodies

MCProviders == {<<"anthropic_tool", None>>, <<"openai_json_schema", "openai_tool">>, <<"openrouter", "typesafe">>}

-----------------------------------------------------------------------------
(* Properties of the evidence.                                             *)

\* The clients and the two validations after them take an answer for evidence
\* exactly if the provider that was asked last has answered in full: an envelope
\* of its protocol that was not cut off, and probabilities that agree with the
\* choice and with the score.  From anything else the fallback is composed.
EvidenceIsGenuine ==
    stage = "committed" /\ result.disposition = "semantic" =>
        ("provider_evidence" \in decision.reasons <=> reply \in GenuineBodies(providers[asked]))

=============================================================================
