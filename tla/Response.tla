------------------------------ MODULE Response ------------------------------
(***************************************************************************)
(* What the provider clients make of a successful answer: the envelope of  *)
(* their protocol, its answers, and its metadata.                          *)
(*                                                                         *)
(* A body is a record of what the clients tell apart: the family of its    *)
(* envelope, whether it is intact (one JSON value, well typed), a field    *)
(* that the envelope of only some protocols has, the number of choices or  *)
(* content blocks, and of the first of them the role, the reason for its   *)
(* end, whether it has text, its tool calls and whether the call is the    *)
(* answer tool's; the answers, None if they do not decode; whether usage   *)
(* and model are there; and the number of tokens.                          *)
(***************************************************************************)
EXTENDS Composer

Protocol == {"openai_json_schema", "openai_tool", "anthropic_tool", "typesafe", "openrouter"}

\* One JSON value with answers and complete usage.
Decoded(b) == b.intact /\ b.answers # None /\ b.usage

\* The structured clients; unknown fields of the envelope are allowed.
parseResponse(protocol, b) ==
    /\ Decoded(b)
    /\ CASE protocol = "anthropic_tool" ->
              /\ b.family = "anthropic" /\ b.items = 1
              /\ b.role = "assistant" /\ b.finish = "tool_use" /\ b.tool
         [] protocol = "openai_json_schema" ->
              /\ b.family = "openai" /\ b.items = 1 /\ b.role = "assistant"
              /\ b.calls = 0 /\ b.text /\ b.finish = "stop"
         [] protocol = "openai_tool" ->
              /\ b.family = "openai" /\ b.items = 1 /\ b.role = "assistant"
              /\ ~b.text /\ b.calls = 1 /\ b.finish = "tool_calls" /\ b.tool

\* The Jev clients; TypeSafe does not know the ID and provider of OpenRouter.
decodeResponse(protocol, b) ==
    /\ Decoded(b)
    /\ b.family = "jev"
    /\ b.extra \in (IF protocol = "typesafe" THEN {"none"} ELSE {"none", "id"})

structuredEvaluate(protocol, b) ==
    /\ parseResponse(protocol, b)
    /\ ValidateAnswers(Questions, b.answers)
    /\ b.model /\ b.tokens >= 0

jevEvaluate(protocol, b) ==
    /\ decodeResponse(protocol, b)
    /\ ValidateAnswers(Questions, b.answers)
    /\ b.model /\ b.tokens >= 0

\* Is the body evidence for the client of the protocol?
Accepts(protocol, b) ==
    IF protocol \in {"typesafe", "openrouter"} THEN jevEvaluate(protocol, b) ELSE structuredEvaluate(protocol, b)

=============================================================================
