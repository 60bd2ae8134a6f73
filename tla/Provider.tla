------------------------------ MODULE Provider ------------------------------
(***************************************************************************)
(* One call of a provider: provider.Retry around DoJSONResponse, under the *)
(* retry policy's total timeout and under the caller's context, whose      *)
(* remaining time is "left".  Time passes while a request is under way and *)
(* between attempts; everything else takes none, and a request returns as  *)
(* soon as its context is done.                                            *)
(***************************************************************************)
EXTENDS Integers, RetryDelay

CONSTANTS
    MaxAttempts,     \* RetryPolicy.MaxAttempts
    MaxBackoff,      \* RetryPolicy.MaxBackoff
    Backoff,         \* RetryPolicy.backoff by failed attempt, see policyBackoff
    MaxRetryAfter,   \* RetryPolicy.MaxRetryAfter, positive
    TotalTimeout,    \* RetryPolicy.TotalTimeout, decision.timeout
    RetryAfter,      \* Retry-After headers, 0 for none
    Body,            \* bodies of successful answers
    NoBody           \* the result of a failed call

ASSUME ProviderAssumption ==
    /\ MaxAttempts \in Nat \ {0} /\ TotalTimeout \in Nat \ {0}
    /\ MaxBackoff \in Nat /\ MaxRetryAfter \in Nat \ {0}
    /\ RetryAfter \subseteq Nat
    /\ Backoff \in [1 .. MaxAttempts -> 0 .. MaxBackoff]
    /\ NoBody \notin Body

VARIABLES
    call,      \* "idle", "request", "sleep" or "returned"
    attempt,   \* attempts begun
    budget,    \* time until the total timeout
    wait,      \* time until the next attempt
    left,      \* time until the caller's context is done
    spent,     \* time since the call began
    reply      \* the body the call returned, or NoBody for an error

callVars == <<call, attempt, budget, wait, left, spent, reply>>

\* RetryPolicy.backoff without jitter, which production does not set.
policyBackoff(initial) == [n \in 1 .. MaxAttempts |-> backoff(initial, MaxBackoff, n)]

CallTypeOK ==
    /\ call \in {"idle", "request", "sleep", "returned"}
    /\ attempt \in 0 .. MaxAttempts
    /\ budget \in 0 .. TotalTimeout
    /\ wait \in Nat
    /\ left \in Nat
    /\ spent \in 0 .. TotalTimeout
    /\ reply # NoBody => call = "returned"

CallIdle ==
    /\ call = "idle" /\ attempt = 0 /\ budget = 0 /\ wait = 0 /\ spent = 0 /\ reply = NoBody

\* The context of the attempts is done: total timeout or caller.
Expired == budget = 0 \/ left = 0

-----------------------------------------------------------------------------

\* An answer that is larger than the limit, and a time limit of the transport's
\* own, which NewTransportError turns into a context's error, fail like a status
\* that is not listed.
Transport == 0
TooLarge == 1
Statuses == {Transport, TooLarge, 400, 401, 402, 403, 408, 413, 422, 429, 500, 502, 503, 504, 524, 529}

\* ClassifyHTTPStatus.
Retryable(status) == status \in {Transport, 408, 429, 500, 502, 503, 524, 529}

\* Only a status comes with a header.
Hints(status) == IF status \in {Transport, TooLarge} THEN {0} ELSE RetryAfter

\* Mutant: the attempts run under the caller's context alone.
MutRetry ==
    /\ call' = IF left > 0 THEN "request" ELSE "returned"
    /\ attempt' = IF left > 0 THEN 1 ELSE 0
    /\ budget' = left
    /\ wait' = 0
    /\ spent' = 0
    /\ reply' = NoBody
    /\ UNCHANGED left

\* The context of the attempts is derived, and the first attempt begun unless
\* the caller's context is done already.
Retry ==
    /\ call' = IF left > 0 THEN "request" ELSE "returned"
    /\ attempt' = IF left > 0 THEN 1 ELSE 0
    /\ budget' = IF left > 0 THEN TotalTimeout ELSE 0
    /\ wait' = 0
    /\ spent' = 0
    /\ reply' = NoBody
    /\ UNCHANGED left

Return(result) ==
    /\ call' = "returned"
    /\ reply' = result
    /\ budget' = 0 /\ wait' = 0 /\ spent' = 0
    /\ UNCHANGED <<attempt, left>>

\* A 2xx answer is returned even if the context is done by now.
Succeed(body) ==
    /\ call = "request"
    /\ Return(body)

\* Mutant: requests do not carry the context.
MutDeadlineExceeded ==
    /\ call = "request" /\ Expired /\ attempt > MaxAttempts
    /\ Return(NoBody)

\* The context ends the request.
DeadlineExceeded ==
    /\ call = "request" /\ Expired
    /\ Return(NoBody)

\* Retry-After, up to its limit, before the backoff.
Delay(hint) ==
    IF hint > 0 THEN IF hint > MaxRetryAfter THEN MaxRetryAfter ELSE hint
    ELSE Backoff[attempt]

\* Mutant: the number of attempts is compared too late.
MutFail(status, hint) ==
    /\ call = "request"
    /\ IF Expired \/ ~Retryable(status) \/ attempt > MaxAttempts
         THEN Return(NoBody)
         ELSE /\ call' = "sleep"
              /\ wait' = Delay(hint)
              /\ UNCHANGED <<attempt, budget, left, spent, reply>>

\* The attempt fails; it is the last one, or the next one is due after a delay.
Fail(status, hint) ==
    /\ call = "request"
    /\ IF Expired \/ ~Retryable(status) \/ attempt = MaxAttempts
         THEN Return(NoBody)
         ELSE /\ call' = "sleep"
              /\ wait' = Delay(hint)
              /\ UNCHANGED <<attempt, budget, left, spent, reply>>

\* Mutant: every attempt has the whole timeout to itself.
MutWake ==
    /\ call = "sleep" /\ (wait = 0 \/ Expired)
    /\ IF Expired THEN Return(NoBody)
       ELSE /\ call' = "request"
            /\ attempt' = attempt + 1
            /\ budget' = TotalTimeout /\ spent' = 0
            /\ UNCHANGED <<wait, left, reply>>

\* The sleep is over, or ends with the context.
Wake ==
    /\ call = "sleep" /\ (wait = 0 \/ Expired)
    /\ IF Expired THEN Return(NoBody)
       ELSE /\ call' = "request"
            /\ attempt' = attempt + 1
            /\ UNCHANGED <<budget, wait, left, spent, reply>>

Tick ==
    /\ call = "request" \/ (call = "sleep" /\ wait > 0)
    /\ ~Expired
    /\ budget' = budget - 1
    /\ left' = left - 1
    /\ spent' = spent + 1
    /\ wait' = IF call = "sleep" THEN wait - 1 ELSE wait
    /\ UNCHANGED <<call, attempt, reply>>

\* Guards stand before the choice of an answer to spare TLC the choice.
CallStep ==
    \/ call = "request" /\ \E b \in Body : Succeed(b)
    \/ call = "request" /\ \E status \in Statuses : \E hint \in Hints(status) : Fail(status, hint)
    \/ DeadlineExceeded \/ Wake \/ Tick

=============================================================================
