----------------------------- MODULE RetryDelay -----------------------------
(* The delays between delivery attempts: Dispatcher.backoff.               *)
EXTENDS Integers

\* The delay after the given failed attempt: it doubles from initial, and
\* jumps to max as soon as doubling would reach it.
backoff(initial, max, attempt) ==
    LET delay[n \in 1..attempt] ==
            IF n = 1 THEN initial
            ELSE IF delay[n - 1] >= max \div 2 THEN max
            ELSE 2 * delay[n - 1]
    IN  IF delay[attempt] > max THEN max ELSE delay[attempt]

=============================================================================
