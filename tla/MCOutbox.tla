------------------------------ MODULE MCOutbox ------------------------------
(* Small instances of Outbox for TLC.                                      *)
EXTENDS Outbox, RetryDelay

CONSTANTS w1, w2, p1, p2

\* The goroutines of one process share its lease owner.
OneProcess == [w \in Worker |-> p1]

\* One goroutine in each of two processes.
TwoProcesses == [w \in Worker |-> IF w = w1 THEN p1 ELSE p2]

InitialBackoff == 1
MCBackoff == [a \in 1..MaxAttempts |-> backoff(InitialBackoff, MaxBackoff, a)]

\* No hint, and one above maxBackoff.
MCRetryAfter == {0, MaxBackoff + 1}

=============================================================================
