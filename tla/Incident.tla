------------------------------ MODULE Incident ------------------------------
(***************************************************************************)
(* What the reconcilers promise of one incident, to whoever reads it and   *)
(* to whoever is notified of it.  It is recorded once, and then changes by *)
(* decisions that happen one after the other: each is taken at most once,  *)
(* from the status it replaces, and announced by the event that fits; it   *)
(* is announced as opened once.                                            *)
(* Processes, retries, conflicts, versions and snapshots are not visible   *)
(* here: Reconciler.tla implements this module.                            *)
(***************************************************************************)
EXTENDS Naturals, Sequences

CONSTANT Decision    \* the identities of evaluations

VARIABLES
    status,     \* "absent", then "open", "resolved" or "suppressed"
    taken,      \* the decisions that were taken
    announced   \* their announcements: status, event, and whether anybody is notified

vars == <<status, taken, announced>>

Init ==
    /\ status = "absent"
    /\ taken = {}
    /\ announced = <<>>

\* The incident is recorded; nothing is announced before the first decision.
Record ==
    /\ status = "absent"
    /\ status' = "open"
    /\ UNCHANGED <<taken, announced>>

Announce(s, event, notify) ==
    /\ status' = s
    /\ announced' = Append(announced, [status |-> s, event |-> event, notify |-> notify])

\* An incident is new to those who are notified once.
Events == {"updated"} \cup {e \in {"opened"} : \A i \in 1 .. Len(announced) : announced[i].event # e}

\* A failure is found, or is still there.
Open == \E event \in Events, notify \in BOOLEAN : Announce("open", event, notify)

\* The failure is over: announced, and not again while nothing else happens.
Resolve == status # "resolved" /\ Announce("resolved", "resolved", TRUE)

\* The object is on the ignore list: nobody is notified.
Suppress == \E event \in Events : Announce("suppressed", event, FALSE)

Take(d) ==
    /\ status # "absent"
    /\ taken' = taken \cup {d}
    /\ Open \/ Resolve \/ Suppress

Next == Record \/ \E d \in Decision \ taken : Take(d)

Spec == Init /\ [][Next]_vars

=============================================================================
