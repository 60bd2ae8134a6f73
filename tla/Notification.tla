---------------------------- MODULE Notification ----------------------------
(***************************************************************************)
(* What the transactional outbox promises for a notification: once it is   *)
(* committed it stays pending until it is marked delivered, which needs    *)
(* the receiver to have accepted it, or is given up as failed; both ends   *)
(* are final, and one of them is reached.  Leases, attempts, clocks and    *)
(* workers are not visible here: Outbox.tla implements this module.        *)
(***************************************************************************)
CONSTANT Delivery

VARIABLES
    state,     \* [Delivery -> {"absent", "pending", "delivered", "failed"}]
    accepted   \* the deliveries some receiver has answered with a 2xx status

vars == <<state, accepted>>

Final == {"delivered", "failed"}

TypeOK ==
    /\ state \in [Delivery -> {"absent", "pending"} \cup Final]
    /\ accepted \subseteq Delivery

Init ==
    /\ state = [d \in Delivery |-> "absent"]
    /\ accepted = {}

Enqueue(d) ==
    /\ state[d] = "absent"
    /\ state' = [state EXCEPT ![d] = "pending"]
    /\ UNCHANGED accepted

Accept(d) ==
    /\ state[d] # "absent"
    /\ accepted' = accepted \cup {d}
    /\ UNCHANGED state

MarkDelivered(d) ==
    /\ state[d] = "pending"
    /\ d \in accepted
    /\ state' = [state EXCEPT ![d] = "delivered"]
    /\ UNCHANGED accepted

MarkFailed(d) ==
    /\ state[d] = "pending"
    /\ state' = [state EXCEPT ![d] = "failed"]
    /\ UNCHANGED accepted

Next ==
    \E d \in Delivery : Enqueue(d) \/ Accept(d) \/ MarkDelivered(d) \/ MarkFailed(d)

SafeSpec == Init /\ [][Next]_vars

Spec == SafeSpec /\ \A d \in Delivery : WF_vars(MarkDelivered(d) \/ MarkFailed(d))

=============================================================================
