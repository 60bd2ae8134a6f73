---------------------------- MODULE MCReconciler ----------------------------
(***************************************************************************)
(* Small instances of Reconciler for TLC.                                  *)
(***************************************************************************)
EXTENDS Reconciler, TLC

CONSTANTS p1, p2,       \* processes
          a, b, c       \* contents

\* The processes are interchangeable.
Symmetry == Permutations({p1, p2})

\* A Job that fails, is given a higher backoff limit, and fails again.
Job == (a :> "failing") @@ (b :> "healthy") @@ (c :> "failing")

\* A Deployment that is available, and two ways in which it is not.
Workload == (a :> "aging") @@ (b :> "healthy") @@ (c :> "aging")

\* An Event that is a selected warning or not.
WarningEvent == (a :> "warning") @@ (b :> "healthy")

\* The same, with a third content in which it is ignored.
Warnings == (a :> "warning") @@ (b :> "healthy") @@ (c :> "ignored")

=============================================================================
