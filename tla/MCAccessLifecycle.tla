-------------------------- MODULE MCAccessLifecycle --------------------------
(***************************************************************************)
(* The finite instances of AccessLifecycle that TLC checks.                *)
(***************************************************************************)
EXTENDS RevocationFence, TLC

\* Every retry waits one tick: only the order of the moments matters.
MCRetryDelay == [s \in RetryStages |-> 1]

\* Lease tokens are only ever compared for equality.
LeaseSymmetry == Permutations(LeaseIds)
=============================================================================
