--------------------------- MODULE MCAccessRequest ---------------------------
(***************************************************************************)
(* The finite instances of AccessRequest that TLC checks.                  *)
(***************************************************************************)
EXTENDS AccessRequest, TLC

\* Concurrent handlers differ in nothing but their id, approvers in nothing
\* but their name.
RequestSymmetry == Permutations(Clicks) \cup Permutations(Approvers)
=============================================================================
