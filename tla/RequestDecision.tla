--------------------------- MODULE RequestDecision ---------------------------
(***************************************************************************)
(* What deciding an access request promises: the request is decided at     *)
(* most once, by a policy or by one approver, what the books say of the    *)
(* decision is what was decided, and it is linked to a grant exactly when  *)
(* it is approved.  AccessRequest implements this specification.           *)
(***************************************************************************)
EXTENDS Naturals, Sequences

CONSTANT Approvers

VARIABLES
    decision,  \* access_requests.decision_status
    approvals, \* the rows of approvals, in the order of their insertion
    grants     \* number of grant_requests rows

Vars == <<decision, approvals, grants>>

Verdicts == {"approved", "denied"}

Init ==
    /\ decision = "none"
    /\ approvals = <<>>
    /\ grants = 0

Open ==
    /\ decision = "none"
    /\ decision' = "pending"
    /\ UNCHANGED <<approvals, grants>>

\* A policy decides a request as it is made.
OpenApproved ==
    /\ decision = "none"
    /\ decision' = "approved"
    /\ grants' = 1
    /\ UNCHANGED approvals

Decide(a, verdict) ==
    /\ decision = "pending"
    /\ decision' = verdict
    /\ approvals' = Append(approvals, [decision |-> verdict, approver |-> a])
    /\ grants' = IF verdict = "approved" THEN 1 ELSE 0

Next ==
    \/ Open
    \/ OpenApproved
    \/ \E a \in Approvers, v \in Verdicts : Decide(a, v)

Spec == Init /\ [][Next]_Vars
=============================================================================
