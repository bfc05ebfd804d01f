----------------------------- MODULE GrantService -----------------------------
(***************************************************************************)
(* GrantService.createGrantIntentTx: the one transaction that turns an     *)
(* approved request into a grant, an extension or a reactivation.          *)
(***************************************************************************)
EXTENDS GrantStore

CONSTANTS
    Durations,   \* requested durations, in ticks
    MaxRequests  \* bound on approved requests

ASSUME ServiceAssumption == Durations \subseteq Nat \ {0} /\ MaxRequests \in Nat

VARIABLE approved  \* requests approved so far

LinkRequest(g, expires) ==
    requested' = [requested EXCEPT ![g] = @ \cup {expires}]

Later(a, b) == IF b > a THEN b ELSE a

\* Deviation: the latest approval decides, not the latest expiry.
ExtendedToLatest(row, expires) ==
    LET moved == UpdateGrantExpiresAt(row, expires)
    IN  CASE row.status = "revoke_failed" -> ReactivateGrant(moved, expires)
          [] row.status = "revoking" ->
                UpdateMutationState(moved, "reactivation_required")
          [] OTHER -> moved

\* Deviation: a grant is taken back from the revocation that is under way.
ExtendedAtOnce(row, expires) ==
    LET longer == UpdateGrantExpiresAt(row, Later(row.effective_expires_at, expires))
    IN  IF row.status \in {"revoke_failed", "revoking"}
        THEN ReactivateGrant(longer, longer.effective_expires_at) ELSE longer

\* The grant the request is linked to, as the transaction leaves it: extended
\* if the request ends later, and by its status waiting, reactivated, marked
\* for the running revocation to hand back, or just extended.
Extended(row, expires) ==
    LET longer == UpdateGrantExpiresAt(row, Later(row.effective_expires_at, expires))
    IN  CASE row.status = "revoke_failed" ->
                ReactivateGrant(longer, longer.effective_expires_at)
          [] row.status = "revoking" ->
                UpdateMutationState(longer, "reactivation_required")
          [] OTHER -> longer

\* Deviation: no job for a grant that is being revoked.
ApproveExistingQuietly(g, expires) ==
    /\ g \in ActiveGrants
    /\ SetGrant(g, Extended(grants[g], expires))
    /\ LinkRequest(g, expires)
    /\ IF grants[g].status \in {"active", "revoking"} THEN UNCHANGED jobs
       ELSE FreeJobs # {} /\ jobs' = CreateJob(g)

ApproveExisting(g, expires) ==
    /\ g \in ActiveGrants
    /\ SetGrant(g, Extended(grants[g], expires))
    /\ LinkRequest(g, expires)
    /\ IF grants[g].status = "active" THEN UNCHANGED jobs
       ELSE FreeJobs # {} /\ jobs' = CreateJob(g)

ApproveNew(g, expires) ==
    /\ ActiveGrants = {}
    /\ grants[g].status = "none"
    /\ FreeJobs # {}
    /\ SetGrant(g, CreateGrant(expires))
    /\ LinkRequest(g, expires)
    /\ jobs' = CreateJob(g)

CreateGrantIntent(g, d) ==
    /\ approved < MaxRequests
    /\ approved' = approved + 1
    /\ ApproveExisting(g, clock + d) \/ ApproveNew(g, clock + d)
    /\ UNCHANGED <<clock, role, origin, faults>>
=============================================================================
