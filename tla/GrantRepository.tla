--------------------------- MODULE GrantRepository ---------------------------
(***************************************************************************)
(* The rows of table grants and the SQL statements of grant-repository.ts. *)
(*                                                                         *)
(* better-sqlite3 is synchronous, so a statement is one indivisible        *)
(* function from the row it finds to the row it leaves.  An UPDATE whose   *)
(* WHERE clause can fail comes as a pair: a predicate that says whether it *)
(* changes the row ("changes === 1") and the row it then leaves.           *)
(*                                                                         *)
(* Time is counted in ticks of one GitHub request timeout.                 *)
(* revoked_at is kept only as far as the code looks at it: NULL or not.    *)
(* last_error_code is kept as elevated: whether it is                      *)
(* 'membership_elevated', the one value the code ever compares it with.    *)
(***************************************************************************)
EXTENDS Naturals

CONSTANTS
    NULL,             \* the SQL NULL
    LeaseIds,         \* crypto.randomUUID(): the fencing tokens of revocation runs
    RevokeLease,      \* REVOKE_LEASE_SECONDS, in ticks
    RevokeRetryDelay  \* calculateRevokeRetryDelay, in ticks, by retry stage

RetryStages == 1..4

ASSUME RepositoryAssumption ==
    /\ NULL \notin Nat
    /\ NULL \notin LeaseIds
    /\ RevokeLease \in Nat \ {0}
    /\ RevokeRetryDelay \in [RetryStages -> Nat \ {0}]

Roles == {"none", "member", "maintainer"}

\* "none" is the status of an id under which no row has been inserted yet.
GrantStatus == {"none", "pending", "active", "already_present", "revoking",
                "revoke_failed", "revoked", "grant_failed"}

MutationState == {"not_started", "add_intent_recorded", "add_request_sent",
                  "membership_confirmed", "reactivation_required"}

DbGrant == [status                    : GrantStatus,
            membership_created_by_app : {0, 1},
            preexisting_role          : {NULL, "member", "maintainer"},
            membership_mutation_state : MutationState,
            effective_expires_at      : Nat,
            revoked_at                : BOOLEAN,
            revoking_started_at       : Nat \cup {NULL},
            revoking_lease_id         : LeaseIds \cup {NULL},
            next_revoke_attempt_at    : Nat \cup {NULL},
            revoke_attempt_count      : {0} \cup RetryStages,
            elevated                  : BOOLEAN]

\* The statuses of the partial unique index on (org, team, user), which are
\* also the ones findActiveGrant selects.
ManagedStatus == {"pending", "active", "revoking", "revoke_failed"}

NoGrant == [status |-> "none", membership_created_by_app |-> 1,
            preexisting_role |-> NULL,
            membership_mutation_state |-> "not_started",
            effective_expires_at |-> 0, revoked_at |-> FALSE,
            revoking_started_at |-> NULL, revoking_lease_id |-> NULL,
            next_revoke_attempt_at |-> NULL, revoke_attempt_count |-> 0,
            elevated |-> FALSE]

-----------------------------------------------------------------------------
(* Reads *)

\* revoking_started_at <= staleRevokingBefore(now), or no lease recorded.
StaleLease(row, now) ==
    \/ row.revoking_started_at = NULL
    \/ row.revoking_started_at + RevokeLease <= now

\* Deviation: a sweep that never looks at grants left in revoking.
GetExpiredButRevoking(row, now) ==
    /\ row.effective_expires_at <= now
    /\ ~row.revoked_at
    /\ \/ row.status \in {"active", "already_present"}
       \/ /\ row.status = "revoke_failed"
          /\ row.next_revoke_attempt_at # NULL
          /\ row.next_revoke_attempt_at <= now

GetExpired(row, now) ==
    /\ row.effective_expires_at <= now
    /\ ~row.revoked_at
    /\ \/ row.status \in {"active", "already_present"}
       \/ /\ row.status = "revoke_failed"
          /\ row.next_revoke_attempt_at # NULL
          /\ row.next_revoke_attempt_at <= now
       \/ row.status = "revoking" /\ StaleLease(row, now)

OwnsRevokeLease(row, lease, now) ==
    /\ row.status = "revoking"
    /\ row.revoking_lease_id = lease
    /\ ~StaleLease(row, now)

-----------------------------------------------------------------------------
(* Statements of the revocation path *)

\* Deviation: a lease that is never taken over.
LeaseNeverReclaimed(row, now) ==
    row.status \in {"active", "revoke_failed", "already_present"}

LeaseAvailable(row, now) ==
    \/ row.status \in {"active", "revoke_failed", "already_present"}
    \/ row.status = "revoking" /\ StaleLease(row, now)

AcquireRevokeLease(row, lease, now) ==
    [row EXCEPT !.status = "revoking",
                !.revoking_started_at = now,
                !.revoking_lease_id = lease]

ClearRevokeLease(row) ==
    [row EXCEPT !.revoking_started_at = NULL, !.revoking_lease_id = NULL]

\* From the fourth attempt on the delay no longer grows: one stage stands for
\* all the later ones.
NextRetryStage(attempts) == IF attempts < 4 THEN attempts + 1 ELSE 4

\* finalizeRevocationWithLease with status 'revoked'.  The predicate of both
\* finalizations below is OwnsRevokeLease.
FinalizeRevoked(row) ==
    [ClearRevokeLease(row) EXCEPT !.status = "revoked",
                                  !.revoked_at = TRUE,
                                  !.next_revoke_attempt_at = NULL,
                                  !.elevated = FALSE]

\* finalizeRevocationWithLease with status 'revoke_failed'.
FinalizeRevokeFailed(row, attempts, next, isElevated) ==
    [ClearRevokeLease(row) EXCEPT !.status = "revoke_failed",
                                  !.revoked_at = FALSE,
                                  !.revoke_attempt_count = attempts,
                                  !.next_revoke_attempt_at = next,
                                  !.elevated = isElevated]

\* The hand-back of a leased grant to grant_access.
ReturnToPending(row) ==
    [ClearRevokeLease(row) EXCEPT !.status = "pending",
                                  !.revoked_at = FALSE,
                                  !.revoke_attempt_count = 0,
                                  !.next_revoke_attempt_at = NULL]

\* Deviation: revoked without a look at the reactivation flag.
FinalizeWithoutHandBack(row, lease, now) ==
    IF ~OwnsRevokeLease(row, lease, now) THEN row
    ELSE [FinalizeRevoked(row) EXCEPT !.revoke_attempt_count = 0]

\* Both UPDATEs of finalizeSuccessfulRevoke; the row is unchanged when the
\* outcome is 'lease_lost'.
FinalizeSuccessfulRevoke(row, lease, now) ==
    IF ~OwnsRevokeLease(row, lease, now) THEN row
    ELSE IF row.membership_mutation_state = "reactivation_required"
         THEN ReturnToPending(row)
         ELSE [FinalizeRevoked(row) EXCEPT !.revoke_attempt_count = 0]

ReactivationStranded(row, now) ==
    /\ row.status = "revoking"
    /\ row.membership_mutation_state = "reactivation_required"
    /\ StaleLease(row, now)

ReclaimStrandedReactivation(row) == ReturnToPending(row)

\* updateRevocationStatus as the webhook calls it: revoked by hand at GitHub.
\* The lease columns are not touched.
UpdateRevocationStatusRevoked(row) ==
    [row EXCEPT !.status = "revoked", !.revoked_at = TRUE,
                !.revoke_attempt_count = 0, !.next_revoke_attempt_at = NULL,
                !.elevated = FALSE]

-----------------------------------------------------------------------------
(* Statements of the granting path *)

CreateGrant(expires) ==
    [NoGrant EXCEPT !.status = "pending", !.effective_expires_at = expires]

UpdateGrantExpiresAt(row, expires) ==
    [row EXCEPT !.effective_expires_at = expires]

\* Resets the lease, so that an abandoned run no longer matches its token.
ReactivateGrant(row, expires) ==
    [ReturnToPending(row) EXCEPT
        !.effective_expires_at = expires,
        !.membership_mutation_state = "reactivation_required"]

UpdateMutationState(row, state) ==
    [row EXCEPT !.membership_mutation_state = state]

\* updateGrantStatus; every call passes revoked_at = null.  errorCode is
\* "keep" (COALESCE of a null), "elevated" or "other".
UpdateGrantStatus(row, status, errorCode) ==
    [row EXCEPT !.status = status,
                !.revoked_at = FALSE,
                !.elevated = (errorCode = "elevated")
                             \/ (errorCode = "keep" /\ row.elevated)]

\* membership_created_by_app never goes back from 0 to 1 here.
UpdateGrantStatusAndMembership(row, status, byApp, preRole) ==
    [row EXCEPT
        !.status = status,
        !.membership_created_by_app =
            IF row.membership_created_by_app = 0 THEN 0 ELSE byApp,
        !.preexisting_role =
            IF row.membership_created_by_app = 0 /\ preRole = NULL
            THEN row.preexisting_role ELSE preRole]

AddRequestSent(row) == row.membership_mutation_state = "add_request_sent"

ConfirmMembershipCreatedByAppAfterVerifiedAdd(row) ==
    [row EXCEPT !.status = "active",
                !.membership_created_by_app = 1,
                !.preexisting_role = NULL,
                !.membership_mutation_state = "membership_confirmed"]
=============================================================================
