----------------------------- MODULE GrantAccess -----------------------------
(***************************************************************************)
(* JobWorker's execution of grant_access jobs: handleGrantAccess, what it  *)
(* calls, and handleJobFailure for this job type.                          *)
(*                                                                         *)
(* A job worker is one JobWorker; it executes one job at a time.  Each     *)
(* action is what the handler does between two awaits.  The delays of      *)
(* run_after are dropped: a queued job may run at any later moment.        *)
(***************************************************************************)
EXTENDS GrantStore

CONSTANT JobWorkers

VARIABLE worker  \* the locals of handleGrantAccess, by job worker

\* The fields of the row the handler reads once and uses until it returns.
Snapshot == [status                    : GrantStatus,
             membership_created_by_app : {0, 1},
             membership_mutation_state : MutationState]

WorkerState ==
    [pc      : {"idle", "acquired", "started", "decide", "adding", "added",
                "verify", "recheck", "failing"},
     job     : JobIds \cup {NULL},
     last    : BOOLEAN,  \* isPermanentFailure, by attempt_count as acquired
     snap    : Snapshot,
     seen    : Roles]

NoSnapshot == [status |-> "none", membership_created_by_app |-> 1,
               membership_mutation_state |-> "not_started"]

IdleWorker == [pc |-> "idle", job |-> NULL, last |-> FALSE, snap |-> NoSnapshot,
               seen |-> "none"]

WorkerTypeOK == worker \in [JobWorkers -> WorkerState]
WorkerInit == worker = [k \in JobWorkers |-> IdleWorker]

Proceed(k, s) == worker' = [worker EXCEPT ![k] = s]
HandlerReturns(k) == Proceed(k, IdleWorker)

JobOf(k) == worker[k].job
GrantOf(k) == jobs[JobOf(k)].grant
Row(k) == grants[GrantOf(k)]

-----------------------------------------------------------------------------
(* The ends of a job *)

\* Deviation: the test is the wrong way round, so that the first failure is the
\* last attempt.
GivesUp(k) ==
    /\ IF ~worker[k].last
       THEN /\ jobs' = FailJob(JobOf(k))
            /\ SetGrant(GrantOf(k), UpdateGrantStatus(Row(k), "grant_failed", "other"))
       ELSE /\ jobs' = ReleaseJobForRetry(JobOf(k))
            /\ UNCHANGED grants
    /\ HandlerReturns(k)

\* handleJobFailure: the handler threw.
JobFails(k) ==
    /\ IF worker[k].last
       THEN /\ jobs' = FailJob(JobOf(k))
            /\ SetGrant(GrantOf(k), UpdateGrantStatus(Row(k), "grant_failed", "other"))
       ELSE /\ jobs' = ReleaseJobForRetry(JobOf(k))
            /\ UNCHANGED grants
    /\ HandlerReturns(k)

\* The transaction that writes the row and completes the job; it throws if
\* the unique index rejects the row.
CommitAndComplete(k, row) ==
    IF IndexAccepts(GrantOf(k), row)
    THEN /\ SetGrant(GrantOf(k), row)
         /\ jobs' = CompleteJob(JobOf(k))
         /\ HandlerReturns(k)
    ELSE JobFails(k)

\* Transactions that end a grant as grant_failed.
FailGrant(k) ==
    /\ SetGrant(GrantOf(k), UpdateGrantStatus(Row(k), "grant_failed", "other"))
    /\ jobs' = FailJob(JobOf(k))
    /\ HandlerReturns(k)

-----------------------------------------------------------------------------
(* The queue *)

\* A running job is queued again once its lock is older than 60 s: its process
\* has died, or it takes that long and another process polls.
LockIsStale(j) ==
    /\ jobs[j].status = "running"
    /\ Admitted("stolen_job") \/ \A k \in JobWorkers : JobOf(k) # j

AcquireNextJob(k, j) ==
    /\ worker[k].pc = "idle"
    /\ jobs[j].status = "queued" \/ LockIsStale(j)
    /\ jobs' = [jobs EXCEPT ![j].status = "running", ![j].attempt_count = @ + 1]
    /\ Proceed(k, [IdleWorker EXCEPT !.pc = "acquired", !.job = j,
                                     !.last = jobs[j].attempt_count + 1 >= MaxAttempts])
    /\ UNCHANGED <<clock, grants, requested, role, origin, faults>>

-----------------------------------------------------------------------------
(* handleGrantAccess up to its first await *)

\* Deviation: the job is done with instead of deferred.
CompleteWhileRevoking(k) ==
    /\ worker[k].pc = "acquired"
    /\ Row(k).status = "revoking"
    /\ ~ReactivationStranded(Row(k), clock)
    /\ jobs' = CompleteJob(JobOf(k))
    /\ HandlerReturns(k)
    /\ UNCHANGED <<clock, grants, requested, role, origin, faults>>

DeferWhileRevoking(k) ==
    /\ worker[k].pc = "acquired"
    /\ Row(k).status = "revoking"
    /\ ~ReactivationStranded(Row(k), clock)
    /\ jobs' = DeferJob(JobOf(k))
    /\ HandlerReturns(k)
    /\ UNCHANGED <<clock, grants, requested, role, origin, faults>>

AlreadySatisfied(k) ==
    /\ worker[k].pc = "acquired"
    /\ Row(k).status \in {"active", "already_present"}
    /\ jobs' = CompleteJob(JobOf(k))
    /\ HandlerReturns(k)
    /\ UNCHANGED <<clock, grants, requested, role, origin, faults>>

\* Every other status goes on, revoked and grant_failed included; a
\* reactivation whose revoke worker died is taken over first.
StartGrantAccess(k) ==
    LET row == IF Row(k).status = "revoking"
               THEN ReclaimStrandedReactivation(Row(k)) ELSE Row(k)
    IN  /\ worker[k].pc = "acquired"
        /\ Row(k).status \notin {"active", "already_present"}
        /\ Row(k).status = "revoking" => ReactivationStranded(Row(k), clock)
        /\ SetGrant(GrantOf(k), row)
        /\ Proceed(k, [worker[k] EXCEPT
                !.pc = "started",
                !.snap = [status |-> row.status,
                          membership_created_by_app |-> row.membership_created_by_app,
                          membership_mutation_state |-> row.membership_mutation_state]])
        /\ UNCHANGED <<clock, requested, jobs, role, origin, faults>>

-----------------------------------------------------------------------------
(* Live checks *)

\* The user has left the organization, and with it the team.
OrganizationMembershipMissing(k) ==
    /\ worker[k].pc = "started"
    /\ role = "none"
    /\ Fault
    /\ FailGrant(k)
    /\ UNCHANGED <<clock, requested, role, origin>>

\* getOrganizationMembership, then the getTeamMembership of the branch taken.
ReadMembership(k) ==
    /\ worker[k].pc = "started"
    /\ Proceed(k, [worker[k] EXCEPT !.pc = "decide", !.seen = role])
    /\ UNCHANGED storeVars

-----------------------------------------------------------------------------
(* The decision on the role just read, by membership_mutation_state *)

Mutation(k) == worker[k].snap.membership_mutation_state
Uncertain(k) == Mutation(k) \in {"add_intent_recorded", "add_request_sent"}

\* determineMembershipOrigin
Preexisting(k) == worker[k].snap.membership_created_by_app = 0

Confirmed(row) == UpdateMutationState(row, "membership_confirmed")
Activated(row) == UpdateGrantStatusAndMembership(row, "active", 1, NULL)
PresentBefore(row, preRole) ==
    UpdateGrantStatusAndMembership(row, "already_present", 0, preRole)

\* updateGrantStatusAndMembership, updateGrantStatus(membership_elevated)
Elevated(row, status) ==
    UpdateGrantStatus(UpdateGrantStatusAndMembership(row, status, 1, NULL),
                      status, "elevated")

Reactivated(k) ==
    IF worker[k].seen = "member"
    THEN IF Preexisting(k) THEN PresentBefore(Confirmed(Row(k)), "member")
                           ELSE Activated(Confirmed(Row(k)))
    ELSE IF Preexisting(k) THEN PresentBefore(Row(k), "maintainer")
                           ELSE Confirmed(Elevated(Row(k), "active"))

Recovered(k) ==
    IF worker[k].seen = "member" THEN Activated(Confirmed(Row(k)))
                                 ELSE Elevated(Row(k), "active")

Revalidated(k) ==
    LET status == IF worker[k].snap.status = "revoke_failed"
                  THEN "revoke_failed" ELSE "active"
    IN  IF worker[k].seen = "member" THEN Activated(Row(k))
        ELSE IF Preexisting(k) THEN PresentBefore(Row(k), "maintainer")
                               ELSE Confirmed(Elevated(Row(k), status))

\* Deviation: the role just read is not looked at.
MembershipAssumed(k) ==
    /\ worker[k].pc = "decide"
    /\ CommitAndComplete(k,
         CASE Mutation(k) = "reactivation_required" -> Reactivated(k)
           [] Mutation(k) = "not_started" -> PresentBefore(Row(k), worker[k].seen)
           [] Uncertain(k) -> Recovered(k)
           [] Mutation(k) = "membership_confirmed" -> Revalidated(k))
    /\ UNCHANGED <<clock, requested, role, origin, faults>>

MembershipFound(k) ==
    /\ worker[k].pc = "decide"
    /\ worker[k].seen # "none"
    /\ CommitAndComplete(k,
         CASE Mutation(k) = "reactivation_required" -> Reactivated(k)
           [] Mutation(k) = "not_started" -> PresentBefore(Row(k), worker[k].seen)
           [] Uncertain(k) -> Recovered(k)
           [] Mutation(k) = "membership_confirmed" -> Revalidated(k))
    /\ UNCHANGED <<clock, requested, role, origin, faults>>

\* The membership of a confirmed grant is gone: start over at the next attempt.
\* The handler throws after the commit of the reset.
ConfirmedMembershipMissing(k) ==
    /\ worker[k].pc = "decide"
    /\ worker[k].seen = "none"
    /\ Mutation(k) = "membership_confirmed"
    /\ SetGrant(GrantOf(k), UpdateMutationState(Row(k), "not_started"))
    /\ Proceed(k, [worker[k] EXCEPT !.pc = "failing"])
    /\ UNCHANGED <<clock, requested, jobs, role, origin, faults>>

\* Deviation: the add is sent without being recorded first.
SendAddUnrecorded(k) ==
    /\ worker[k].pc = "decide"
    /\ worker[k].seen = "none"
    /\ Mutation(k) # "membership_confirmed"
    /\ Proceed(k, [worker[k] EXCEPT !.pc = "adding"])
    /\ UNCHANGED storeVars

\* add_intent_recorded, then add_request_sent, then the PUT.
SendAdd(k) ==
    /\ worker[k].pc = "decide"
    /\ worker[k].seen = "none"
    /\ Mutation(k) # "membership_confirmed"
    /\ SetGrant(GrantOf(k), UpdateMutationState(Row(k), "add_request_sent"))
    /\ Proceed(k, [worker[k] EXCEPT !.pc = "adding"])
    /\ UNCHANGED <<clock, requested, jobs, role, origin, faults>>

-----------------------------------------------------------------------------
(* The add.  It has no timeout: it may stay on the wire for any time. *)

\* PUT with role "member" also turns a maintainer into a member.
GitHubAdds(k) ==
    /\ worker[k].pc = "adding"
    /\ role' = "member"
    /\ origin' = IF role = "none" THEN "app" ELSE origin
    /\ Proceed(k, [worker[k] EXCEPT !.pc = "added"])
    /\ UNCHANGED <<clock, grants, requested, jobs, faults>>

\* GitHubIdpSyncError: the team is managed elsewhere.
AddRejected(k) ==
    /\ worker[k].pc = "adding"
    /\ Fault
    /\ FailGrant(k)
    /\ UNCHANGED <<clock, requested, role, origin>>

VerifyAdd(k) ==
    /\ worker[k].pc = "added"
    /\ Proceed(k, [worker[k] EXCEPT !.pc = "verify", !.seen = role])
    /\ UNCHANGED storeVars

\* claimVerifiedAddedMembership
Claimed(row) == IF AddRequestSent(row)
                THEN ConfirmMembershipCreatedByAppAfterVerifiedAdd(row)
                ELSE Activated(Confirmed(row))

AddVerified(k) ==
    /\ worker[k].pc = "verify"
    /\ worker[k].seen # "none"
    /\ CommitAndComplete(k,
         IF worker[k].seen = "maintainer"
         THEN UpdateGrantStatus(Claimed(Row(k)), "active", "elevated")
         ELSE Claimed(Row(k)))
    /\ UNCHANGED <<clock, requested, role, origin, faults>>

\* Any other error of the add, before or after GitHub carried it out: look
\* whether the membership is there.
AddFails(k) ==
    /\ worker[k].pc \in {"adding", "added"}
    /\ Fault
    /\ Proceed(k, [worker[k] EXCEPT !.pc = "recheck", !.seen = role])
    /\ UNCHANGED <<clock, grants, requested, jobs, role, origin>>

AddRecovered(k) ==
    /\ worker[k].pc = "recheck"
    /\ worker[k].seen # "none"
    /\ CommitAndComplete(k,
         IF worker[k].seen = "member" THEN Activated(Confirmed(Row(k)))
         ELSE IF Preexisting(k) THEN PresentBefore(Row(k), "maintainer")
                                ELSE Confirmed(Elevated(Row(k), "active")))
    /\ UNCHANGED <<clock, requested, role, origin, faults>>

-----------------------------------------------------------------------------
(* Failures *)

\* No membership after the add, or none any more: the handler has thrown.
MembershipNotFound(k) ==
    /\ worker[k].pc \in {"verify", "recheck", "failing"}
    /\ worker[k].seen = "none"
    /\ JobFails(k)
    /\ UNCHANGED <<clock, requested, role, origin, faults>>

\* A read is rejected: the handler throws.
HandlerThrows(k) ==
    /\ worker[k].pc \in {"started", "adding", "added"}
    /\ Fault
    /\ JobFails(k)
    /\ UNCHANGED <<clock, requested, role, origin>>

\* The process dies.  An add on the wire may or may not arrive, and the death
\* may fall between the two writes of SendAdd.
CrashWorker(k) ==
    /\ worker[k].pc # "idle"
    /\ Fault
    /\ HandlerReturns(k)
    /\ \/ UNCHANGED <<grants, role, origin>>
       \/ /\ worker[k].pc = "adding"
          /\ role' = "member"
          /\ origin' = IF role = "none" THEN "app" ELSE origin
          /\ UNCHANGED grants
       \/ /\ worker[k].pc = "decide"
          /\ worker[k].seen = "none"
          /\ Mutation(k) \in {"not_started", "reactivation_required"}
          /\ SetGrant(GrantOf(k), UpdateMutationState(Row(k), "add_intent_recorded"))
          /\ UNCHANGED <<role, origin>>
    /\ UNCHANGED <<clock, requested, jobs>>

HandlerStep(k) ==
    \/ DeferWhileRevoking(k)
    \/ AlreadySatisfied(k)
    \/ StartGrantAccess(k)
    \/ ReadMembership(k)
    \/ MembershipFound(k)
    \/ ConfirmedMembershipMissing(k)
    \/ SendAdd(k)
    \/ GitHubAdds(k)
    \/ VerifyAdd(k)
    \/ AddVerified(k)
    \/ AddRecovered(k)
    \/ MembershipNotFound(k)

WorkerNext(k) ==
    \/ \E j \in JobIds : AcquireNextJob(k, j)
    \/ HandlerStep(k)
    \/ OrganizationMembershipMissing(k)
    \/ AddRejected(k)
    \/ AddFails(k)
    \/ HandlerThrows(k)
    \/ CrashWorker(k)
=============================================================================
