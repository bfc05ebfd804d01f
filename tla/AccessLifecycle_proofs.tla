------------------------ MODULE AccessLifecycle_proofs ------------------------
(***************************************************************************)
(* Lemmas about the statements of GrantRepository, and proofs about the    *)
(* lifecycle that need no lease: types, that no grant ends before a        *)
(* request it carries, that a member of long standing is never removed and *)
(* that the app remembers the memberships it made.                         *)
(***************************************************************************)
EXTENDS AccessLifecycle, TLAPS

-----------------------------------------------------------------------------
(* What the statements of GrantRepository leave behind: a row of the table, *)
(* and the columns they do not write.  The proofs about the components cite *)
(* these lemmas and hardly ever open a statement.                           *)

\* The type of the parts of a row, for a row of the table.
LEMMA RowFields ==
    ASSUME NEW row \in DbGrant
    PROVE  /\ row.status \in GrantStatus
           /\ row.membership_created_by_app \in {0, 1}
           /\ row.preexisting_role \in {NULL, "member", "maintainer"}
           /\ row.membership_mutation_state \in MutationState
           /\ row.effective_expires_at \in Nat
           /\ row.revoked_at \in BOOLEAN
           /\ row.revoking_started_at \in Nat \cup {NULL}
           /\ row.revoking_lease_id \in LeaseIds \cup {NULL}
           /\ row.next_revoke_attempt_at \in Nat \cup {NULL}
           /\ row.revoke_attempt_count \in {0} \cup RetryStages
           /\ row.elevated \in BOOLEAN
BY DEF DbGrant

\* A retry is always scheduled with one of the delays there are.
LEMMA RetryStageBounded ==
    ASSUME NEW n \in {0} \cup RetryStages
    PROVE  NextRetryStage(n) \in RetryStages
BY DEF NextRetryStage, RetryStages

LEMMA NoGrantType == NoGrant \in DbGrant
BY DEF NoGrant, DbGrant, GrantStatus, MutationState

LEMMA CreateGrantType ==
    ASSUME NEW e \in Nat
    PROVE  /\ CreateGrant(e) \in DbGrant
           /\ CreateGrant(e).effective_expires_at = e
           /\ CreateGrant(e).status = "pending"
           /\ ~CreateGrant(e).revoked_at
           /\ CreateGrant(e).membership_mutation_state = "not_started"
BY DEF CreateGrant, NoGrant, DbGrant, GrantStatus, MutationState

LEMMA AcquireRevokeLeaseType ==
    ASSUME NEW row \in DbGrant, NEW l \in LeaseIds, NEW now \in Nat
    PROVE  LET new == AcquireRevokeLease(row, l, now)
           IN  /\ new \in DbGrant
               /\ new.effective_expires_at = row.effective_expires_at
               /\ new.revoked_at = row.revoked_at
               /\ new.status = "revoking"
               /\ new.revoking_lease_id = l
               /\ new.revoking_started_at = now
               /\ new.membership_created_by_app = row.membership_created_by_app
               /\ new.membership_mutation_state = row.membership_mutation_state
BY DEF AcquireRevokeLease, DbGrant, GrantStatus

LEMMA ClearRevokeLeaseType ==
    ASSUME NEW row \in DbGrant
    PROVE  LET new == ClearRevokeLease(row)
           IN  /\ new \in DbGrant
               /\ new.effective_expires_at = row.effective_expires_at
               /\ new.revoked_at = row.revoked_at
               /\ new.status = row.status
               /\ new.membership_created_by_app = row.membership_created_by_app
               /\ new.membership_mutation_state = row.membership_mutation_state
BY DEF ClearRevokeLease, DbGrant

LEMMA FinalizeRevokedType ==
    ASSUME NEW row \in DbGrant
    PROVE  LET new == FinalizeRevoked(row)
           IN  /\ new \in DbGrant
               /\ new.effective_expires_at = row.effective_expires_at
               /\ new.revoked_at
               /\ new.status = "revoked"
               /\ new.membership_created_by_app = row.membership_created_by_app
               /\ new.membership_mutation_state = row.membership_mutation_state
BY DEF FinalizeRevoked, ClearRevokeLease, DbGrant, GrantStatus

LEMMA FinalizeRevokeFailedType ==
    ASSUME NEW row \in DbGrant, NEW n \in RetryStages, NEW next \in Nat,
           NEW b \in BOOLEAN
    PROVE  LET new == FinalizeRevokeFailed(row, n, next, b)
           IN  /\ new \in DbGrant
               /\ new.effective_expires_at = row.effective_expires_at
               /\ ~new.revoked_at
               /\ new.status = "revoke_failed"
               /\ new.membership_created_by_app = row.membership_created_by_app
               /\ new.membership_mutation_state = row.membership_mutation_state
BY DEF FinalizeRevokeFailed, ClearRevokeLease, DbGrant, GrantStatus

LEMMA ReturnToPendingType ==
    ASSUME NEW row \in DbGrant
    PROVE  LET new == ReturnToPending(row)
           IN  /\ new \in DbGrant
               /\ new.effective_expires_at = row.effective_expires_at
               /\ ~new.revoked_at
               /\ new.membership_mutation_state = row.membership_mutation_state
               /\ new.membership_created_by_app = row.membership_created_by_app
               /\ new.status = "pending"
BY DEF ReturnToPending, ClearRevokeLease, DbGrant, GrantStatus

LEMMA FinalizeSuccessfulRevokeType ==
    ASSUME NEW row \in DbGrant, NEW l, NEW now
    PROVE  LET new == FinalizeSuccessfulRevoke(row, l, now)
           IN  /\ new \in DbGrant
               /\ new.effective_expires_at = row.effective_expires_at
               /\ OwnsRevokeLease(row, l, now) =>
                     new.status = IF row.membership_mutation_state = "reactivation_required"
                                  THEN "pending" ELSE "revoked"
               /\ OwnsRevokeLease(row, l, now) => (new.revoked_at <=> new.status = "revoked")
               /\ ~OwnsRevokeLease(row, l, now) => new = row
               /\ new.membership_created_by_app = row.membership_created_by_app
               /\ new.membership_mutation_state = row.membership_mutation_state
<1>1. CASE ~OwnsRevokeLease(row, l, now)
  BY <1>1 DEF FinalizeSuccessfulRevoke
<1>2. CASE /\ OwnsRevokeLease(row, l, now)
           /\ row.membership_mutation_state = "reactivation_required"
  BY <1>2, ReturnToPendingType DEF FinalizeSuccessfulRevoke
<1>3. CASE /\ OwnsRevokeLease(row, l, now)
           /\ row.membership_mutation_state # "reactivation_required"
  <2> DEFINE mid == FinalizeRevoked(row)
             new == [mid EXCEPT !.revoke_attempt_count = 0]
  <2>1. /\ mid \in DbGrant /\ mid.status = "revoked" /\ mid.revoked_at
        /\ mid.effective_expires_at = row.effective_expires_at
        /\ mid.membership_created_by_app = row.membership_created_by_app
        /\ mid.membership_mutation_state = row.membership_mutation_state
    BY FinalizeRevokedType
  <2>2. /\ new \in DbGrant /\ new.status = "revoked" /\ new.revoked_at
        /\ new.effective_expires_at = row.effective_expires_at
        /\ new.membership_created_by_app = row.membership_created_by_app
        /\ new.membership_mutation_state = row.membership_mutation_state
    <3> HIDE DEF mid
    <3> QED BY <2>1 DEF DbGrant
  <2>3. FinalizeSuccessfulRevoke(row, l, now) = new
    BY <1>3 DEF FinalizeSuccessfulRevoke
  <2> QED BY <1>3, <2>2, <2>3
<1> QED BY <1>1, <1>2, <1>3

LEMMA UpdateRevocationStatusRevokedType ==
    ASSUME NEW row \in DbGrant
    PROVE  LET new == UpdateRevocationStatusRevoked(row)
           IN  /\ new \in DbGrant
               /\ new.effective_expires_at = row.effective_expires_at
               /\ new.status = "revoked"
               /\ new.membership_created_by_app = row.membership_created_by_app
               /\ new.membership_mutation_state = row.membership_mutation_state
BY DEF UpdateRevocationStatusRevoked, DbGrant, GrantStatus

LEMMA UpdateGrantExpiresAtType ==
    ASSUME NEW row \in DbGrant, NEW e \in Nat
    PROVE  LET new == UpdateGrantExpiresAt(row, e)
           IN  /\ new \in DbGrant
               /\ new.effective_expires_at = e
               /\ new.revoked_at = row.revoked_at
               /\ new.status = row.status
               /\ new.revoking_lease_id = row.revoking_lease_id
               /\ new.revoking_started_at = row.revoking_started_at
               /\ new.membership_created_by_app = row.membership_created_by_app
               /\ new.membership_mutation_state = row.membership_mutation_state
BY DEF UpdateGrantExpiresAt, DbGrant

LEMMA ReactivateGrantType ==
    ASSUME NEW row \in DbGrant, NEW e \in Nat
    PROVE  LET new == ReactivateGrant(row, e)
           IN  /\ new \in DbGrant
               /\ new.effective_expires_at = e
               /\ ~new.revoked_at
               /\ new.status = "pending"
               /\ new.membership_mutation_state = "reactivation_required"
               /\ new.membership_created_by_app = row.membership_created_by_app
<1> DEFINE mid == ReturnToPending(row)
<1>1. /\ mid \in DbGrant /\ mid.status = "pending" /\ ~mid.revoked_at
      /\ mid.membership_created_by_app = row.membership_created_by_app
  BY ReturnToPendingType
<1> HIDE DEF mid
<1>2. LET new == [mid EXCEPT !.effective_expires_at = e,
                             !.membership_mutation_state = "reactivation_required"]
      IN  /\ new \in DbGrant
          /\ new.effective_expires_at = e
          /\ ~new.revoked_at
          /\ new.status = "pending"
          /\ new.membership_mutation_state = "reactivation_required"
          /\ new.membership_created_by_app = row.membership_created_by_app
  BY <1>1 DEF DbGrant, MutationState
<1> QED BY <1>2 DEF ReactivateGrant, mid

LEMMA UpdateMutationStateType ==
    ASSUME NEW row \in DbGrant, NEW m \in MutationState
    PROVE  LET new == UpdateMutationState(row, m)
           IN  /\ new \in DbGrant
               /\ new.effective_expires_at = row.effective_expires_at
               /\ new.revoked_at = row.revoked_at
               /\ new.status = row.status
               /\ new.membership_created_by_app = row.membership_created_by_app
               /\ new.revoking_lease_id = row.revoking_lease_id
               /\ new.revoking_started_at = row.revoking_started_at
               /\ new.membership_mutation_state = m
BY DEF UpdateMutationState, DbGrant

LEMMA UpdateGrantStatusType ==
    ASSUME NEW row \in DbGrant, NEW st \in GrantStatus, NEW c
    PROVE  LET new == UpdateGrantStatus(row, st, c)
           IN  /\ new \in DbGrant
               /\ new.effective_expires_at = row.effective_expires_at
               /\ ~new.revoked_at
               /\ new.status = st
               /\ new.membership_created_by_app = row.membership_created_by_app
               /\ new.membership_mutation_state = row.membership_mutation_state
<1> DEFINE b == (c = "elevated") \/ (c = "keep" /\ row.elevated)
<1>1. b \in BOOLEAN
  BY DEF DbGrant
<1> HIDE DEF b
<1>2. LET new == [row EXCEPT !.status = st, !.revoked_at = FALSE, !.elevated = b]
      IN  /\ new \in DbGrant
          /\ new.effective_expires_at = row.effective_expires_at
          /\ ~new.revoked_at
          /\ new.status = st
          /\ new.membership_created_by_app = row.membership_created_by_app
          /\ new.membership_mutation_state = row.membership_mutation_state
  BY <1>1 DEF DbGrant
<1> QED BY <1>2 DEF UpdateGrantStatus, b

\* A row that says the membership is not the app's says so for good.
LEMMA UpdateGrantStatusAndMembershipType ==
    ASSUME NEW row \in DbGrant, NEW st \in GrantStatus, NEW byApp \in {0, 1},
           NEW pre \in {NULL, "member", "maintainer"}
    PROVE  LET new == UpdateGrantStatusAndMembership(row, st, byApp, pre)
           IN  /\ new \in DbGrant
               /\ new.effective_expires_at = row.effective_expires_at
               /\ new.revoked_at = row.revoked_at
               /\ new.status = st
               /\ new.membership_mutation_state = row.membership_mutation_state
               /\ new.membership_created_by_app
                    = IF row.membership_created_by_app = 0 THEN 0 ELSE byApp
BY DEF UpdateGrantStatusAndMembership, DbGrant

LEMMA ConfirmMembershipType ==
    ASSUME NEW row \in DbGrant
    PROVE  LET new == ConfirmMembershipCreatedByAppAfterVerifiedAdd(row)
           IN  /\ new \in DbGrant
               /\ new.effective_expires_at = row.effective_expires_at
               /\ new.revoked_at = row.revoked_at
               /\ new.status = "active"
               /\ new.membership_created_by_app = 1
               /\ new.membership_mutation_state = "membership_confirmed"
BY DEF ConfirmMembershipCreatedByAppAfterVerifiedAdd, DbGrant, GrantStatus,
       MutationState

\* A lease that is stale stays stale.
LEMMA StaleLeaseMonotone ==
    ASSUME NEW row \in DbGrant, NEW t \in Nat, NEW u \in Nat, t <= u,
           StaleLease(row, t)
    PROVE  StaleLease(row, u)
BY RepositoryAssumption DEF StaleLease, DbGrant

-----------------------------------------------------------------------------
(* The inductive invariant.  A handler or a run indexes the tables with the *)
(* ids it carries, so their types rest on those ids being ids of rows.      *)

JobsHaveGrants ==
    \A j \in JobIds : jobs[j].status # "unused" => jobs[j].grant \in Grants

WorkersHaveJobs ==
    \A k \in JobWorkers :
        worker[k].pc # "idle" =>
            worker[k].job \in JobIds /\ jobs[worker[k].job].status # "unused"

SweepersHaveGrants ==
    \A w \in Sweepers :
        sweeper[w].pc \notin {"idle", "sweep"} =>
            sweeper[w].grant \in Grants /\ sweeper[w].lease \in LeaseIds

TypeInv == TypeOK /\ JobsHaveGrants /\ WorkersHaveJobs /\ SweepersHaveGrants

\* An id without a row carries no request.
NoRowNoRequest ==
    \A g \in Grants : grants[g].status = "none" => requested[g] = {}

ExpiryInv == TypeInv /\ NoRowNoRequest /\ ExpiryCoversRequests

-----------------------------------------------------------------------------
(* Steps that neither insert a row nor move an expiry.                      *)

Kept(old, new) ==
    /\ new \in DbGrant
    /\ new.effective_expires_at = old.effective_expires_at
    /\ new.status = "none" => old.status = "none"

RowsKept ==
    /\ grants' \in [Grants -> DbGrant]
    /\ \A g \in Grants : Kept(grants[g], grants'[g])

JobsKept ==
    /\ jobs' \in [JobIds -> Job]
    /\ \A j \in JobIds :
         /\ jobs[j].status # "unused" => /\ jobs'[j].status # "unused"
                                         /\ jobs'[j].grant = jobs[j].grant
         /\ jobs'[j].status # "unused" => jobs'[j].grant \in Grants

LEMMA SetGrantKeeps ==
    ASSUME TypeInv, NEW g \in Grants, NEW new, Kept(grants[g], new),
           SetGrant(g, new)
    PROVE  RowsKept
<1>1. grants \in [Grants -> DbGrant]
  BY DEF TypeInv, TypeOK, StoreTypeOK
<1>2. grants' \in [Grants -> DbGrant]
  BY <1>1 DEF SetGrant, Kept
<1>3. ASSUME NEW h \in Grants
      PROVE  Kept(grants[h], grants'[h])
  <2>1. CASE h = g
    BY <1>1, <2>1 DEF SetGrant
  <2>2. CASE h # g
    BY <1>1, <2>2 DEF SetGrant, Kept
  <2> QED BY <2>1, <2>2
<1> QED BY <1>2, <1>3 DEF RowsKept

LEMMA UnchangedKeeps ==
    ASSUME TypeInv, UNCHANGED grants
    PROVE  RowsKept
BY DEF RowsKept, Kept, TypeInv, TypeOK, StoreTypeOK

LEMMA UnchangedJobsKept ==
    ASSUME TypeInv, UNCHANGED jobs
    PROVE  JobsKept
BY DEF JobsKept, TypeInv, TypeOK, StoreTypeOK, JobsHaveGrants

\* Enqueueing a job for a grant.
LEMMA CreateJobKeeps ==
    ASSUME TypeInv, NEW g \in Grants, FreeJobs # {}, jobs' = CreateJob(g)
    PROVE  JobsKept
<1> DEFINE id == CHOOSE j \in FreeJobs : TRUE
<1>1. id \in FreeJobs
  OBVIOUS
<1>2. id \in JobIds /\ jobs[id].status = "unused"
  BY <1>1 DEF FreeJobs
<1>3. jobs' = [jobs EXCEPT ![id] =
                 [status |-> "queued", grant |-> g, attempt_count |-> 0]]
  BY DEF CreateJob
<1>4. jobs \in [JobIds -> Job]
  BY DEF TypeInv, TypeOK, StoreTypeOK
<1> HIDE DEF id
<1> QED
  BY <1>2, <1>3, <1>4 DEF JobsKept, Job, TypeInv, JobsHaveGrants

\* Moving a job that exists to another status.
LEMMA MoveJobKeeps ==
    ASSUME TypeInv, NEW j \in JobIds, jobs[j].status # "unused",
           NEW s \in {"queued", "running", "completed", "failed"}, NEW n \in Nat,
           jobs' = [jobs EXCEPT ![j] = [@ EXCEPT !.status = s, !.attempt_count = n]]
    PROVE  JobsKept
<1>1. jobs \in [JobIds -> Job]
  BY DEF TypeInv, TypeOK, StoreTypeOK
<1>2. jobs[j] \in Job /\ jobs[j].grant \in Grants
  BY <1>1 DEF TypeInv, JobsHaveGrants
<1> DEFINE new == [jobs[j] EXCEPT !.status = s, !.attempt_count = n]
<1>3. new \in Job /\ new.status = s /\ new.grant = jobs[j].grant
  BY <1>2 DEF Job
<1>4. jobs' = [jobs EXCEPT ![j] = new]
  BY <1>1
<1> HIDE DEF new
<1> QED BY <1>1, <1>2, <1>3, <1>4 DEF JobsKept, TypeInv, JobsHaveGrants

LEMMA JobStatementsKeep ==
    ASSUME TypeInv, NEW j \in JobIds, jobs[j].status # "unused",
           \/ jobs' = CompleteJob(j)
           \/ jobs' = FailJob(j)
           \/ jobs' = ReleaseJobForRetry(j)
           \/ jobs' = DeferJob(j)
           \/ jobs' = [jobs EXCEPT ![j].status = "running",
                                   ![j].attempt_count = @ + 1]
    PROVE  JobsKept
<1>1. jobs \in [JobIds -> Job] /\ jobs[j] \in Job /\ jobs[j].attempt_count \in Nat
  BY DEF TypeInv, TypeOK, StoreTypeOK, Job
<1>2. ASSUME NEW s \in {"queued", "running", "completed", "failed"},
             jobs' = [jobs EXCEPT ![j].status = s]
      PROVE  JobsKept
  <2>1. jobs' = [jobs EXCEPT ![j] = [@ EXCEPT !.status = s,
                                              !.attempt_count = jobs[j].attempt_count]]
    BY <1>1, <1>2 DEF Job
  <2> QED BY <1>1, <2>1, MoveJobKeeps
<1>3. CASE jobs' = CompleteJob(j) \/ jobs' = FailJob(j) \/ jobs' = ReleaseJobForRetry(j)
  BY <1>2, <1>3 DEF CompleteJob, FailJob, ReleaseJobForRetry
<1>4. CASE jobs' = DeferJob(j)
  <2> DEFINE n == IF jobs[j].attempt_count > 0 THEN jobs[j].attempt_count - 1 ELSE 0
  <2>1. n \in Nat
    BY <1>1
  <2>2. jobs' = [jobs EXCEPT ![j] = [@ EXCEPT !.status = "queued", !.attempt_count = n]]
    BY <1>1, <1>4 DEF DeferJob, Job
  <2> HIDE DEF n
  <2> QED BY <2>1, <2>2, MoveJobKeeps
<1>5. CASE jobs' = [jobs EXCEPT ![j].status = "running", ![j].attempt_count = @ + 1]
  <2> DEFINE n == jobs[j].attempt_count + 1
  <2>1. n \in Nat
    BY <1>1
  <2>2. jobs' = [jobs EXCEPT ![j] = [@ EXCEPT !.status = "running", !.attempt_count = n]]
    BY <1>1, <1>5 DEF Job
  <2> HIDE DEF n
  <2> QED BY <2>1, <2>2, MoveJobKeeps
<1> QED BY <1>3, <1>4, <1>5

-----------------------------------------------------------------------------
(* The sweepers *)

SweepersTyped == SweeperTypeOK /\ SweepersHaveGrants

LEMMA IdleSweeperType == IdleSweeper \in SweeperState
BY DEF IdleSweeper, SweeperState, Roles

LEMMA BecomeType ==
    ASSUME TypeInv, NEW w \in Sweepers, NEW s \in SweeperState, Become(w, s),
           s.pc \notin {"idle", "sweep"} => s.grant \in Grants /\ s.lease \in LeaseIds
    PROVE  SweepersTyped'
BY DEF SweepersTyped, SweeperTypeOK, SweepersHaveGrants, Become, TypeInv, TypeOK

LEMMA RevokeReturnsType ==
    ASSUME TypeInv, NEW w \in Sweepers, RevokeReturns(w)
    PROVE  SweepersTyped'
<1>1. sweeper[w] \in SweeperState
  BY DEF TypeInv, TypeOK, SweeperTypeOK
<1> DEFINE next == [IdleSweeper EXCEPT !.pc = "sweep", !.now = sweeper[w].now,
                                       !.todo = sweeper[w].todo]
<1>2. next \in SweeperState /\ next.pc = "sweep"
  BY <1>1 DEF IdleSweeper, SweeperState, Roles
<1>3. IdleSweeper \in SweeperState /\ IdleSweeper.pc = "idle"
  BY IdleSweeperType DEF IdleSweeper
<1>4. Become(w, IF sweeper[w].todo = {} THEN IdleSweeper ELSE next)
  BY DEF RevokeReturns
<1> HIDE DEF next
<1> QED BY <1>2, <1>3, <1>4, BecomeType

LEMMA SettleType ==
    ASSUME TypeInv, NEW w \in Sweepers, sweeper[w].pc \notin {"idle", "sweep"},
           NEW row, Kept(grants[sweeper[w].grant], row), Settle(w, row)
    PROVE  RowsKept /\ SweepersTyped'
<1>1. sweeper[w].grant \in Grants
  BY DEF TypeInv, SweepersHaveGrants
<1>2. grants[sweeper[w].grant] \in DbGrant
  BY <1>1 DEF TypeInv, TypeOK, StoreTypeOK
<1>3. Kept(grants[sweeper[w].grant],
           IF OwnsLease(w) THEN row ELSE grants[sweeper[w].grant])
  BY <1>2 DEF Kept
<1>4. RowsKept
  BY <1>1, <1>3, SetGrantKeeps DEF Settle
<1>5. SweepersTyped'
  BY RevokeReturnsType DEF Settle
<1> QED BY <1>4, <1>5

LEMMA RecordFailureType ==
    ASSUME TypeInv, NEW w \in Sweepers, sweeper[w].pc \notin {"idle", "sweep"},
           RecordFailure(w)
    PROVE  RowsKept /\ SweepersTyped'
<1> DEFINE stage == NextRetryStage(sweeper[w].attempts)
           row == FinalizeRevokeFailed(grants[sweeper[w].grant], stage,
                                       clock + RevokeRetryDelay[stage], FALSE)
<1>1. grants[sweeper[w].grant] \in DbGrant
  BY DEF TypeInv, TypeOK, StoreTypeOK, SweepersHaveGrants
<1>2. sweeper[w].attempts \in {0} \cup RetryStages
  BY DEF TypeInv, TypeOK, SweeperTypeOK, SweeperState
<1>3. stage \in RetryStages
  BY <1>2, RetryStageBounded
<1>4. clock + RevokeRetryDelay[stage] \in Nat
  BY <1>3, RepositoryAssumption DEF TypeInv, TypeOK, StoreTypeOK
<1>5. Settle(w, row)
  BY DEF RecordFailure
<1> HIDE DEF stage
<1>6. Kept(grants[sweeper[w].grant], row)
  BY <1>1, <1>3, <1>4, FinalizeRevokeFailedType DEF Kept
<1> HIDE DEF row
<1> QED BY <1>5, <1>6, SettleType

\* What every step of a sweeper or of a job worker leaves of the store.
StoreKept ==
    /\ RowsKept
    /\ JobsKept
    /\ UNCHANGED <<clock, requested>>
    /\ role' \in Roles
    /\ origin' \in Origins
    /\ faults' \in Nat

LEMMA UnchangedStoreKept ==
    ASSUME TypeInv, UNCHANGED storeVars
    PROVE  StoreKept
<1>1. UNCHANGED <<clock, grants, requested, jobs, role, origin, faults>>
  BY DEF storeVars
<1> QED
  BY <1>1, UnchangedKeeps, UnchangedJobsKept
     DEF StoreKept, TypeInv, TypeOK, StoreTypeOK

LEMMA SweeperStepTypes ==
    ASSUME TypeInv, NEW w \in Sweepers, SweeperNext(w)
    PROVE  StoreKept /\ SweepersTyped'
<1> USE DEF StoreKept
<1>a. /\ sweeper[w] \in SweeperState
      /\ clock \in Nat /\ role \in Roles /\ origin \in Origins /\ faults \in Nat
      /\ sweeper[w].pc \notin {"idle", "sweep"} =>
            /\ sweeper[w].grant \in Grants
            /\ sweeper[w].lease \in LeaseIds
            /\ grants[sweeper[w].grant] \in DbGrant
  BY DEF TypeInv, TypeOK, StoreTypeOK, SweeperTypeOK, SweepersHaveGrants
<1>1. CASE SweepStart(w)
  <2> DEFINE next == [IdleSweeper EXCEPT !.pc = "sweep", !.now = clock,
                        !.todo = {g \in Grants : GetExpired(grants[g], clock)}]
  <2>1. next \in SweeperState /\ next.pc = "sweep"
    BY <1>a DEF IdleSweeper, SweeperState, Roles
  <2>2. Become(w, next)
    BY <1>1 DEF SweepStart
  <2> HIDE DEF next
  <2>3. SweepersTyped'
    BY <2>1, <2>2, BecomeType
  <2> QED BY <1>1, <2>3, UnchangedStoreKept DEF SweepStart
<1>2. ASSUME NEW g \in Grants, SkipGrant(w, g)
      PROVE  StoreKept /\ SweepersTyped'
  <2> DEFINE rest == sweeper[w].todo \ {g}
             next == [sweeper[w] EXCEPT !.todo = rest]
  <2>1. next \in SweeperState /\ next.pc = "sweep"
    BY <1>2, <1>a DEF SkipGrant, SweeperState
  <2>2. IdleSweeper \in SweeperState /\ IdleSweeper.pc = "idle"
    BY IdleSweeperType DEF IdleSweeper
  <2>3. Become(w, IF rest = {} THEN IdleSweeper ELSE next)
    BY <1>2 DEF SkipGrant
  <2> HIDE DEF next
  <2>4. SweepersTyped'
    BY <2>1, <2>2, <2>3, BecomeType
  <2> QED BY <1>2, <2>4, UnchangedStoreKept DEF SkipGrant
<1>3. ASSUME NEW g \in Grants, NEW l \in LeaseIds, AcquireLease(w, g, l)
      PROVE  StoreKept /\ SweepersTyped'
  <2> DEFINE row == AcquireRevokeLease(grants[g], l, sweeper[w].now)
             next == [sweeper[w] EXCEPT
                        !.pc = "leased", !.todo = @ \ {g}, !.grant = g, !.lease = l,
                        !.byApp = grants[g].membership_created_by_app,
                        !.attempts = grants[g].revoke_attempt_count]
  <2>1. grants[g] \in DbGrant
    BY DEF TypeInv, TypeOK, StoreTypeOK
  <2>2. sweeper[w].now \in Nat
    BY <1>a DEF SweeperState
  <2>3. Kept(grants[g], row)
    BY <2>1, <2>2, AcquireRevokeLeaseType DEF Kept
  <2>4. next \in SweeperState /\ next.grant = g /\ next.lease = l
    BY <1>a, <2>1, RowFields DEF SweeperState
  <2>5. SetGrant(g, row) /\ Become(w, next)
    BY <1>3 DEF AcquireLease
  <2> HIDE DEF row, next
  <2>6. RowsKept /\ SweepersTyped'
    BY <2>3, <2>4, <2>5, SetGrantKeeps, BecomeType
  <2> QED BY <1>3, <1>a, <2>6, UnchangedJobsKept DEF AcquireLease
<1>4. CASE FinishPreexisting(w)
  <2>1. Kept(grants[sweeper[w].grant], FinalizeRevoked(grants[sweeper[w].grant]))
    BY <1>4, <1>a, FinalizeRevokedType DEF FinishPreexisting, Kept
  <2> QED BY <1>4, <1>a, <2>1, SettleType, UnchangedJobsKept DEF FinishPreexisting
<1>5. CASE ReadRole(w)
  <2> DEFINE next == [sweeper[w] EXCEPT !.pc = "read", !.seen = role]
  <2>1. next \in SweeperState /\ next.grant \in Grants /\ next.lease \in LeaseIds
    BY <1>5, <1>a DEF ReadRole, SweeperState
  <2>2. Become(w, next)
    BY <1>5 DEF ReadRole
  <2> HIDE DEF next
  <2> QED BY <1>5, <2>1, <2>2, BecomeType, UnchangedStoreKept DEF ReadRole
<1>6. CASE CompleteSuccessfulRevoke(w)
  <2> DEFINE row == FinalizeSuccessfulRevoke(grants[sweeper[w].grant],
                                             sweeper[w].lease, clock)
  <2>1. Kept(grants[sweeper[w].grant], row)
    BY <1>6, <1>a, FinalizeSuccessfulRevokeType DEF CompleteSuccessfulRevoke, Kept
  <2>2. Settle(w, row)
    BY <1>6 DEF CompleteSuccessfulRevoke
  <2> HIDE DEF row
  <2> QED BY <1>6, <1>a, <2>1, <2>2, SettleType, UnchangedJobsKept
          DEF CompleteSuccessfulRevoke
<1>7. CASE ProtectMaintainer(w)
  <2> DEFINE row == FinalizeRevokeFailed(grants[sweeper[w].grant],
                                         NextRetryStage(sweeper[w].attempts),
                                         clock + RevokeRetryDelay[4], TRUE)
  <2>1. clock + RevokeRetryDelay[4] \in Nat
    BY <1>a, RepositoryAssumption DEF RetryStages
  <2>2. NextRetryStage(sweeper[w].attempts) \in RetryStages
    BY <1>a, RetryStageBounded DEF SweeperState
  <2>3. Kept(grants[sweeper[w].grant], row)
    BY <1>7, <1>a, <2>1, <2>2, FinalizeRevokeFailedType DEF ProtectMaintainer, Kept
  <2>4. Settle(w, row)
    BY <1>7 DEF ProtectMaintainer
  <2> HIDE DEF row
  <2> QED BY <1>7, <1>a, <2>3, <2>4, SettleType, UnchangedJobsKept DEF ProtectMaintainer
<1>8. CASE AbandonRemoval(w)
  BY <1>8, RevokeReturnsType, UnchangedStoreKept DEF AbandonRemoval
<1>9. CASE BeginCancel(w)
  <2> DEFINE next == [sweeper[w] EXCEPT !.pc = "cancel"]
  <2>1. next \in SweeperState /\ next.grant \in Grants /\ next.lease \in LeaseIds
    BY <1>9, <1>a DEF BeginCancel, FencePassed, SweeperState
  <2>2. Become(w, next)
    BY <1>9 DEF BeginCancel
  <2> HIDE DEF next
  <2> QED BY <1>9, <2>1, <2>2, BecomeType, UnchangedStoreKept DEF BeginCancel
<1>10. CASE CancelRevocation(w)
  <2> DEFINE g == sweeper[w].grant
             waiting == UpdateGrantStatus(grants[g], "pending", "keep")
             cancelled == UpdateMutationState(waiting, "reactivation_required")
             row == ClearRevokeLease(cancelled)
  <2>1. sweeper[w].pc \notin {"idle", "sweep"} /\ g \in Grants /\ grants[g] \in DbGrant
    BY <1>10, <1>a DEF CancelRevocation
  <2>2. waiting \in DbGrant /\ waiting.status = "pending"
        /\ waiting.effective_expires_at = grants[g].effective_expires_at
    BY <2>1, UpdateGrantStatusType DEF GrantStatus
  <2>3. cancelled \in DbGrant /\ cancelled.status = "pending"
        /\ cancelled.effective_expires_at = grants[g].effective_expires_at
    <3> HIDE DEF waiting
    <3> QED BY <2>2, UpdateMutationStateType DEF MutationState
  <2>4. Kept(grants[g], row)
    <3> HIDE DEF cancelled
    <3> QED BY <2>3, ClearRevokeLeaseType DEF Kept
  <2>5. UNCHANGED <<clock, requested, role, origin, faults>>
    BY <1>10 DEF CancelRevocation
  <2>6. CASE IndexAccepts(g, cancelled)
    <3>1. /\ FreeJobs # {} /\ jobs' = CreateJob(g)
          /\ SetGrant(g, row) /\ RevokeReturns(w)
      BY <1>10, <2>6 DEF CancelRevocation
    <3> HIDE DEF row, g
    <3>2. RowsKept /\ JobsKept /\ SweepersTyped'
      BY <3>1, <2>1, <2>4, SetGrantKeeps, CreateJobKeeps, RevokeReturnsType
    <3> QED BY <3>2, <2>5, <1>a
  <2>7. CASE ~IndexAccepts(g, cancelled)
    <3>1. RecordFailure(w) /\ UNCHANGED jobs
      BY <1>10, <2>7 DEF CancelRevocation
    <3> QED BY <3>1, <2>1, <2>5, <1>a, RecordFailureType, UnchangedJobsKept
  <2> QED BY <2>6, <2>7
<1>11. CASE BeginRemoval(w)
  <2> DEFINE next == [sweeper[w] EXCEPT !.pc = "deleting", !.sentAt = clock]
  <2>1. next \in SweeperState /\ next.grant \in Grants /\ next.lease \in LeaseIds
    BY <1>11, <1>a DEF BeginRemoval, FencePassed, SweeperState
  <2>2. Become(w, next)
    BY <1>11 DEF BeginRemoval
  <2> HIDE DEF next
  <2> QED BY <1>11, <2>1, <2>2, BecomeType, UnchangedStoreKept DEF BeginRemoval
<1>12. CASE GitHubRemoves(w)
  <2> DEFINE next == [sweeper[w] EXCEPT !.pc = "deleted"]
  <2>1. next \in SweeperState /\ next.grant \in Grants /\ next.lease \in LeaseIds
    BY <1>12, <1>a DEF GitHubRemoves, SweeperState
  <2>2. Become(w, next)
    BY <1>12 DEF GitHubRemoves
  <2> HIDE DEF next
  <2>3. role' \in Roles /\ origin' \in Origins
    BY <1>12 DEF GitHubRemoves, Roles, Origins
  <2> QED BY <1>12, <1>a, <2>1, <2>2, <2>3, BecomeType, UnchangedKeeps, UnchangedJobsKept
          DEF GitHubRemoves
<1>13. CASE VerifyRemoval(w)
  <2> DEFINE next == [sweeper[w] EXCEPT !.pc = "verified", !.seen = role]
  <2>1. next \in SweeperState /\ next.grant \in Grants /\ next.lease \in LeaseIds
    BY <1>13, <1>a DEF VerifyRemoval, SweeperState
  <2>2. Become(w, next)
    BY <1>13 DEF VerifyRemoval
  <2> HIDE DEF next
  <2> QED BY <1>13, <2>1, <2>2, BecomeType, UnchangedStoreKept DEF VerifyRemoval
<1>14. CASE RemovalNotVerified(w)
  BY <1>14, <1>a, RecordFailureType, UnchangedJobsKept DEF RemovalNotVerified
<1>15. CASE CallFails(w)
  BY <1>15, <1>a, RecordFailureType, UnchangedJobsKept DEF CallFails, Fault
<1>16. CASE CrashSweeper(w)
  <2>1. SweepersTyped'
    BY <1>16, IdleSweeperType, BecomeType DEF CrashSweeper, IdleSweeper
  <2>2. role' \in Roles /\ origin' \in Origins
    BY <1>16, <1>a DEF CrashSweeper, Roles, Origins
  <2> QED BY <1>16, <1>a, <2>1, <2>2, UnchangedKeeps, UnchangedJobsKept
          DEF CrashSweeper, Fault
<1> QED
  BY <1>1, <1>2, <1>3, <1>4, <1>5, <1>6, <1>7, <1>8, <1>9, <1>10, <1>11, <1>12,
     <1>13, <1>14, <1>15, <1>16 DEF SweeperNext, RevokeStep

-----------------------------------------------------------------------------
(* The job workers *)

WorkersTyped == WorkerTypeOK /\ WorkersHaveJobs

LEMMA HandlerReturnsType ==
    ASSUME TypeInv, NEW k \in JobWorkers, HandlerReturns(k), JobsKept
    PROVE  WorkersTyped'
<1>1. IdleWorker \in WorkerState /\ IdleWorker.pc = "idle"
  BY DEF IdleWorker, WorkerState, NoSnapshot, Snapshot, GrantStatus, MutationState, Roles
<1>2. worker' = [worker EXCEPT ![k] = IdleWorker]
  BY DEF HandlerReturns, Proceed
<1> QED
  BY <1>1, <1>2 DEF WorkersTyped, WorkerTypeOK, WorkersHaveJobs, TypeInv, TypeOK, JobsKept

\* A handler that goes on holds the job it has.
LEMMA ProceedType ==
    ASSUME TypeInv, NEW k \in JobWorkers, NEW s \in WorkerState, Proceed(k, s),
           s.job \in JobIds, jobs'[s.job].status # "unused", JobsKept
    PROVE  WorkersTyped'
BY DEF Proceed, WorkersTyped, WorkerTypeOK, WorkersHaveJobs, TypeInv, TypeOK, JobsKept

\* The rows a decision may write, for a handler that has read a role.
LEMMA DecisionsKeep ==
    ASSUME NEW k \in JobWorkers, Row(k) \in DbGrant
    PROVE  /\ Kept(Row(k), Reactivated(k))
           /\ Kept(Row(k), Recovered(k))
           /\ Kept(Row(k), Revalidated(k))
           /\ Kept(Row(k), Activated(Confirmed(Row(k))))
           /\ Kept(Row(k), PresentBefore(Row(k), "maintainer"))
           /\ Kept(Row(k), PresentBefore(Row(k), "member"))
           /\ Kept(Row(k), Confirmed(Elevated(Row(k), "active")))
<1> USE DEF Kept
<1>1. ASSUME NEW row \in DbGrant
      PROVE  /\ Kept(row, Confirmed(row))
             /\ Kept(row, Activated(row)) /\ Activated(row).status = "active"
             /\ \A r \in {"member", "maintainer"} :
                  Kept(row, PresentBefore(row, r)) /\ PresentBefore(row, r).status # "none"
             /\ Confirmed(row).status = row.status
  <2>1. Kept(row, Confirmed(row)) /\ Confirmed(row).status = row.status
    BY UpdateMutationStateType DEF Confirmed, MutationState
  <2>2. Kept(row, Activated(row)) /\ Activated(row).status = "active"
    BY UpdateGrantStatusAndMembershipType DEF Activated, GrantStatus
  <2>3. ASSUME NEW r \in {"member", "maintainer"}
        PROVE  Kept(row, PresentBefore(row, r)) /\ PresentBefore(row, r).status # "none"
    BY UpdateGrantStatusAndMembershipType DEF PresentBefore, GrantStatus
  <2> QED BY <2>1, <2>2, <2>3
<1>2. ASSUME NEW row \in DbGrant, NEW st \in {"active", "revoke_failed"}
      PROVE  Kept(row, Elevated(row, st))
  <2> DEFINE mid == UpdateGrantStatusAndMembership(row, st, 1, NULL)
  <2>1. mid \in DbGrant /\ mid.effective_expires_at = row.effective_expires_at
    BY UpdateGrantStatusAndMembershipType DEF GrantStatus
  <2> HIDE DEF mid
  <2>2. LET new == UpdateGrantStatus(mid, st, "elevated")
        IN  /\ new \in DbGrant /\ new.status = st
            /\ new.effective_expires_at = row.effective_expires_at
    BY <2>1, UpdateGrantStatusType DEF GrantStatus
  <2> QED BY <2>2 DEF Elevated, mid
<1>3. Kept(Row(k), Confirmed(Row(k)))
  BY <1>1
<1>4. Kept(Row(k), Activated(Confirmed(Row(k))))
  <2>1. Kept(Confirmed(Row(k)), Activated(Confirmed(Row(k))))
    BY <1>1, <1>3
  <2> QED BY <1>1, <1>3, <2>1
<1>5. Kept(Row(k), PresentBefore(Confirmed(Row(k)), "member"))
  <2>1. Kept(Confirmed(Row(k)), PresentBefore(Confirmed(Row(k)), "member"))
        /\ PresentBefore(Confirmed(Row(k)), "member").status # "none"
    BY <1>1, <1>3
  <2> QED BY <1>3, <2>1
<1>6. ASSUME NEW st \in {"active", "revoke_failed"}
      PROVE  Kept(Row(k), Elevated(Row(k), st)) /\ Kept(Row(k), Confirmed(Elevated(Row(k), st)))
  <2>1. Kept(Row(k), Elevated(Row(k), st))
    BY <1>2
  <2>2. Kept(Elevated(Row(k), st), Confirmed(Elevated(Row(k), st)))
    BY <1>1, <2>1
  <2> QED BY <2>1, <2>2
<1>7. Kept(Row(k), Reactivated(k))
  BY <1>1, <1>4, <1>5, <1>6 DEF Reactivated
<1>8. Kept(Row(k), Recovered(k))
  BY <1>4, <1>6 DEF Recovered
<1>9. Kept(Row(k), Revalidated(k))
  BY <1>1, <1>6 DEF Revalidated
<1> QED BY <1>1, <1>4, <1>6, <1>7, <1>8, <1>9

LEMMA ClaimedKeeps ==
    ASSUME NEW row \in DbGrant
    PROVE  Kept(row, Claimed(row)) /\ Kept(row, UpdateGrantStatus(Claimed(row), "active", "elevated"))
<1> USE DEF Kept
<1>1. Kept(row, ConfirmMembershipCreatedByAppAfterVerifiedAdd(row))
  BY ConfirmMembershipType
<1>2. Confirmed(row) \in DbGrant
      /\ Confirmed(row).effective_expires_at = row.effective_expires_at
  BY UpdateMutationStateType DEF Confirmed, MutationState
<1>3. Kept(row, Activated(Confirmed(row)))
  BY <1>2, UpdateGrantStatusAndMembershipType DEF Activated, GrantStatus
<1>4. Kept(row, Claimed(row))
  BY <1>1, <1>3 DEF Claimed
<1>5. Kept(row, UpdateGrantStatus(Claimed(row), "active", "elevated"))
  BY <1>4, UpdateGrantStatusType DEF GrantStatus
<1> QED BY <1>4, <1>5

\* A busy handler has a job, the job a grant, the grant a row.
LEMMA BusyWorker ==
    ASSUME TypeInv, NEW k \in JobWorkers, worker[k].pc # "idle"
    PROVE  /\ worker[k] \in WorkerState
           /\ JobOf(k) \in JobIds
           /\ jobs[JobOf(k)].status # "unused"
           /\ GrantOf(k) \in Grants
           /\ Row(k) \in DbGrant
           /\ Row(k) = grants[GrantOf(k)]
BY DEF TypeInv, TypeOK, StoreTypeOK, WorkerTypeOK, WorkersHaveJobs, JobsHaveGrants,
       JobOf, GrantOf, Row

LEMMA JobFailsType ==
    ASSUME TypeInv, NEW k \in JobWorkers, worker[k].pc # "idle", JobFails(k)
    PROVE  RowsKept /\ JobsKept /\ WorkersTyped'
<1>1. Kept(Row(k), UpdateGrantStatus(Row(k), "grant_failed", "other"))
  BY BusyWorker, UpdateGrantStatusType DEF Kept, GrantStatus
<1>2. JobsKept
  BY BusyWorker, JobStatementsKeep DEF JobFails
<1>3. RowsKept
  BY <1>1, BusyWorker, SetGrantKeeps, UnchangedKeeps DEF JobFails
<1>4. WorkersTyped'
  BY <1>2, HandlerReturnsType DEF JobFails
<1> QED BY <1>2, <1>3, <1>4

LEMMA CommitAndCompleteType ==
    ASSUME TypeInv, NEW k \in JobWorkers, worker[k].pc # "idle",
           NEW row, Kept(Row(k), row), CommitAndComplete(k, row)
    PROVE  RowsKept /\ JobsKept /\ WorkersTyped'
<1>1. CASE IndexAccepts(GrantOf(k), row)
  <2>1. JobsKept
    BY <1>1, BusyWorker, JobStatementsKeep DEF CommitAndComplete
  <2>2. RowsKept
    BY <1>1, BusyWorker, SetGrantKeeps DEF CommitAndComplete
  <2> QED BY <1>1, <2>1, <2>2, HandlerReturnsType DEF CommitAndComplete
<1>2. CASE ~IndexAccepts(GrantOf(k), row)
  BY <1>2, JobFailsType DEF CommitAndComplete
<1> QED BY <1>1, <1>2

LEMMA FailGrantType ==
    ASSUME TypeInv, NEW k \in JobWorkers, worker[k].pc # "idle", FailGrant(k)
    PROVE  RowsKept /\ JobsKept /\ WorkersTyped'
<1>1. Kept(Row(k), UpdateGrantStatus(Row(k), "grant_failed", "other"))
  BY BusyWorker, UpdateGrantStatusType DEF Kept, GrantStatus
<1>2. JobsKept
  BY BusyWorker, JobStatementsKeep DEF FailGrant
<1> QED BY <1>1, <1>2, BusyWorker, SetGrantKeeps, HandlerReturnsType DEF FailGrant

LEMMA WorkerStepTypes ==
    ASSUME TypeInv, NEW k \in JobWorkers, WorkerNext(k)
    PROVE  StoreKept /\ WorkersTyped'
<1> USE DEF StoreKept
<1>a. /\ worker[k] \in WorkerState
      /\ clock \in Nat /\ role \in Roles /\ origin \in Origins /\ faults \in Nat
  BY DEF TypeInv, TypeOK, StoreTypeOK, WorkerTypeOK
<1>r. Row(k) \in DbGrant =>
        Kept(Row(k), Row(k)) /\ Kept(Row(k), UpdateMutationState(Row(k), "add_request_sent"))
        /\ Kept(Row(k), UpdateMutationState(Row(k), "add_intent_recorded"))
        /\ Kept(Row(k), UpdateMutationState(Row(k), "not_started"))
  BY UpdateMutationStateType DEF Kept, MutationState
<1>1. ASSUME NEW j \in JobIds, AcquireNextJob(k, j)
      PROVE  StoreKept /\ WorkersTyped'
  <2> DEFINE last == jobs[j].attempt_count + 1 >= MaxAttempts
             next == [IdleWorker EXCEPT !.pc = "acquired", !.job = j, !.last = last]
  <2>1. jobs[j].status # "unused"
    BY <1>1 DEF AcquireNextJob, LockIsStale
  <2>2. JobsKept
    BY <1>1, <2>1, JobStatementsKeep DEF AcquireNextJob
  <2>4. Proceed(k, next)
    BY <1>1 DEF AcquireNextJob
  <2>b. last \in BOOLEAN
    OBVIOUS
  <2> HIDE DEF last
  <2>3. next \in WorkerState /\ next.job = j
    BY <2>b
       DEF IdleWorker, WorkerState, NoSnapshot, Snapshot, GrantStatus, MutationState, Roles
  <2>5. jobs'[j].status # "unused"
    BY <2>1, <2>2 DEF JobsKept
  <2> HIDE DEF next
  <2>6. WorkersTyped'
    BY <2>2, <2>3, <2>4, <2>5, ProceedType
  <2> QED BY <1>1, <1>a, <2>2, <2>6, UnchangedKeeps DEF AcquireNextJob
<1>2. CASE DeferWhileRevoking(k) \/ AlreadySatisfied(k)
  <2>1. worker[k].pc # "idle"
    BY <1>2 DEF DeferWhileRevoking, AlreadySatisfied
  <2>2. JobsKept
    BY <1>2, <2>1, BusyWorker, JobStatementsKeep DEF DeferWhileRevoking, AlreadySatisfied
  <2> QED
    BY <1>2, <1>a, <2>2, UnchangedKeeps, HandlerReturnsType
       DEF DeferWhileRevoking, AlreadySatisfied
<1>3. CASE StartGrantAccess(k)
  <2> DEFINE row == IF Row(k).status = "revoking"
                    THEN ReclaimStrandedReactivation(Row(k)) ELSE Row(k)
             next == [worker[k] EXCEPT
                !.pc = "started",
                !.snap = [status |-> row.status,
                          membership_created_by_app |-> row.membership_created_by_app,
                          membership_mutation_state |-> row.membership_mutation_state]]
  <2>1. worker[k].pc # "idle"
    BY <1>3 DEF StartGrantAccess
  <2>2. Kept(Row(k), row)
    BY <2>1, BusyWorker, ReturnToPendingType DEF Kept, ReclaimStrandedReactivation
  <2>3. SetGrant(GrantOf(k), row) /\ Proceed(k, next) /\ UNCHANGED jobs
    BY <1>3 DEF StartGrantAccess
  <2> HIDE DEF row
  <2>4. row \in DbGrant
    BY <2>2 DEF Kept
  <2>5. next \in WorkerState /\ next.job = JobOf(k)
    BY <1>a, <2>4, RowFields DEF WorkerState, Snapshot, JobOf
  <2> HIDE DEF next
  <2>6. RowsKept
    BY <2>1, <2>2, <2>3, BusyWorker, SetGrantKeeps
  <2>7. WorkersTyped'
    BY <2>1, <2>3, <2>5, BusyWorker, ProceedType, UnchangedJobsKept
  <2> QED BY <1>3, <1>a, <2>6, <2>7, UnchangedJobsKept DEF StartGrantAccess
<1>4. CASE OrganizationMembershipMissing(k)
  BY <1>4, <1>a, FailGrantType DEF OrganizationMembershipMissing, Fault
<1>5. CASE ReadMembership(k)
  <2> DEFINE next == [worker[k] EXCEPT !.pc = "decide", !.seen = role]
  <2>1. worker[k].pc # "idle" /\ Proceed(k, next) /\ UNCHANGED jobs
    BY <1>5 DEF ReadMembership, storeVars
  <2>2. next \in WorkerState /\ next.job = JobOf(k)
    BY <1>a DEF WorkerState, JobOf
  <2> HIDE DEF next
  <2>3. WorkersTyped'
    BY <2>1, <2>2, BusyWorker, ProceedType, UnchangedJobsKept
  <2> QED BY <1>5, <2>3, UnchangedStoreKept DEF ReadMembership
<1>6. CASE MembershipFound(k)
  <2> DEFINE row == CASE Mutation(k) = "reactivation_required" -> Reactivated(k)
                      [] Mutation(k) = "not_started" -> PresentBefore(Row(k), worker[k].seen)
                      [] Uncertain(k) -> Recovered(k)
                      [] Mutation(k) = "membership_confirmed" -> Revalidated(k)
  <2>1. worker[k].pc # "idle" /\ worker[k].seen \in {"member", "maintainer"}
        /\ CommitAndComplete(k, row)
    BY <1>6, <1>a DEF MembershipFound, WorkerState, Roles
  <2>2. Mutation(k) \in MutationState
    BY <1>a DEF WorkerState, Snapshot, Mutation
  <2>3. Kept(Row(k), row)
    BY <2>1, <2>2, BusyWorker, DecisionsKeep DEF MutationState, Uncertain
  <2> HIDE DEF row
  <2> QED BY <1>6, <1>a, <2>1, <2>3, CommitAndCompleteType DEF MembershipFound
<1>7. CASE ConfirmedMembershipMissing(k)
  <2> DEFINE next == [worker[k] EXCEPT !.pc = "failing"]
  <2>1. worker[k].pc # "idle" /\ Proceed(k, next) /\ UNCHANGED jobs
    BY <1>7 DEF ConfirmedMembershipMissing
  <2>2. next \in WorkerState /\ next.job = JobOf(k)
    BY <1>a DEF WorkerState, JobOf
  <2> HIDE DEF next
  <2>3. RowsKept
    BY <1>7, <1>r, <2>1, BusyWorker, SetGrantKeeps DEF ConfirmedMembershipMissing
  <2>4. WorkersTyped'
    BY <2>1, <2>2, BusyWorker, ProceedType, UnchangedJobsKept
  <2> QED BY <1>7, <1>a, <2>3, <2>4, UnchangedJobsKept DEF ConfirmedMembershipMissing
<1>8. CASE SendAdd(k)
  <2> DEFINE next == [worker[k] EXCEPT !.pc = "adding"]
  <2>1. worker[k].pc # "idle" /\ Proceed(k, next) /\ UNCHANGED jobs
    BY <1>8 DEF SendAdd
  <2>2. next \in WorkerState /\ next.job = JobOf(k)
    BY <1>a DEF WorkerState, JobOf
  <2> HIDE DEF next
  <2>3. RowsKept
    BY <1>8, <1>r, <2>1, BusyWorker, SetGrantKeeps DEF SendAdd
  <2>4. WorkersTyped'
    BY <2>1, <2>2, BusyWorker, ProceedType, UnchangedJobsKept
  <2> QED BY <1>8, <1>a, <2>3, <2>4, UnchangedJobsKept DEF SendAdd
<1>9. CASE GitHubAdds(k)
  <2> DEFINE next == [worker[k] EXCEPT !.pc = "added"]
  <2>1. worker[k].pc # "idle" /\ Proceed(k, next) /\ UNCHANGED jobs
    BY <1>9 DEF GitHubAdds
  <2>2. next \in WorkerState /\ next.job = JobOf(k)
    BY <1>a DEF WorkerState, JobOf
  <2> HIDE DEF next
  <2>3. WorkersTyped'
    BY <2>1, <2>2, BusyWorker, ProceedType, UnchangedJobsKept
  <2>4. role' \in Roles /\ origin' \in Origins
    BY <1>9, <1>a DEF GitHubAdds, Roles, Origins
  <2> QED BY <1>9, <1>a, <2>3, <2>4, UnchangedKeeps, UnchangedJobsKept DEF GitHubAdds
<1>10. CASE AddRejected(k)
  BY <1>10, <1>a, FailGrantType DEF AddRejected, Fault
<1>11. CASE VerifyAdd(k)
  <2> DEFINE next == [worker[k] EXCEPT !.pc = "verify", !.seen = role]
  <2>1. worker[k].pc # "idle" /\ Proceed(k, next) /\ UNCHANGED jobs
    BY <1>11 DEF VerifyAdd, storeVars
  <2>2. next \in WorkerState /\ next.job = JobOf(k)
    BY <1>a DEF WorkerState, JobOf
  <2> HIDE DEF next
  <2>3. WorkersTyped'
    BY <2>1, <2>2, BusyWorker, ProceedType, UnchangedJobsKept
  <2> QED BY <1>11, <2>3, UnchangedStoreKept DEF VerifyAdd
<1>12. CASE AddVerified(k)
  <2> DEFINE row == IF worker[k].seen = "maintainer"
                    THEN UpdateGrantStatus(Claimed(Row(k)), "active", "elevated")
                    ELSE Claimed(Row(k))
  <2>1. worker[k].pc # "idle" /\ CommitAndComplete(k, row)
    BY <1>12 DEF AddVerified
  <2>2. Kept(Row(k), row)
    BY <2>1, BusyWorker, ClaimedKeeps
  <2> HIDE DEF row
  <2> QED BY <1>12, <1>a, <2>1, <2>2, CommitAndCompleteType DEF AddVerified
<1>13. CASE AddFails(k)
  <2> DEFINE next == [worker[k] EXCEPT !.pc = "recheck", !.seen = role]
  <2>1. worker[k].pc # "idle" /\ Proceed(k, next) /\ UNCHANGED jobs
    BY <1>13 DEF AddFails
  <2>2. next \in WorkerState /\ next.job = JobOf(k)
    BY <1>a DEF WorkerState, JobOf
  <2> HIDE DEF next
  <2>3. WorkersTyped'
    BY <2>1, <2>2, BusyWorker, ProceedType, UnchangedJobsKept
  <2> QED BY <1>13, <1>a, <2>3, UnchangedKeeps, UnchangedJobsKept DEF AddFails, Fault
<1>14. CASE AddRecovered(k)
  <2> DEFINE row == IF worker[k].seen = "member" THEN Activated(Confirmed(Row(k)))
                    ELSE IF Preexisting(k) THEN PresentBefore(Row(k), "maintainer")
                                           ELSE Confirmed(Elevated(Row(k), "active"))
  <2>1. worker[k].pc # "idle" /\ CommitAndComplete(k, row)
    BY <1>14 DEF AddRecovered
  <2>2. Kept(Row(k), row)
    BY <2>1, BusyWorker, DecisionsKeep
  <2> HIDE DEF row
  <2> QED BY <1>14, <1>a, <2>1, <2>2, CommitAndCompleteType DEF AddRecovered
<1>15. CASE MembershipNotFound(k)
  BY <1>15, <1>a, JobFailsType DEF MembershipNotFound
<1>16. CASE HandlerThrows(k)
  BY <1>16, <1>a, JobFailsType DEF HandlerThrows, Fault
<1>17. CASE CrashWorker(k)
  <2>1. worker[k].pc # "idle" /\ UNCHANGED jobs /\ HandlerReturns(k)
    BY <1>17 DEF CrashWorker
  <2>2. RowsKept
    BY <1>17, <1>r, <2>1, BusyWorker, SetGrantKeeps, UnchangedKeeps DEF CrashWorker
  <2>3. role' \in Roles /\ origin' \in Origins
    BY <1>17, <1>a DEF CrashWorker, Roles, Origins
  <2> QED
    BY <1>17, <1>a, <2>1, <2>2, <2>3, UnchangedJobsKept, HandlerReturnsType
       DEF CrashWorker, Fault
<1> QED
  BY <1>1, <1>2, <1>3, <1>4, <1>5, <1>6, <1>7, <1>8, <1>9, <1>10, <1>11, <1>12,
     <1>13, <1>14, <1>15, <1>16, <1>17 DEF WorkerNext, HandlerStep

-----------------------------------------------------------------------------
(* Approvals *)

\* The linked grant ends no earlier than it did, nor than the new request.
LEMMA ExtendedType ==
    ASSUME NEW row \in DbGrant, NEW e \in Nat
    PROVE  LET new == Extended(row, e)
           IN  /\ new \in DbGrant
               /\ new.effective_expires_at = Later(row.effective_expires_at, e)
               /\ new.status = "none" => row.status = "none"
               /\ new.revoked_at => row.revoked_at
               /\ row.status = "revoking" =>
                    /\ new.status = "revoking"
                    /\ new.revoking_lease_id = row.revoking_lease_id
                    /\ new.revoking_started_at = row.revoking_started_at
               /\ new.membership_created_by_app = row.membership_created_by_app
               /\ IF row.status \in {"revoke_failed", "revoking"}
                  THEN new.membership_mutation_state = "reactivation_required"
                  ELSE new.membership_mutation_state = row.membership_mutation_state
               /\ new.status = IF row.status = "revoke_failed" THEN "pending" ELSE row.status
<1> DEFINE until == Later(row.effective_expires_at, e)
           longer == UpdateGrantExpiresAt(row, until)
<1>1. until \in Nat
  BY RowFields DEF Later
<1>2. /\ longer \in DbGrant
      /\ longer.effective_expires_at = until
      /\ longer.revoked_at = row.revoked_at
      /\ longer.status = row.status
      /\ longer.revoking_lease_id = row.revoking_lease_id
      /\ longer.revoking_started_at = row.revoking_started_at
      /\ longer.membership_created_by_app = row.membership_created_by_app
      /\ longer.membership_mutation_state = row.membership_mutation_state
  <2> HIDE DEF until
  <2> QED BY <1>1, UpdateGrantExpiresAtType
<1>3. Extended(row, e) =
        CASE row.status = "revoke_failed" -> ReactivateGrant(longer, until)
          [] row.status = "revoking" -> UpdateMutationState(longer, "reactivation_required")
          [] OTHER -> longer
  BY <1>2 DEF Extended
<1> HIDE DEF longer, until
<1>4. CASE row.status = "revoke_failed"
  BY <1>1, <1>2, <1>3, <1>4, ReactivateGrantType DEF until
<1>5. CASE row.status = "revoking"
  BY <1>2, <1>3, <1>5, UpdateMutationStateType DEF until, MutationState
<1>6. CASE row.status \notin {"revoke_failed", "revoking"}
  BY <1>2, <1>3, <1>6 DEF until
<1> QED BY <1>4, <1>5, <1>6

LEMMA LaterBounds ==
    ASSUME NEW a \in Nat, NEW b \in Nat
    PROVE  Later(a, b) \in {a, b} /\ a <= Later(a, b) /\ b <= Later(a, b)
BY DEF Later

LEMMA ApproveStep ==
    ASSUME ExpiryInv, NEW g \in Grants, NEW d \in Durations, CreateGrantIntent(g, d)
    PROVE  /\ grants' \in [Grants -> DbGrant]
           /\ requested' \in [Grants -> SUBSET Nat]
           /\ JobsKept
           /\ approved' \in Nat
           /\ NoRowNoRequest' /\ ExpiryCoversRequests'
<1> DEFINE e == clock + d
<1>1. /\ e \in Nat /\ grants \in [Grants -> DbGrant] /\ grants[g] \in DbGrant
      /\ requested \in [Grants -> SUBSET Nat] /\ approved \in Nat
  BY ServiceAssumption DEF ExpiryInv, TypeInv, TypeOK, StoreTypeOK
<1>2. ASSUME NEW row \in DbGrant, SetGrant(g, row), LinkRequest(g, e),
             row.status # "none", \A x \in requested[g] \cup {e} : x <= row.effective_expires_at
      PROVE  /\ grants' \in [Grants -> DbGrant]
             /\ requested' \in [Grants -> SUBSET Nat]
             /\ NoRowNoRequest' /\ ExpiryCoversRequests'
  <2> HIDE DEF e
  <2>1. grants' = [grants EXCEPT ![g] = row]
        /\ requested' = [requested EXCEPT ![g] = requested[g] \cup {e}]
    BY <1>1, <1>2 DEF SetGrant, LinkRequest
  <2> QED BY <1>1, <1>2, <2>1 DEF ExpiryInv, NoRowNoRequest, ExpiryCoversRequests
<1>3. CASE ApproveExisting(g, e)
  <2> DEFINE row == Extended(grants[g], e)
             old == grants[g].effective_expires_at
  <2>1. /\ row \in DbGrant
        /\ row.effective_expires_at = Later(old, e)
        /\ row.status = "none" => grants[g].status = "none"
    BY <1>1, ExtendedType
  <2>2. old \in Nat
    BY <1>1, RowFields
  <2>3. \A x \in requested[g] : x \in Nat /\ x <= old
    BY <1>1 DEF ExpiryInv, ExpiryCoversRequests
  <2>4. grants[g].status # "none"
    BY <1>3 DEF ApproveExisting, ActiveGrants, ManagedStatus
  <2>5. SetGrant(g, row) /\ LinkRequest(g, e)
    BY <1>3 DEF ApproveExisting
  <2> HIDE DEF row
  <2>6. \A x \in requested[g] \cup {e} : x <= row.effective_expires_at
    <3> HIDE DEF old, e
    <3>1. old <= Later(old, e) /\ e <= Later(old, e) /\ Later(old, e) \in Nat
      BY <1>1, <2>2, LaterBounds
    <3> QED BY <1>1, <2>1, <2>2, <2>3, <3>1
  <2>7. JobsKept
    BY <1>3, CreateJobKeeps, UnchangedJobsKept DEF ApproveExisting, ExpiryInv
  <2> QED BY <1>1, <1>2, <2>1, <2>4, <2>5, <2>6, <2>7 DEF CreateGrantIntent
<1>4. CASE ApproveNew(g, e)
  <2> DEFINE row == CreateGrant(e)
  <2>1. row \in DbGrant /\ row.effective_expires_at = e /\ row.status # "none"
    BY <1>1, CreateGrantType
  <2>2. requested[g] = {}
    BY <1>4 DEF ApproveNew, ExpiryInv, NoRowNoRequest
  <2>3. SetGrant(g, row) /\ LinkRequest(g, e)
    BY <1>4 DEF ApproveNew
  <2>4. JobsKept
    BY <1>4, CreateJobKeeps DEF ApproveNew, ExpiryInv
  <2> HIDE DEF row
  <2> QED BY <1>1, <1>2, <2>1, <2>2, <2>3, <2>4 DEF CreateGrantIntent
<1> QED BY <1>3, <1>4 DEF CreateGrantIntent

-----------------------------------------------------------------------------
(* Membership events *)

LEMMA DriftedKept ==
    ASSUME NEW row \in DbGrant
    PROVE  Kept(row, Drifted(row))
<1> USE DEF Kept
<1> DEFINE mid == UpdateGrantStatusAndMembership(row, "active", 1, NULL)
<1>1. mid \in DbGrant /\ mid.status = "active"
      /\ mid.effective_expires_at = row.effective_expires_at
  BY UpdateGrantStatusAndMembershipType DEF GrantStatus
<1>2. Kept(row, UpdateRevocationStatusRevoked(row))
  BY UpdateRevocationStatusRevokedType
<1>3. Kept(row, UpdateGrantStatus(mid, "active", "elevated"))
  <2> HIDE DEF mid
  <2> QED BY <1>1, UpdateGrantStatusType DEF GrantStatus
<1>4. Kept(row, [mid EXCEPT !.elevated = FALSE])
  <2> HIDE DEF mid
  <2> QED BY <1>1 DEF DbGrant
<1> QED BY <1>2, <1>3, <1>4 DEF Drifted

LEMMA WebhookStep ==
    ASSUME TypeInv, Webhook
    PROVE  /\ RowsKept /\ HookTypeOK'
           /\ UNCHANGED <<clock, requested, jobs, role, origin, faults>>
<1>1. ASSUME NEW e \in events, ReadLiveRole(e)
      PROVE  /\ RowsKept /\ HookTypeOK'
             /\ UNCHANGED <<clock, requested, jobs, role, origin, faults>>
  BY <1>1, UnchangedKeeps
     DEF ReadLiveRole, storeVars, HookTypeOK, HookState, TypeInv, TypeOK, StoreTypeOK
<1>2. CASE HandleMembershipEvent
  <2>1. grants \in [Grants -> DbGrant]
    BY DEF TypeInv, TypeOK, StoreTypeOK
  <2>2. \A g \in Grants : grants'[g] = IF g \in ActiveGrants THEN Drifted(grants[g])
                                                           ELSE grants[g]
    BY <1>2 DEF HandleMembershipEvent
  <2>3. \A g \in Grants : Kept(grants[g], grants'[g])
    BY <2>1, <2>2, DriftedKept DEF Kept
  <2>4. grants' \in [Grants -> DbGrant]
    BY <1>2, <2>3 DEF HandleMembershipEvent, Kept
  <2> QED
    BY <1>2, <2>3, <2>4
       DEF HandleMembershipEvent, RowsKept, HookTypeOK, HookState, IdleHook, Roles,
           TypeInv, TypeOK
<1> QED BY <1>1, <1>2 DEF Webhook

-----------------------------------------------------------------------------
(* Assembly *)

LEMMA InitInv == Init => ExpiryInv
<1> SUFFICES ASSUME Init PROVE ExpiryInv
  OBVIOUS
<1>1. StoreTypeOK
  BY NoGrantType DEF Init, StoreInit, StoreTypeOK, Job, Roles, Origins
<1>2. SweeperTypeOK /\ SweepersHaveGrants
  BY IdleSweeperType DEF Init, SweeperInit, SweeperTypeOK, SweepersHaveGrants, IdleSweeper
<1>3. IdleWorker \in WorkerState /\ IdleWorker.pc = "idle"
  BY DEF IdleWorker, WorkerState, NoSnapshot, Snapshot, GrantStatus, MutationState, Roles
<1>4. WorkerTypeOK /\ WorkersHaveJobs
  BY <1>3 DEF Init, WorkerInit, WorkerTypeOK, WorkersHaveJobs
<1>5. approved \in Nat /\ HookTypeOK
  BY DEF Init, HookInit, HookTypeOK, IdleHook, HookState, Roles
<1>6. JobsHaveGrants /\ NoRowNoRequest /\ ExpiryCoversRequests
  BY DEF Init, StoreInit, JobsHaveGrants, NoRowNoRequest, ExpiryCoversRequests
<1> QED BY <1>1, <1>2, <1>4, <1>5, <1>6 DEF ExpiryInv, TypeInv, TypeOK

LEMMA AnnounceType ==
    ASSUME TypeInv, Announce
    PROVE  events' \in SUBSET {"removed", "changed"}
BY DEF Announce, TypeInv, TypeOK, HookTypeOK

\* The workers' invariant does not mind what others do to the jobs.
LEMMA WorkersUndisturbed ==
    ASSUME TypeInv, JobsKept, UNCHANGED worker
    PROVE  WorkersTyped'
BY DEF TypeInv, TypeOK, WorkersTyped, WorkerTypeOK, WorkersHaveJobs, JobsKept

LEMMA SweepersUndisturbed ==
    ASSUME TypeInv, UNCHANGED sweeper
    PROVE  SweepersTyped'
BY DEF TypeInv, TypeOK, SweepersTyped, SweeperTypeOK, SweepersHaveGrants

LEMMA KeptRowsKeepRequests ==
    ASSUME ExpiryInv, RowsKept, UNCHANGED requested
    PROVE  NoRowNoRequest' /\ ExpiryCoversRequests'
BY DEF ExpiryInv, NoRowNoRequest, ExpiryCoversRequests, RowsKept, Kept

LEMMA JobsKeptTyped ==
    ASSUME JobsKept
    PROVE  JobsHaveGrants' /\ jobs' \in [JobIds -> Job]
BY DEF JobsKept, JobsHaveGrants

LEMMA StepInv == ExpiryInv /\ [Next]_vars => ExpiryInv'
<1> SUFFICES ASSUME ExpiryInv, [Next]_vars PROVE ExpiryInv'
  OBVIOUS
<1>a. /\ TypeInv
      /\ clock \in Nat /\ requested \in [Grants -> SUBSET Nat] /\ role \in Roles
      /\ origin \in Origins /\ faults \in Nat /\ approved \in Nat /\ HookTypeOK
  BY DEF ExpiryInv, TypeInv, TypeOK, StoreTypeOK
<1>b. HookTypeOK /\ UNCHANGED hook /\ events' \in SUBSET {"removed", "changed"} => HookTypeOK'
  BY DEF HookTypeOK
<1> USE DEF SweepersTyped, WorkersTyped
<1>1. ASSUME NEW w \in Sweepers, Sweep(w)
      PROVE  ExpiryInv'
  <2>1. SweeperNext(w) /\ Announce /\ UNCHANGED <<worker, approved, hook>>
    BY <1>1 DEF Sweep
  <2>2. StoreKept /\ SweepersTyped'
    BY <1>a, <2>1, SweeperStepTypes
  <2>3. WorkersTyped' /\ JobsHaveGrants' /\ jobs' \in [JobIds -> Job]
    BY <1>a, <2>1, <2>2, WorkersUndisturbed, JobsKeptTyped DEF StoreKept
  <2>4. NoRowNoRequest' /\ ExpiryCoversRequests'
    BY <2>2, KeptRowsKeepRequests DEF StoreKept
  <2>5. HookTypeOK'
    BY <1>a, <1>b, <2>1, AnnounceType
  <2> QED
    BY <1>a, <2>1, <2>2, <2>3, <2>4, <2>5
       DEF StoreKept, RowsKept, ExpiryInv, TypeInv, TypeOK, StoreTypeOK
<1>2. ASSUME NEW k \in JobWorkers, Work(k)
      PROVE  ExpiryInv'
  <2>1. WorkerNext(k) /\ Announce /\ UNCHANGED <<sweeper, approved, hook>>
    BY <1>2 DEF Work
  <2>2. StoreKept /\ WorkersTyped'
    BY <1>a, <2>1, WorkerStepTypes
  <2>3. SweepersTyped' /\ JobsHaveGrants' /\ jobs' \in [JobIds -> Job]
    BY <1>a, <2>1, <2>2, SweepersUndisturbed, JobsKeptTyped DEF StoreKept
  <2>4. NoRowNoRequest' /\ ExpiryCoversRequests'
    BY <2>2, KeptRowsKeepRequests DEF StoreKept
  <2>5. HookTypeOK'
    BY <1>a, <1>b, <2>1, AnnounceType
  <2> QED
    BY <1>a, <2>1, <2>2, <2>3, <2>4, <2>5
       DEF StoreKept, RowsKept, ExpiryInv, TypeInv, TypeOK, StoreTypeOK
<1>3. CASE Approve
  <2>1. PICK g \in Grants, d \in Durations : CreateGrantIntent(g, d)
    BY <1>3 DEF Approve
  <2>2. /\ grants' \in [Grants -> DbGrant]
        /\ requested' \in [Grants -> SUBSET Nat]
        /\ JobsKept /\ approved' \in Nat
        /\ NoRowNoRequest' /\ ExpiryCoversRequests'
    BY <2>1, ApproveStep
  <2>3. /\ UNCHANGED <<sweeper, worker, events, hook>>
        /\ UNCHANGED <<clock, role, origin, faults>>
    BY <1>3, <2>1 DEF Approve, CreateGrantIntent
  <2>4. SweepersTyped' /\ WorkersTyped' /\ JobsHaveGrants' /\ jobs' \in [JobIds -> Job]
    BY <1>a, <2>2, <2>3, SweepersUndisturbed, WorkersUndisturbed, JobsKeptTyped
  <2> QED
    BY <1>a, <2>2, <2>3, <2>4 DEF ExpiryInv, TypeInv, TypeOK, StoreTypeOK, HookTypeOK
<1>4. CASE Webhook
  <2>1. /\ RowsKept /\ HookTypeOK'
        /\ UNCHANGED <<clock, requested, jobs, role, origin, faults>>
        /\ UNCHANGED <<sweeper, worker, approved>>
    BY <1>4, <1>a, WebhookStep DEF Webhook
  <2>2. NoRowNoRequest' /\ ExpiryCoversRequests'
    BY <2>1, KeptRowsKeepRequests
  <2>3. SweepersTyped' /\ WorkersTyped' /\ JobsHaveGrants' /\ jobs' \in [JobIds -> Job]
    BY <1>a, <2>1, SweepersUndisturbed, WorkersUndisturbed, JobsKeptTyped, UnchangedJobsKept
  <2> QED
    BY <1>a, <2>1, <2>2, <2>3 DEF RowsKept, ExpiryInv, TypeInv, TypeOK, StoreTypeOK
<1>5. CASE Promote \/ Demote \/ Depart \/ Arrive
  <2>1. PICK r \in Roles, o \in Origins, c \in Circumstances : OwnerActs(c, r, o)
    BY <1>5, <1>a DEF Promote, Demote, Depart, Arrive, Roles, Origins, Circumstances
  <2>2. /\ role' \in Roles /\ origin' \in Origins /\ faults' \in Nat /\ Announce
        /\ UNCHANGED <<clock, grants, requested, jobs, sweeper, worker, approved, hook>>
    BY <1>a, <2>1 DEF OwnerActs, Fault
  <2>3. SweepersTyped' /\ WorkersTyped' /\ JobsHaveGrants' /\ jobs' \in [JobIds -> Job]
    BY <1>a, <2>2, SweepersUndisturbed, WorkersUndisturbed, JobsKeptTyped, UnchangedJobsKept
  <2>4. RowsKept /\ NoRowNoRequest' /\ ExpiryCoversRequests'
    BY <1>a, <2>2, UnchangedKeeps, KeptRowsKeepRequests
  <2>5. HookTypeOK'
    BY <1>a, <1>b, <2>2, AnnounceType
  <2> QED
    BY <1>a, <2>2, <2>3, <2>4, <2>5 DEF RowsKept, ExpiryInv, TypeInv, TypeOK, StoreTypeOK
<1>6. CASE Tick
  <2>1. /\ clock' \in Nat /\ faults' \in Nat
        /\ UNCHANGED <<grants, requested, jobs, role, origin,
                       sweeper, worker, approved, events, hook>>
    BY <1>6, <1>a DEF Tick, Fault
  <2> QED
    BY <1>a, <2>1
       DEF ExpiryInv, TypeInv, TypeOK, StoreTypeOK, SweeperTypeOK, WorkerTypeOK, HookTypeOK,
           JobsHaveGrants, WorkersHaveJobs, SweepersHaveGrants, NoRowNoRequest,
           ExpiryCoversRequests
<1>7. CASE UNCHANGED vars
  BY <1>7, <1>a
     DEF vars, storeVars, ExpiryInv, TypeInv, TypeOK, StoreTypeOK, SweeperTypeOK,
         WorkerTypeOK, HookTypeOK, JobsHaveGrants, WorkersHaveJobs, SweepersHaveGrants,
         NoRowNoRequest, ExpiryCoversRequests
<1> QED BY <1>1, <1>2, <1>3, <1>4, <1>5, <1>6, <1>7 DEF Next

\* Types, the ids that locals refer to, and expiries that cover their requests
\* hold together in every state, whatever circumstances are admitted.
THEOREM InvariantHolds == Spec => []ExpiryInv
<1> QED BY InitInv, StepInv, PTL DEF Spec

\* Whatever is admitted, every table, handler and run keeps its type: no code
\* path writes a status, a retry stage or a role that has no meaning.
THEOREM TypeCorrect == Spec => []TypeOK
<1>1. ExpiryInv => TypeOK
  BY DEF ExpiryInv, TypeInv
<1> QED BY <1>1, InvariantHolds, PTL

\* Whatever is admitted, no approved request is cut short: a grant never ends
\* before a request that createGrantIntentTx has linked to it, through all
\* extensions, reactivations, hand-backs and failures.
THEOREM ExpiryCovers == Spec => []ExpiryCoversRequests
<1>1. ExpiryInv => ExpiryCoversRequests
  BY DEF ExpiryInv
<1> QED BY <1>1, InvariantHolds, PTL
-----------------------------------------------------------------------------
(* Members of long standing.  As long as such a member has not left, every  *)
(* grant is either untouched or known not to be the app's, so that no run   *)
(* gets past its first branch and no handler finds the member missing.      *)

\* Webhooks tell the app of role changes, but not both of webhooks and role
\* changes are admitted: a "member" event makes any grant the app's.
Protecting == ~({"webhook", "promotion"} \subseteq Admits)

Foreign(row) == row.membership_created_by_app = 0

Harmless(row) ==
    \/ Foreign(row) /\ row.status # "none"
    \/ /\ ~Foreign(row)
       /\ row.membership_mutation_state = "not_started"
       /\ row.status \in {"none", "pending", "grant_failed"}

RunStopsShort(s) == s.pc \in {"idle", "sweep"} \/ (s.pc = "leased" /\ s.byApp = 0)

RunHarmless(w) == RunStopsShort(sweeper[w])

HandlerHarmless(k) ==
    /\ worker[k].pc \in {"idle", "acquired", "started", "decide"}
    /\ worker[k].pc = "decide" => worker[k].seen # "none"
    /\ worker[k].pc \in {"started", "decide"} =>
          Mutation(k) = "not_started" \/ (Preexisting(k) /\ Foreign(Row(k)))

Untouched ==
    /\ role # "none" /\ events = {} /\ hook.pc = "idle"
    /\ \A g \in Grants : Harmless(grants[g])
    /\ \A w \in Sweepers : RunHarmless(w)
    /\ \A k \in JobWorkers : HandlerHarmless(k)

ProtectInv == origin = "preexisting" => Untouched

\* A step that leaves every row harmless and gives no membership to the app.
RowsStayHarmless ==
    \A g \in Grants : Harmless(grants'[g]) /\ (Foreign(grants[g]) => Foreign(grants'[g]))

LEMMA SetGrantHarmless ==
    ASSUME TypeInv, Untouched, NEW g \in Grants, NEW new, Harmless(new),
           Foreign(grants[g]) => Foreign(new), SetGrant(g, new)
    PROVE  RowsStayHarmless
<1>1. grants \in [Grants -> DbGrant]
  BY DEF TypeInv, TypeOK, StoreTypeOK
<1>2. \A h \in Grants : grants'[h] = IF h = g THEN new ELSE grants[h]
  BY <1>1 DEF SetGrant
<1> QED BY <1>2 DEF RowsStayHarmless, Untouched

LEMMA UnchangedHarmless ==
    ASSUME Untouched, UNCHANGED grants
    PROVE  RowsStayHarmless
BY DEF RowsStayHarmless, Untouched

LEMMA RunHarmlessAfter ==
    ASSUME TypeInv, Untouched, NEW w \in Sweepers, NEW s, Become(w, s), RunStopsShort(s)
    PROVE  \A v \in Sweepers : RunHarmless(v)'
<1>1. \A v \in Sweepers : sweeper'[v] = IF v = w THEN s ELSE sweeper[v]
  BY DEF Become, TypeInv, TypeOK, SweeperTypeOK
<1> QED BY <1>1 DEF RunHarmless, Untouched

\* A run ends where it begins: the membership is not the app's.
LEMMA SweepHarmless ==
    ASSUME TypeInv, Untouched, NEW w \in Sweepers, SweeperNext(w)
    PROVE  /\ RowsStayHarmless
           /\ \A v \in Sweepers : RunHarmless(v)'
           /\ UNCHANGED <<role, origin>>
<1>a. /\ sweeper[w] \in SweeperState /\ RunHarmless(w)
      /\ grants \in [Grants -> DbGrant]
  BY DEF TypeInv, TypeOK, StoreTypeOK, SweeperTypeOK, Untouched
<1>1. CASE SweepStart(w)
  <2>1. PICK todo : Become(w, [IdleSweeper EXCEPT !.pc = "sweep", !.now = clock, !.todo = todo])
    BY <1>1 DEF SweepStart
  <2>2. RunStopsShort([IdleSweeper EXCEPT !.pc = "sweep", !.now = clock, !.todo = todo])
    BY DEF IdleSweeper, RunStopsShort
  <2> QED
    BY <1>1, <2>1, <2>2, RunHarmlessAfter, UnchangedHarmless DEF SweepStart, storeVars
<1>2. ASSUME NEW g \in Grants, SkipGrant(w, g)
      PROVE  /\ RowsStayHarmless
             /\ \A v \in Sweepers : RunHarmless(v)'
             /\ UNCHANGED <<role, origin>>
  <2> DEFINE rest == sweeper[w].todo \ {g}
             s == IF rest = {} THEN IdleSweeper ELSE [sweeper[w] EXCEPT !.todo = rest]
  <2>1. Become(w, s) /\ UNCHANGED <<grants, role, origin>>
    BY <1>2 DEF SkipGrant, storeVars
  <2>2. RunStopsShort(s)
    BY <1>a, <1>2 DEF SkipGrant, IdleSweeper, SweeperState, RunStopsShort
  <2> HIDE DEF s
  <2> QED BY <2>1, <2>2, RunHarmlessAfter, UnchangedHarmless
<1>3. ASSUME NEW g \in Grants, NEW l \in LeaseIds, AcquireLease(w, g, l)
      PROVE  /\ RowsStayHarmless
             /\ \A v \in Sweepers : RunHarmless(v)'
             /\ UNCHANGED <<role, origin>>
  <2> DEFINE new == AcquireRevokeLease(grants[g], l, sweeper[w].now)
             s == [sweeper[w] EXCEPT
                    !.pc = "leased", !.todo = @ \ {g}, !.grant = g, !.lease = l,
                    !.byApp = grants[g].membership_created_by_app,
                    !.attempts = grants[g].revoke_attempt_count]
  <2>1. SetGrant(g, new) /\ Become(w, s) /\ UNCHANGED <<role, origin>>
    BY <1>3 DEF AcquireLease
  <2>2. grants[g].status \in {"active", "revoke_failed", "already_present", "revoking"}
    BY <1>3 DEF AcquireLease, Revocable, LeaseAvailable
  <2>3. Foreign(grants[g])
    BY <2>2 DEF Untouched, Harmless
  <2>4. Foreign(new) /\ new.status = "revoking"
    BY <1>a, <2>3, AcquireRevokeLeaseType DEF Foreign, SweeperState
  <2>5. RunStopsShort(s)
    BY <1>a, <2>3 DEF Foreign, SweeperState, RunStopsShort
  <2> HIDE DEF s, new
  <2> QED BY <2>1, <2>4, <2>5, SetGrantHarmless, RunHarmlessAfter DEF Harmless
<1>4. ASSUME RevokeReturns(w)
      PROVE  \A v \in Sweepers : RunHarmless(v)'
  <2> DEFINE s == IF sweeper[w].todo = {} THEN IdleSweeper
                  ELSE [IdleSweeper EXCEPT !.pc = "sweep", !.now = sweeper[w].now,
                                           !.todo = sweeper[w].todo]
  <2>1. Become(w, s) /\ RunStopsShort(s)
    BY <1>4 DEF RevokeReturns, IdleSweeper, RunStopsShort
  <2> HIDE DEF s
  <2> QED BY <2>1, RunHarmlessAfter
<1>5. CASE FinishPreexisting(w)
  <2> DEFINE g == sweeper[w].grant
             new == FinalizeRevoked(grants[g])
             left == IF OwnsLease(w) THEN new ELSE grants[g]
  <2>1. /\ g \in Grants /\ SetGrant(g, left) /\ RevokeReturns(w)
        /\ UNCHANGED <<role, origin>>
    BY <1>5 DEF FinishPreexisting, Settle, TypeInv, SweepersHaveGrants
  <2>2. Harmless(left) /\ (Foreign(grants[g]) => Foreign(left))
    <3>1. CASE OwnsLease(w)
      <4>1. grants[g].status = "revoking" /\ Harmless(grants[g])
        BY <2>1, <3>1 DEF OwnsLease, OwnsRevokeLease, Untouched
      <4>2. Foreign(grants[g])
        BY <4>1 DEF Harmless
      <4>3. Foreign(new) /\ new.status = "revoked"
        BY <1>a, <2>1, <4>2, FinalizeRevokedType DEF Foreign
      <4> QED BY <3>1, <4>3 DEF Harmless
    <3>2. CASE ~OwnsLease(w)
      BY <2>1, <3>2 DEF Untouched
    <3> QED BY <3>1, <3>2
  <2> HIDE DEF left, g
  <2> QED BY <1>4, <2>1, <2>2, SetGrantHarmless
<1>6. CASE CrashSweeper(w)
  <2>1. /\ Become(w, IdleSweeper) /\ RunStopsShort(IdleSweeper)
        /\ UNCHANGED <<grants, role, origin>>
    BY <1>6, <1>a DEF CrashSweeper, RunHarmless, IdleSweeper, RunStopsShort
  <2> QED BY <2>1, RunHarmlessAfter, UnchangedHarmless
<1>7. \/ sweeper[w].pc \in {"idle", "sweep"}
      \/ sweeper[w].pc = "leased" /\ sweeper[w].byApp = 0
  BY <1>a DEF RunHarmless, RunStopsShort
<1>8. /\ ~ReadRole(w) /\ ~CompleteSuccessfulRevoke(w) /\ ~ProtectMaintainer(w)
      /\ ~AbandonRemoval(w) /\ ~BeginCancel(w) /\ ~BeginRemoval(w)
  <2>1. ~ReadRole(w)
    BY <1>7 DEF ReadRole
  <2>2. ~CompleteSuccessfulRevoke(w) /\ ~ProtectMaintainer(w)
    BY <1>7 DEF CompleteSuccessfulRevoke, ProtectMaintainer
  <2>3. ~AbandonRemoval(w) /\ ~BeginCancel(w) /\ ~BeginRemoval(w)
    BY <1>7 DEF AbandonRemoval, BeginCancel, BeginRemoval, FencePassed
  <2> QED
    BY <2>1, <2>2, <2>3
<1>9. /\ ~CancelRevocation(w) /\ ~GitHubRemoves(w) /\ ~VerifyRemoval(w)
      /\ ~RemovalNotVerified(w) /\ ~CallFails(w)
  <2>1. ~CancelRevocation(w)
    BY <1>7 DEF CancelRevocation
  <2>2. ~GitHubRemoves(w) /\ ~VerifyRemoval(w) /\ ~RemovalNotVerified(w)
    BY <1>7 DEF GitHubRemoves, VerifyRemoval, RemovalNotVerified
  <2>3. ~CallFails(w)
    BY <1>7 DEF CallFails
  <2> QED
    BY <2>1, <2>2, <2>3
<1> QED
  BY <1>1, <1>2, <1>3, <1>5, <1>6, <1>8, <1>9 DEF SweeperNext, RevokeStep

\* The row of a membership that a handler has found not to be the app's.
Disowned(row) == Foreign(row) /\ row.status # "none"

LEMMA StatementsHarmless ==
    ASSUME NEW row \in DbGrant
    PROVE  /\ Foreign(row) => Foreign(Confirmed(row))
           /\ \A r \in {"member", "maintainer"} : Disowned(PresentBefore(row, r))
           /\ Foreign(row) => Disowned(Activated(row))
           /\ \A st \in {"active", "revoke_failed"} : Foreign(row) => Disowned(Elevated(row, st))
           /\ Confirmed(row) \in DbGrant
           /\ \A st \in {"active", "revoke_failed"} : Elevated(row, st) \in DbGrant
<1>1. Confirmed(row) \in DbGrant /\ (Foreign(row) => Foreign(Confirmed(row)))
  BY UpdateMutationStateType DEF Confirmed, MutationState, Foreign
<1>2. ASSUME NEW r \in {"member", "maintainer"}
      PROVE  Disowned(PresentBefore(row, r))
  BY UpdateGrantStatusAndMembershipType DEF PresentBefore, GrantStatus, Foreign, Disowned
<1>3. Foreign(row) => Disowned(Activated(row))
  BY UpdateGrantStatusAndMembershipType DEF Activated, GrantStatus, Foreign, Disowned
<1>4. ASSUME NEW st \in {"active", "revoke_failed"}
      PROVE  Elevated(row, st) \in DbGrant /\ (Foreign(row) => Disowned(Elevated(row, st)))
  <2> DEFINE mid == UpdateGrantStatusAndMembership(row, st, 1, NULL)
  <2>1. mid \in DbGrant /\ (Foreign(row) => Foreign(mid))
    BY UpdateGrantStatusAndMembershipType DEF GrantStatus, Foreign
  <2> HIDE DEF mid
  <2>2. LET new == UpdateGrantStatus(mid, st, "elevated")
        IN  new \in DbGrant /\ (Foreign(mid) => Disowned(new))
    BY <2>1, UpdateGrantStatusType DEF GrantStatus, Foreign, Disowned
  <2> QED BY <2>1, <2>2 DEF Elevated, mid
<1> QED BY <1>1, <1>2, <1>3, <1>4

\* What a handler makes of a role it has found.
LEMMA FoundHarmless ==
    ASSUME NEW k \in JobWorkers, Row(k) \in DbGrant,
           worker[k].seen \in {"member", "maintainer"},
           Mutation(k) = "not_started" \/ (Preexisting(k) /\ Foreign(Row(k))),
           Mutation(k) \in MutationState
    PROVE  Disowned(CASE Mutation(k) = "reactivation_required" -> Reactivated(k)
                      [] Mutation(k) = "not_started" -> PresentBefore(Row(k), worker[k].seen)
                      [] Uncertain(k) -> Recovered(k)
                      [] Mutation(k) = "membership_confirmed" -> Revalidated(k))
<1>1. \A r \in {"member", "maintainer"} : Disowned(PresentBefore(Row(k), r))
  BY StatementsHarmless
<1>2. ASSUME Foreign(Row(k)), Preexisting(k)
      PROVE  Disowned(Reactivated(k)) /\ Disowned(Recovered(k)) /\ Disowned(Revalidated(k))
  <2>1. Confirmed(Row(k)) \in DbGrant /\ Foreign(Confirmed(Row(k)))
    BY <1>2, StatementsHarmless
  <2>2. /\ Disowned(PresentBefore(Confirmed(Row(k)), "member"))
        /\ Disowned(Activated(Confirmed(Row(k)))) /\ Disowned(Activated(Row(k)))
        /\ Disowned(Elevated(Row(k), "active"))
    BY <1>2, <2>1, StatementsHarmless
  <2> QED
    BY <1>1, <1>2, <2>2 DEF Reactivated, Recovered, Revalidated
<1> QED
  BY <1>1, <1>2 DEF MutationState, Uncertain

LEMMA HandlerUndisturbed ==
    ASSUME TypeInv, Untouched, RowsStayHarmless, JobsKept, NEW k \in JobWorkers,
           worker'[k] = worker[k]
    PROVE  HandlerHarmless(k)'
<1>1. HandlerHarmless(k)
  BY DEF Untouched
<1>2. CASE worker[k].pc \in {"started", "decide"}
  <2>1. GrantOf(k)' = GrantOf(k) /\ GrantOf(k) \in Grants
    BY <1>2, BusyWorker DEF JobsKept, GrantOf, JobOf
  <2>2. Foreign(Row(k)) => Foreign(Row(k)')
    BY <2>1 DEF RowsStayHarmless, Row
  <2> QED BY <1>1, <1>2, <2>2 DEF HandlerHarmless, Mutation, Preexisting
<1>3. CASE worker[k].pc \notin {"started", "decide"}
  BY <1>1, <1>3 DEF HandlerHarmless
<1> QED BY <1>2, <1>3

\* A handler finds the member, and never adds one.
LEMMA WorkHarmless ==
    ASSUME TypeInv, Untouched, NEW k \in JobWorkers, WorkerNext(k)
    PROVE  /\ RowsStayHarmless
           /\ \A i \in JobWorkers : HandlerHarmless(i)'
           /\ UNCHANGED <<role, origin>>
<1>a. /\ worker[k] \in WorkerState /\ HandlerHarmless(k)
      /\ worker \in [JobWorkers -> WorkerState]
      /\ grants \in [Grants -> DbGrant]
      /\ role \in Roles /\ role # "none"
  BY DEF TypeInv, TypeOK, StoreTypeOK, WorkerTypeOK, Untouched
<1>b. JobsKept /\ WorkersTyped'
  BY WorkerStepTypes DEF StoreKept
<1>c. ASSUME worker[k].pc # "idle"
      PROVE  Harmless(Row(k)) /\ Row(k) = grants[GrantOf(k)] /\ GrantOf(k) \in Grants
             /\ Row(k) \in DbGrant
  BY <1>c, BusyWorker DEF Untouched
<1>d. ASSUME NEW s, Proceed(k, s), RowsStayHarmless, HandlerHarmless(k)'
      PROVE  \A i \in JobWorkers : HandlerHarmless(i)'
  <2>1. \A i \in JobWorkers \ {k} : worker'[i] = worker[i]
    BY <1>a, <1>d DEF Proceed
  <2> QED BY <1>b, <1>d, <2>1, HandlerUndisturbed
<1>e. ASSUME HandlerReturns(k), RowsStayHarmless
      PROVE  \A i \in JobWorkers : HandlerHarmless(i)'
  <2>1. worker'[k] = IdleWorker /\ IdleWorker.pc = "idle"
    BY <1>a, <1>e DEF HandlerReturns, Proceed, IdleWorker
  <2> QED BY <1>d, <1>e, <2>1 DEF HandlerReturns, HandlerHarmless
<1>f. ASSUME worker[k].pc # "idle", NEW row \in DbGrant, Harmless(row),
             Foreign(Row(k)) => Foreign(row),
             SetGrant(GrantOf(k), row)
             \/ SetGrant(GrantOf(k), UpdateGrantStatus(row, "grant_failed", "other"))
      PROVE  RowsStayHarmless
  <2> DEFINE failed == UpdateGrantStatus(row, "grant_failed", "other")
  <2>1. Harmless(failed) /\ (Foreign(row) => Foreign(failed))
    BY <1>f, UpdateGrantStatusType DEF Harmless, Foreign, GrantStatus
  <2> HIDE DEF failed
  <2> QED BY <1>c, <1>f, <2>1, SetGrantHarmless DEF failed
<1>g. ASSUME worker[k].pc # "idle", JobFails(k)
      PROVE  RowsStayHarmless /\ HandlerReturns(k)
  BY <1>c, <1>f, <1>g, UnchangedHarmless DEF JobFails
<1>1. ASSUME NEW j \in JobIds, AcquireNextJob(k, j)
      PROVE  /\ RowsStayHarmless
             /\ \A i \in JobWorkers : HandlerHarmless(i)'
             /\ UNCHANGED <<role, origin>>
  <2> DEFINE s == [IdleWorker EXCEPT !.pc = "acquired", !.job = j,
                                      !.last = jobs[j].attempt_count + 1 >= MaxAttempts]
  <2>1. Proceed(k, s) /\ s.pc = "acquired" /\ UNCHANGED <<grants, role, origin>>
    BY <1>1 DEF AcquireNextJob, IdleWorker
  <2> HIDE DEF s
  <2>2. worker'[k].pc = "acquired"
    BY <1>a, <2>1 DEF Proceed
  <2>3. HandlerHarmless(k)'
    BY <2>2 DEF HandlerHarmless
  <2> QED BY <1>d, <2>1, <2>3, UnchangedHarmless
<1>2. CASE DeferWhileRevoking(k) \/ AlreadySatisfied(k)
  BY <1>2, <1>e, UnchangedHarmless DEF DeferWhileRevoking, AlreadySatisfied
<1>3. CASE StartGrantAccess(k)
  <2> DEFINE row == IF Row(k).status = "revoking"
                    THEN ReclaimStrandedReactivation(Row(k)) ELSE Row(k)
             s == [worker[k] EXCEPT
                !.pc = "started",
                !.snap = [status |-> row.status,
                          membership_created_by_app |-> row.membership_created_by_app,
                          membership_mutation_state |-> row.membership_mutation_state]]
  <2>1. /\ worker[k].pc = "acquired" /\ SetGrant(GrantOf(k), row) /\ Proceed(k, s)
        /\ UNCHANGED <<jobs, role, origin>>
    BY <1>3 DEF StartGrantAccess
  <2>2. Row(k) \in DbGrant /\ Harmless(Row(k))
    BY <1>c, <2>1
  <2>3. row \in DbGrant /\ Harmless(row) /\ (Foreign(Row(k)) => Foreign(row))
    BY <2>2, ReturnToPendingType DEF ReclaimStrandedReactivation, Harmless, Foreign
  <2> HIDE DEF row
  <2>4. /\ s.pc = "started" /\ s.job = worker[k].job
        /\ s.snap.membership_created_by_app = row.membership_created_by_app
        /\ s.snap.membership_mutation_state = row.membership_mutation_state
    BY <1>a DEF WorkerState
  <2> HIDE DEF s
  <2>5. worker'[k] = s
    BY <1>a, <2>1 DEF Proceed
  <2>6. RowsStayHarmless
    BY <1>f, <2>1, <2>3
  <2>7. Row(k)' = row
    BY <1>a, <1>c, <2>1, <2>4, <2>5 DEF SetGrant, Row, GrantOf, JobOf
  <2>8. HandlerHarmless(k)'
    <3>1. worker'[k].pc = "started"
      BY <2>4, <2>5
    <3>2. Foreign(row) => Preexisting(k)'
      BY <2>4, <2>5 DEF Foreign, Preexisting
    <3>3. ~Foreign(row) => Mutation(k)' = "not_started"
      BY <2>3, <2>4, <2>5 DEF Harmless, Mutation
    <3>4. Foreign(Row(k))' = Foreign(row)
      BY <2>7 DEF Foreign
    <3> QED
      BY <3>1, <3>2, <3>3, <3>4 DEF HandlerHarmless
  <2> QED BY <1>d, <2>1, <2>6, <2>8
<1>4. CASE ReadMembership(k)
  <2> DEFINE s == [worker[k] EXCEPT !.pc = "decide", !.seen = role]
  <2>1. /\ worker[k].pc = "started" /\ Proceed(k, s)
        /\ UNCHANGED <<grants, jobs, role, origin>>
    BY <1>4 DEF ReadMembership, storeVars
  <2>2. s.pc = "decide" /\ s.seen # "none" /\ s.job = worker[k].job /\ s.snap = worker[k].snap
    BY <1>a DEF WorkerState
  <2> HIDE DEF s
  <2>3. worker'[k] = s
    BY <1>a, <2>1 DEF Proceed
  <2>4. Row(k)' = Row(k)
    BY <2>1, <2>2, <2>3 DEF Row, GrantOf, JobOf
  <2>5. HandlerHarmless(k)'
    BY <1>a, <2>1, <2>2, <2>3, <2>4 DEF HandlerHarmless, Mutation, Preexisting
  <2> QED BY <1>d, <2>1, <2>5, UnchangedHarmless
<1>5. CASE MembershipFound(k)
  <2> DEFINE row == CASE Mutation(k) = "reactivation_required" -> Reactivated(k)
                      [] Mutation(k) = "not_started" -> PresentBefore(Row(k), worker[k].seen)
                      [] Uncertain(k) -> Recovered(k)
                      [] Mutation(k) = "membership_confirmed" -> Revalidated(k)
  <2>1. /\ worker[k].pc = "decide" /\ worker[k].seen \in {"member", "maintainer"}
        /\ CommitAndComplete(k, row) /\ UNCHANGED <<role, origin>>
    BY <1>5, <1>a DEF MembershipFound, WorkerState, Roles
  <2>2. Mutation(k) \in MutationState
    BY <1>a DEF WorkerState, Snapshot, Mutation
  <2>3. Kept(Row(k), row) /\ Disowned(row)
    <3>1. Disowned(row)
      BY <1>a, <1>c, <2>1, <2>2, FoundHarmless DEF HandlerHarmless
    <3>2. Kept(Row(k), row)
      BY <1>c, <2>1, <2>2, DecisionsKeep DEF MutationState, Uncertain
    <3> QED BY <3>1, <3>2
  <2> HIDE DEF row
  <2>4. row \in DbGrant /\ Harmless(row) /\ Foreign(row)
    BY <2>3 DEF Kept, Harmless, Disowned
  <2>5. RowsStayHarmless /\ HandlerReturns(k)
    BY <1>f, <1>g, <2>1, <2>3, <2>4 DEF CommitAndComplete
  <2> QED BY <1>e, <2>1, <2>5
<1>6. CASE HandlerThrows(k)
  BY <1>6, <1>e, <1>g DEF HandlerThrows
<1>7. CASE CrashWorker(k)
  BY <1>7, <1>a, <1>e, UnchangedHarmless DEF CrashWorker, HandlerHarmless
<1> QED
  BY <1>a, <1>1, <1>2, <1>3, <1>4, <1>5, <1>6, <1>7
     DEF WorkerNext, HandlerStep, HandlerHarmless, OrganizationMembershipMissing,
         ConfirmedMembershipMissing, SendAdd, GitHubAdds, AddRejected, VerifyAdd,
         AddVerified, AddFails, AddRecovered, MembershipNotFound

LEMMA CreateGrantOurs ==
    ASSUME NEW e
    PROVE  CreateGrant(e).membership_created_by_app = 1
BY DEF CreateGrant, NoGrant

LEMMA ApproveHarmless ==
    ASSUME TypeInv, Untouched, NEW g \in Grants, NEW d \in Durations, CreateGrantIntent(g, d)
    PROVE  RowsStayHarmless /\ JobsKept
<1> DEFINE e == clock + d
<1>1. e \in Nat /\ grants[g] \in DbGrant /\ Harmless(grants[g])
  BY ServiceAssumption DEF TypeInv, TypeOK, StoreTypeOK, Untouched
<1> HIDE DEF e
<1>2. CASE ApproveExisting(g, e)
  <2> DEFINE new == Extended(grants[g], e)
  <2>1. /\ new.membership_created_by_app = grants[g].membership_created_by_app
        /\ new.status = "none" => grants[g].status = "none"
        /\ grants[g].status \notin {"revoke_failed", "revoking"} =>
              /\ new.status = grants[g].status
              /\ new.membership_mutation_state = grants[g].membership_mutation_state
    BY <1>1, ExtendedType
  <2>2. SetGrant(g, new)
    BY <1>2 DEF ApproveExisting
  <2> HIDE DEF new
  <2>3. Harmless(new) /\ (Foreign(grants[g]) => Foreign(new))
    BY <1>1, <2>1 DEF Harmless, Foreign
  <2>4. JobsKept
    BY <1>2, CreateJobKeeps, UnchangedJobsKept DEF ApproveExisting
  <2> QED BY <2>2, <2>3, <2>4, SetGrantHarmless
<1>3. CASE ApproveNew(g, e)
  <2> DEFINE new == CreateGrant(e)
  <2>1. SetGrant(g, new) /\ JobsKept
    BY <1>3, CreateJobKeeps DEF ApproveNew
  <2>2. new.status = "pending" /\ new.membership_mutation_state = "not_started"
    BY <1>1, CreateGrantType
  <2> HIDE DEF new
  <2>3. ~Foreign(grants[g]) /\ ~Foreign(new)
    BY <1>1, <1>3, CreateGrantOurs DEF ApproveNew, Harmless, Foreign, new
  <2> QED BY <2>1, <2>2, <2>3, SetGrantHarmless DEF Harmless
<1> QED BY <1>2, <1>3 DEF CreateGrantIntent, e

\* Nothing makes a membership one of long standing.
LEMMA OriginStays ==
    ASSUME [Next]_vars, origin' = "preexisting"
    PROVE  origin = "preexisting"
<1>1. ASSUME NEW w \in Sweepers, Sweep(w) PROVE origin = "preexisting"
  BY <1>1
     DEF Sweep, SweeperNext, SweepStart, RevokeStep, SkipGrant, AcquireLease,
         FinishPreexisting, ReadRole, CompleteSuccessfulRevoke, ProtectMaintainer,
         AbandonRemoval, BeginCancel, CancelRevocation, BeginRemoval, GitHubRemoves,
         VerifyRemoval, RemovalNotVerified, CallFails, CrashSweeper, storeVars
<1>2. ASSUME NEW k \in JobWorkers, Work(k) PROVE origin = "preexisting"
  BY <1>2
     DEF Work, WorkerNext, HandlerStep, AcquireNextJob, DeferWhileRevoking, AlreadySatisfied,
         StartGrantAccess, ReadMembership, MembershipFound, ConfirmedMembershipMissing,
         SendAdd, GitHubAdds, VerifyAdd, AddVerified, AddRecovered, MembershipNotFound,
         OrganizationMembershipMissing, AddRejected, AddFails, HandlerThrows, CrashWorker,
         storeVars
<1>3. CASE Approve
  BY <1>3 DEF Approve, CreateGrantIntent
<1>4. CASE Webhook
  BY <1>4 DEF Webhook, ReadLiveRole, HandleMembershipEvent, storeVars
<1>5. CASE Promote \/ Demote \/ Depart \/ Arrive
  BY <1>5 DEF Promote, Demote, Depart, Arrive, OwnerActs
<1>6. CASE Tick \/ UNCHANGED vars
  BY <1>6 DEF Tick, vars, storeVars
<1> QED BY <1>1, <1>2, <1>3, <1>4, <1>5, <1>6 DEF Next

LEMMA ProtectStep ==
    ASSUME Protecting, TypeInv, ProtectInv, [Next]_vars
    PROVE  ProtectInv'
<1> SUFFICES ASSUME origin' = "preexisting"
             PROVE  Untouched'
  BY DEF ProtectInv
<1>a. Untouched /\ origin = "preexisting"
  BY OriginStays DEF ProtectInv
<1>b. ASSUME RowsStayHarmless
      PROVE  \A g \in Grants : Harmless(grants[g])'
  BY <1>b DEF RowsStayHarmless
<1>c. ASSUME UNCHANGED sweeper
      PROVE  \A w \in Sweepers : RunHarmless(w)'
  BY <1>a, <1>c DEF Untouched, RunHarmless
<1>d. ASSUME UNCHANGED worker, JobsKept, RowsStayHarmless
      PROVE  \A k \in JobWorkers : HandlerHarmless(k)'
  BY <1>a, <1>d, HandlerUndisturbed
<1>e. role' = role /\ Announce => UNCHANGED events
  BY DEF Announce
<1>1. ASSUME NEW w \in Sweepers, Sweep(w)
      PROVE  Untouched'
  <2>1. /\ RowsStayHarmless /\ \A v \in Sweepers : RunHarmless(v)'
        /\ UNCHANGED <<role, worker, hook>> /\ Announce
    BY <1>a, <1>1, SweepHarmless DEF Sweep
  <2>2. JobsKept
    BY <1>1, SweeperStepTypes DEF Sweep, StoreKept
  <2> QED BY <1>a, <1>b, <1>d, <1>e, <2>1, <2>2 DEF Untouched
<1>2. ASSUME NEW k \in JobWorkers, Work(k)
      PROVE  Untouched'
  <2>1. /\ RowsStayHarmless /\ \A i \in JobWorkers : HandlerHarmless(i)'
        /\ UNCHANGED <<role, sweeper, hook>> /\ Announce
    BY <1>a, <1>2, WorkHarmless DEF Work
  <2> QED BY <1>a, <1>b, <1>c, <1>e, <2>1 DEF Untouched
<1>3. CASE Approve
  <2>1. RowsStayHarmless /\ JobsKept
        /\ UNCHANGED <<role, sweeper, worker, events, hook>>
    BY <1>a, <1>3, ApproveHarmless DEF Approve, CreateGrantIntent
  <2> QED BY <1>a, <1>b, <1>c, <1>d, <2>1 DEF Untouched
<1>4. CASE Webhook
  BY <1>4, <1>a DEF Webhook, ReadLiveRole, HandleMembershipEvent, Untouched
<1>5. CASE Promote \/ Demote
  <2>1. /\ role' # "none" /\ Admitted("promotion") /\ Announce
        /\ UNCHANGED <<grants, jobs, sweeper, worker, hook>>
    BY <1>5 DEF Promote, Demote, OwnerActs
  <2>2. UNCHANGED events
    BY <2>1 DEF Protecting, Admitted, Announce
  <2>3. RowsStayHarmless /\ JobsKept
    BY <1>a, <2>1, UnchangedHarmless, UnchangedJobsKept
  <2> QED BY <1>a, <1>b, <1>c, <1>d, <2>1, <2>2, <2>3 DEF Untouched
<1>6. CASE Depart \/ Arrive
  BY <1>6 DEF Depart, Arrive, OwnerActs
<1>7. CASE Tick \/ UNCHANGED vars
  <2>1. UNCHANGED <<grants, jobs, role, sweeper, worker, events, hook>>
    BY <1>7 DEF Tick, vars, storeVars
  <2>2. RowsStayHarmless /\ JobsKept
    BY <1>a, <2>1, UnchangedHarmless, UnchangedJobsKept
  <2> QED BY <1>a, <1>b, <1>c, <1>d, <2>1, <2>2 DEF Untouched
<1> QED BY <1>1, <1>2, <1>3, <1>4, <1>5, <1>6, <1>7 DEF Next

\* A membership that was there before LightGrant and never left is never being
\* removed, however many sweepers and job workers there are, whatever fails,
\* stalls or is taken over, and whatever owners do, unless both the roles
\* change and the events that tell of it are handled.
THEOREM MembersProtected == ASSUME Protecting PROVE Spec => []PreexistingProtected
<1>1. Init => ProtectInv
  <2> SUFFICES ASSUME Init PROVE ProtectInv
    OBVIOUS
  <2>1. \A g \in Grants : Harmless(grants[g])
    BY DEF Init, StoreInit, NoGrant, Harmless, Foreign
  <2>2. \A w \in Sweepers : RunHarmless(w)
    BY DEF Init, SweeperInit, IdleSweeper, RunHarmless, RunStopsShort
  <2>3. \A k \in JobWorkers : HandlerHarmless(k)
    BY DEF Init, WorkerInit, IdleWorker, HandlerHarmless
  <2>4. (origin = "preexisting" => role # "none") /\ events = {} /\ hook.pc = "idle"
    BY DEF Init, StoreInit, HookInit, IdleHook
  <2> QED BY <2>1, <2>2, <2>3, <2>4 DEF ProtectInv, Untouched
<1>2. ExpiryInv /\ ProtectInv /\ [Next]_vars => ProtectInv'
  BY ProtectStep DEF ExpiryInv
<1>3. ProtectInv => PreexistingProtected
  BY DEF ProtectInv, Untouched, RunHarmless, RunStopsShort, PreexistingProtected
<1> QED BY <1>1, <1>2, <1>3, InvariantHolds, PTL DEF Spec

-----------------------------------------------------------------------------
(* Memberships of the app.  With one row, one job worker and nobody who     *)
(* joins the team by himself: the add is noted in the row before it is      *)
(* sent, so that the handler that finds the member knows whose it is.       *)

OneRow == \A g, h \in Grants : g = h
OneWorker == \A i, k \in JobWorkers : i = k
AddedByApp == Admits \cap {"preexisting", "arrival"} = {}

Begun(row) == row.membership_mutation_state # "not_started"

OriginKnown == origin \in {"none", "app"} /\ (role = "none" <=> origin = "none")

GrantsOurs ==
    \A g \in Grants : /\ ~Foreign(grants[g])
                      /\ grants[g].status = "none" => ~Begun(grants[g])

JobsHaveRows ==
    \A j \in JobIds : jobs[j].status # "unused" => grants[jobs[j].grant].status # "none"

AddsNoted == origin = "app" => \A g \in Grants : Begun(grants[g])

\* What the handler goes by still holds.
HandlerKnows(k) ==
    /\ worker[k].snap.membership_created_by_app = 1
    /\ worker[k].pc = "started" /\ Mutation(k) = "not_started" => role = "none"
    /\ worker[k].pc = "decide" /\ Mutation(k) = "not_started" => worker[k].seen = "none"
    /\ worker[k].pc = "decide" /\ worker[k].seen = "none" => role = "none"
    /\ worker[k].pc = "adding" => Begun(Row(k))

OriginInv ==
    /\ OriginKnown /\ GrantsOurs /\ JobsHaveRows /\ AddsNoted
    /\ \A k \in JobWorkers : HandlerKnows(k)

\* A step that disowns no row, undoes no add, and deletes no row.
StaysOurs(old, new) ==
    /\ ~Foreign(old) => ~Foreign(new)
    /\ Begun(old) => Begun(new)
    /\ new.status = "none" => new = old

RowsStayOurs == \A g \in Grants : StaysOurs(grants[g], grants'[g])

LEMMA SetGrantOurs ==
    ASSUME TypeInv, NEW g \in Grants, NEW new, StaysOurs(grants[g], new), SetGrant(g, new)
    PROVE  RowsStayOurs
<1>1. grants \in [Grants -> DbGrant]
  BY DEF TypeInv, TypeOK, StoreTypeOK
<1>2. \A h \in Grants : grants'[h] = IF h = g THEN new ELSE grants[h]
  BY <1>1 DEF SetGrant
<1> QED BY <1>2 DEF RowsStayOurs, StaysOurs

LEMMA UnchangedOurs == ASSUME UNCHANGED grants PROVE RowsStayOurs
BY DEF RowsStayOurs, StaysOurs

LEMMA SettleOurs ==
    ASSUME TypeInv, NEW w \in Sweepers, sweeper[w].pc \notin {"idle", "sweep"},
           NEW row, OwnsLease(w) => StaysOurs(grants[sweeper[w].grant], row), Settle(w, row)
    PROVE  RowsStayOurs
<1>1. sweeper[w].grant \in Grants
  BY DEF TypeInv, SweepersHaveGrants
<1> DEFINE left == IF OwnsLease(w) THEN row ELSE grants[sweeper[w].grant]
<1>2. SetGrant(sweeper[w].grant, left) /\ StaysOurs(grants[sweeper[w].grant], left)
  BY DEF Settle, StaysOurs
<1> HIDE DEF left
<1> QED BY <1>1, <1>2, SetGrantOurs

LEMMA RecordFailureOurs ==
    ASSUME TypeInv, NEW w \in Sweepers, sweeper[w].pc \notin {"idle", "sweep"},
           RecordFailure(w)
    PROVE  RowsStayOurs
<1> DEFINE stage == NextRetryStage(sweeper[w].attempts)
           row == FinalizeRevokeFailed(grants[sweeper[w].grant], stage,
                                       clock + RevokeRetryDelay[stage], FALSE)
<1>1. /\ grants[sweeper[w].grant] \in DbGrant /\ clock \in Nat
      /\ sweeper[w].attempts \in {0} \cup RetryStages
  BY DEF TypeInv, TypeOK, StoreTypeOK, SweeperTypeOK, SweeperState, SweepersHaveGrants
<1>2. stage \in RetryStages
  BY <1>1, RetryStageBounded
<1>3. clock + RevokeRetryDelay[stage] \in Nat
  BY <1>1, <1>2, RepositoryAssumption
<1>4. Settle(w, row)
  BY DEF RecordFailure
<1> HIDE DEF stage
<1>5. StaysOurs(grants[sweeper[w].grant], row)
  BY <1>1, <1>2, <1>3, FinalizeRevokeFailedType DEF StaysOurs, Foreign, Begun
<1> HIDE DEF row
<1> QED BY <1>4, <1>5, SettleOurs

LEMMA SweepOurs ==
    ASSUME TypeInv, NEW w \in Sweepers, SweeperNext(w)
    PROVE  /\ RowsStayOurs
           /\ UNCHANGED <<role, origin>> \/ (role' = "none" /\ origin' = "none")
<1>a. /\ sweeper[w] \in SweeperState /\ clock \in Nat
      /\ grants \in [Grants -> DbGrant]
      /\ sweeper[w].pc \notin {"idle", "sweep"} =>
           sweeper[w].grant \in Grants /\ grants[sweeper[w].grant] \in DbGrant
  BY DEF TypeInv, TypeOK, StoreTypeOK, SweeperTypeOK, SweepersHaveGrants
<1>1. CASE \/ SweepStart(w) \/ ReadRole(w) \/ AbandonRemoval(w) \/ BeginCancel(w)
           \/ BeginRemoval(w) \/ VerifyRemoval(w) \/ \E g \in Grants : SkipGrant(w, g)
  BY <1>1, UnchangedOurs
     DEF SweepStart, ReadRole, AbandonRemoval, BeginCancel, BeginRemoval, VerifyRemoval,
         SkipGrant, storeVars
<1>2. ASSUME NEW g \in Grants, NEW l \in LeaseIds, AcquireLease(w, g, l)
      PROVE  RowsStayOurs /\ UNCHANGED <<role, origin>>
  <2> DEFINE new == AcquireRevokeLease(grants[g], l, sweeper[w].now)
  <2>1. SetGrant(g, new) /\ UNCHANGED <<role, origin>>
    BY <1>2 DEF AcquireLease
  <2>2. StaysOurs(grants[g], new)
    BY <1>a, AcquireRevokeLeaseType DEF SweeperState, StaysOurs, Foreign, Begun
  <2> HIDE DEF new
  <2> QED BY <2>1, <2>2, SetGrantOurs
<1>3. CASE FinishPreexisting(w)
  <2> DEFINE new == FinalizeRevoked(grants[sweeper[w].grant])
  <2>1. /\ sweeper[w].pc = "leased" /\ Settle(w, new) /\ UNCHANGED <<role, origin>>
    BY <1>3 DEF FinishPreexisting
  <2>2. StaysOurs(grants[sweeper[w].grant], new)
    BY <1>a, <2>1, FinalizeRevokedType DEF StaysOurs, Foreign, Begun
  <2> HIDE DEF new
  <2> QED BY <2>1, <2>2, SettleOurs
<1>4. CASE CompleteSuccessfulRevoke(w)
  <2> DEFINE new == FinalizeSuccessfulRevoke(grants[sweeper[w].grant], sweeper[w].lease, clock)
  <2>1. /\ sweeper[w].pc \in {"read", "verified"} /\ Settle(w, new) /\ UNCHANGED <<role, origin>>
    BY <1>4 DEF CompleteSuccessfulRevoke
  <2>2. StaysOurs(grants[sweeper[w].grant], new)
    BY <1>a, <2>1, FinalizeSuccessfulRevokeType DEF StaysOurs, Foreign, Begun
  <2> HIDE DEF new
  <2> QED BY <2>1, <2>2, SettleOurs
<1>5. CASE ProtectMaintainer(w)
  <2> DEFINE stage == NextRetryStage(sweeper[w].attempts)
             new == FinalizeRevokeFailed(grants[sweeper[w].grant], stage,
                                         clock + RevokeRetryDelay[4], TRUE)
  <2>1. sweeper[w].pc = "read" /\ Settle(w, new) /\ UNCHANGED <<role, origin>>
    BY <1>5 DEF ProtectMaintainer
  <2>2. stage \in RetryStages
    BY <1>a, RetryStageBounded DEF SweeperState
  <2>3. clock + RevokeRetryDelay[4] \in Nat
    BY <1>a, RepositoryAssumption DEF RetryStages
  <2> HIDE DEF stage
  <2>4. StaysOurs(grants[sweeper[w].grant], new)
    BY <1>a, <2>1, <2>2, <2>3, FinalizeRevokeFailedType DEF StaysOurs, Foreign, Begun
  <2> HIDE DEF new
  <2> QED BY <2>1, <2>4, SettleOurs
<1>6. CASE CancelRevocation(w)
  <2> DEFINE g == sweeper[w].grant
             mid == UpdateGrantStatus(grants[g], "pending", "keep")
             cancelled == UpdateMutationState(mid, "reactivation_required")
             new == ClearRevokeLease(cancelled)
  <2>1. /\ sweeper[w].pc = "cancel" /\ UNCHANGED <<role, origin>>
        /\ SetGrant(g, new) \/ RecordFailure(w)
    BY <1>6 DEF CancelRevocation
  <2>2. g \in Grants /\ grants[g] \in DbGrant
    BY <1>a, <2>1
  <2>3. StaysOurs(grants[g], new)
    <3>1. /\ mid \in DbGrant /\ mid.status = "pending"
          /\ mid.membership_created_by_app = grants[g].membership_created_by_app
      BY <2>2, UpdateGrantStatusType DEF GrantStatus
    <3> HIDE DEF mid
    <3>2. /\ cancelled \in DbGrant /\ cancelled.status = "pending" /\ Begun(cancelled)
          /\ cancelled.membership_created_by_app = mid.membership_created_by_app
      BY <3>1, UpdateMutationStateType DEF MutationState, Begun
    <3> HIDE DEF cancelled
    <3> QED BY <3>1, <3>2, ClearRevokeLeaseType DEF StaysOurs, Foreign, Begun
  <2> HIDE DEF new, g
  <2> QED BY <2>1, <2>2, <2>3, SetGrantOurs, RecordFailureOurs
<1>7. CASE RemovalNotVerified(w) \/ CallFails(w)
  BY <1>7, RecordFailureOurs DEF RemovalNotVerified, CallFails
<1>8. CASE GitHubRemoves(w) \/ CrashSweeper(w)
  BY <1>8, UnchangedOurs DEF GitHubRemoves, CrashSweeper
<1> QED
  BY <1>1, <1>2, <1>3, <1>4, <1>5, <1>6, <1>7, <1>8 DEF SweeperNext, RevokeStep

-----------------------------------------------------------------------------
(* What a handler writes into its row *)

LEMMA StatementsOurs ==
    ASSUME NEW row \in DbGrant, ~Foreign(row)
    PROVE  /\ \A m \in MutationState :
                 LET new == UpdateMutationState(row, m)
                 IN  /\ new \in DbGrant /\ ~Foreign(new) /\ new.status = row.status
                     /\ Begun(new) <=> m # "not_started"
           /\ \A st \in GrantStatus, c \in {"elevated", "other"} :
                 LET new == UpdateGrantStatus(row, st, c)
                 IN  /\ new \in DbGrant /\ ~Foreign(new) /\ new.status = st
                     /\ Begun(new) <=> Begun(row)
           /\ LET new == Activated(row)
              IN  /\ new \in DbGrant /\ ~Foreign(new) /\ new.status = "active"
                  /\ Begun(new) <=> Begun(row)
           /\ LET new == Confirmed(row)
              IN  new \in DbGrant /\ ~Foreign(new) /\ Begun(new) /\ new.status = row.status
           /\ \A st \in {"active", "revoke_failed"} :
                 LET new == Elevated(row, st)
                 IN  /\ new \in DbGrant /\ ~Foreign(new) /\ new.status = st
                     /\ Begun(new) <=> Begun(row)
<1>1. ASSUME NEW m \in MutationState
      PROVE  LET new == UpdateMutationState(row, m)
             IN  /\ new \in DbGrant /\ ~Foreign(new) /\ new.status = row.status
                 /\ Begun(new) <=> m # "not_started"
  BY UpdateMutationStateType DEF Foreign, Begun
<1>2. ASSUME NEW r \in DbGrant, ~Foreign(r), NEW st \in GrantStatus, NEW c
      PROVE  LET new == UpdateGrantStatus(r, st, c)
             IN  /\ new \in DbGrant /\ ~Foreign(new) /\ new.status = st
                 /\ Begun(new) <=> Begun(r)
  BY <1>2, UpdateGrantStatusType DEF Foreign, Begun
<1>3. ASSUME NEW st \in {"active", "revoke_failed"}
      PROVE  LET new == UpdateGrantStatusAndMembership(row, st, 1, NULL)
             IN  /\ new \in DbGrant /\ ~Foreign(new) /\ new.status = st
                 /\ Begun(new) <=> Begun(row)
  BY UpdateGrantStatusAndMembershipType DEF Foreign, Begun, DbGrant, GrantStatus
<1>4. ASSUME NEW st \in {"active", "revoke_failed"}
      PROVE  LET new == Elevated(row, st)
             IN  /\ new \in DbGrant /\ ~Foreign(new) /\ new.status = st
                 /\ Begun(new) <=> Begun(row)
  <2> DEFINE mid == UpdateGrantStatusAndMembership(row, st, 1, NULL)
  <2>1. mid \in DbGrant /\ ~Foreign(mid) /\ (Begun(mid) <=> Begun(row))
    BY <1>3
  <2> HIDE DEF mid
  <2>2. LET new == UpdateGrantStatus(mid, st, "elevated")
        IN  /\ new \in DbGrant /\ ~Foreign(new) /\ new.status = st
            /\ Begun(new) <=> Begun(mid)
    BY <1>2, <2>1 DEF GrantStatus
  <2> QED BY <2>1, <2>2 DEF Elevated, mid
<1>5. LET new == Confirmed(row)
      IN  new \in DbGrant /\ ~Foreign(new) /\ Begun(new) /\ new.status = row.status
  BY <1>1 DEF Confirmed, MutationState
<1>6. LET new == Activated(row)
      IN  /\ new \in DbGrant /\ ~Foreign(new) /\ new.status = "active"
          /\ Begun(new) <=> Begun(row)
  BY <1>3 DEF Activated
<1> QED BY <1>1, <1>2, <1>4, <1>5, <1>6

\* The rows of a handler that has found the member, or made one.
LEMMA FoundOurs ==
    ASSUME NEW k \in JobWorkers, Row(k) \in DbGrant, ~Foreign(Row(k)), ~Preexisting(k),
           worker[k].seen \in {"member", "maintainer"},
           Mutation(k) \in MutationState \ {"not_started"}
    PROVE  StaysOurs(Row(k),
             CASE Mutation(k) = "reactivation_required" -> Reactivated(k)
               [] Mutation(k) = "not_started" -> PresentBefore(Row(k), worker[k].seen)
               [] Uncertain(k) -> Recovered(k)
               [] Mutation(k) = "membership_confirmed" -> Revalidated(k))
<1>a. \A row \in DbGrant, new \in DbGrant :
         ~Foreign(new) /\ (Begun(row) => Begun(new)) /\ new.status # "none"
         => StaysOurs(row, new)
  BY DEF StaysOurs
<1>1. StaysOurs(Row(k), Activated(Row(k)))
  BY <1>a, StatementsOurs
<1>2. /\ Confirmed(Row(k)) \in DbGrant /\ ~Foreign(Confirmed(Row(k)))
      /\ Begun(Confirmed(Row(k)))
  BY StatementsOurs
<1>3. StaysOurs(Row(k), Activated(Confirmed(Row(k))))
  <2>1. LET new == Activated(Confirmed(Row(k)))
        IN  new \in DbGrant /\ ~Foreign(new) /\ Begun(new) /\ new.status = "active"
    BY <1>2, StatementsOurs
  <2> QED BY <1>a, <2>1
<1>4. ASSUME NEW st \in {"active", "revoke_failed"}
      PROVE  /\ StaysOurs(Row(k), Elevated(Row(k), st))
             /\ StaysOurs(Row(k), Confirmed(Elevated(Row(k), st)))
  <2>1. LET new == Elevated(Row(k), st)
        IN  /\ new \in DbGrant /\ ~Foreign(new) /\ new.status = st
            /\ Begun(new) <=> Begun(Row(k))
    BY StatementsOurs
  <2>2. LET new == Confirmed(Elevated(Row(k), st))
        IN  new \in DbGrant /\ ~Foreign(new) /\ Begun(new) /\ new.status = st
    BY <2>1, StatementsOurs
  <2> QED BY <1>a, <2>1, <2>2
<1>5. StaysOurs(Row(k), Reactivated(k))
  BY <1>3, <1>4 DEF Reactivated
<1>6. StaysOurs(Row(k), Recovered(k))
  BY <1>3, <1>4 DEF Recovered
<1>7. StaysOurs(Row(k), Revalidated(k))
  BY <1>1, <1>4 DEF Revalidated
<1> QED BY <1>5, <1>6, <1>7 DEF MutationState, Uncertain

LEMMA AddOurs ==
    ASSUME NEW k \in JobWorkers, Row(k) \in DbGrant, ~Foreign(Row(k)), ~Preexisting(k),
           worker[k].seen \in {"member", "maintainer"}
    PROVE  /\ StaysOurs(Row(k), IF worker[k].seen = "maintainer"
                                THEN UpdateGrantStatus(Claimed(Row(k)), "active", "elevated")
                                ELSE Claimed(Row(k)))
           /\ StaysOurs(Row(k),
                IF worker[k].seen = "member" THEN Activated(Confirmed(Row(k)))
                ELSE IF Preexisting(k) THEN PresentBefore(Row(k), "maintainer")
                                       ELSE Confirmed(Elevated(Row(k), "active")))
<1>a. \A new \in DbGrant :
         ~Foreign(new) /\ Begun(new) /\ new.status # "none" => StaysOurs(Row(k), new)
  BY DEF StaysOurs
<1>1. /\ Confirmed(Row(k)) \in DbGrant /\ ~Foreign(Confirmed(Row(k)))
      /\ Begun(Confirmed(Row(k)))
  BY StatementsOurs
<1>2. LET new == Activated(Confirmed(Row(k)))
      IN  new \in DbGrant /\ ~Foreign(new) /\ Begun(new) /\ new.status = "active"
  BY <1>1, StatementsOurs
<1>3. LET new == Claimed(Row(k))
      IN  new \in DbGrant /\ ~Foreign(new) /\ Begun(new) /\ new.status = "active"
  BY <1>2, ConfirmMembershipType DEF Claimed, Foreign, Begun
<1>4. LET new == UpdateGrantStatus(Claimed(Row(k)), "active", "elevated")
      IN  new \in DbGrant /\ ~Foreign(new) /\ Begun(new) /\ new.status = "active"
  <2> HIDE DEF Claimed
  <2> QED BY <1>3, StatementsOurs DEF GrantStatus
<1>5. LET new == Confirmed(Elevated(Row(k), "active"))
      IN  new \in DbGrant /\ ~Foreign(new) /\ Begun(new) /\ new.status = "active"
  <2>1. LET new == Elevated(Row(k), "active")
        IN  new \in DbGrant /\ ~Foreign(new) /\ new.status = "active"
    BY StatementsOurs
  <2> QED BY <2>1, StatementsOurs
<1> QED BY <1>a, <1>2, <1>3, <1>4, <1>5

\* Whatever a handler writes, it disowns nothing, and it starts over only when
\* the member is gone.
LEMMA WorkOurs ==
    ASSUME TypeInv, OriginInv, NEW k \in JobWorkers, WorkerNext(k)
    PROVE  \/ RowsStayOurs
           \/ /\ role = "none" /\ UNCHANGED <<role, origin>> /\ worker'[k].pc = "failing"
              /\ \A g \in Grants : /\ ~Foreign(grants'[g])
                                   /\ grants'[g].status = "none" => grants'[g] = grants[g]
<1>a. /\ worker[k] \in WorkerState /\ worker \in [JobWorkers -> WorkerState]
      /\ HandlerKnows(k) /\ grants \in [Grants -> DbGrant]
      /\ role \in Roles
  BY DEF TypeInv, TypeOK, StoreTypeOK, WorkerTypeOK, OriginInv
<1>c. ASSUME worker[k].pc # "idle"
      PROVE  /\ ~Foreign(Row(k)) /\ Row(k) = grants[GrantOf(k)] /\ GrantOf(k) \in Grants
             /\ Row(k) \in DbGrant /\ Row(k).status # "none"
  BY <1>c, BusyWorker DEF OriginInv, GrantsOurs, JobsHaveRows, GrantOf
<1>d. ~Preexisting(k)
  BY <1>a DEF HandlerKnows, Preexisting
<1>f. ASSUME worker[k].pc # "idle", NEW row \in DbGrant, ~Foreign(row),
             StaysOurs(Row(k), row),
             SetGrant(GrantOf(k), row)
             \/ SetGrant(GrantOf(k), UpdateGrantStatus(row, "grant_failed", "other"))
      PROVE  RowsStayOurs
  <2> DEFINE failed == UpdateGrantStatus(row, "grant_failed", "other")
  <2>1. StaysOurs(Row(k), failed)
    <3>1. ~Foreign(failed) /\ failed.status = "grant_failed" /\ (Begun(failed) <=> Begun(row))
      BY <1>f, StatementsOurs DEF GrantStatus
    <3> HIDE DEF failed
    <3> QED BY <1>f, <3>1 DEF StaysOurs
  <2> HIDE DEF failed
  <2> QED BY <1>c, <1>f, <2>1, SetGrantOurs DEF failed
<1>g. ASSUME worker[k].pc # "idle", JobFails(k) \/ FailGrant(k)
      PROVE  RowsStayOurs
  <2>1. StaysOurs(Row(k), Row(k))
    BY DEF StaysOurs
  <2> QED BY <1>c, <1>f, <1>g, <2>1, UnchangedOurs DEF JobFails, FailGrant
<1>h. ASSUME worker[k].pc # "idle", NEW row, Kept(Row(k), row), StaysOurs(Row(k), row),
             CommitAndComplete(k, row)
      PROVE  RowsStayOurs
  BY <1>c, <1>f, <1>g, <1>h DEF CommitAndComplete, Kept, StaysOurs
<1>m. ASSUME worker[k].pc # "idle", NEW m \in MutationState, m # "not_started",
             SetGrant(GrantOf(k), UpdateMutationState(Row(k), m))
      PROVE  RowsStayOurs
  <2> DEFINE new == UpdateMutationState(Row(k), m)
  <2>1. /\ new \in DbGrant /\ ~Foreign(new) /\ new.status = Row(k).status
        /\ Begun(new) <=> m # "not_started"
    BY <1>c, <1>m, StatementsOurs
  <2>2. SetGrant(GrantOf(k), new)
    BY <1>m
  <2> HIDE DEF new
  <2> QED BY <1>c, <1>m, <2>1, <2>2, SetGrantOurs DEF StaysOurs
<1>1. CASE \/ \E j \in JobIds : AcquireNextJob(k, j)
           \/ DeferWhileRevoking(k) \/ AlreadySatisfied(k) \/ ReadMembership(k)
           \/ GitHubAdds(k) \/ VerifyAdd(k) \/ AddFails(k)
  BY <1>1, UnchangedOurs
     DEF AcquireNextJob, DeferWhileRevoking, AlreadySatisfied, ReadMembership, GitHubAdds,
         VerifyAdd, AddFails, storeVars
<1>2. CASE StartGrantAccess(k)
  <2> DEFINE row == IF Row(k).status = "revoking"
                    THEN ReclaimStrandedReactivation(Row(k)) ELSE Row(k)
  <2>1. worker[k].pc = "acquired" /\ SetGrant(GrantOf(k), row)
    BY <1>2 DEF StartGrantAccess
  <2>2. StaysOurs(Row(k), row) /\ row \in DbGrant
    BY <1>c, <2>1, ReturnToPendingType
       DEF ReclaimStrandedReactivation, StaysOurs, Foreign, Begun
  <2> HIDE DEF row
  <2> QED BY <1>c, <1>f, <2>1, <2>2 DEF StaysOurs
<1>3. CASE OrganizationMembershipMissing(k) \/ AddRejected(k) \/ MembershipNotFound(k)
           \/ HandlerThrows(k)
  BY <1>3, <1>g DEF OrganizationMembershipMissing, AddRejected, MembershipNotFound, HandlerThrows
<1>4. CASE MembershipFound(k)
  <2> DEFINE row == CASE Mutation(k) = "reactivation_required" -> Reactivated(k)
                      [] Mutation(k) = "not_started" -> PresentBefore(Row(k), worker[k].seen)
                      [] Uncertain(k) -> Recovered(k)
                      [] Mutation(k) = "membership_confirmed" -> Revalidated(k)
  <2>1. /\ worker[k].pc = "decide" /\ worker[k].seen \in {"member", "maintainer"}
        /\ CommitAndComplete(k, row)
    BY <1>4, <1>a DEF MembershipFound, WorkerState, Roles
  <2>2. Mutation(k) \in MutationState \ {"not_started"}
    BY <1>a, <2>1 DEF WorkerState, Snapshot, Mutation, HandlerKnows
  <2>3. Kept(Row(k), row)
    BY <1>c, <2>1, <2>2, DecisionsKeep DEF MutationState, Uncertain
  <2>4. StaysOurs(Row(k), row)
    BY <1>c, <1>d, <2>1, <2>2, FoundOurs
  <2> HIDE DEF row
  <2> QED BY <1>h, <2>1, <2>3, <2>4
<1>5. CASE ConfirmedMembershipMissing(k)
  <2> DEFINE row == UpdateMutationState(Row(k), "not_started")
             next == [worker[k] EXCEPT !.pc = "failing"]
  <2>1. /\ worker[k].pc = "decide" /\ worker[k].seen = "none"
        /\ SetGrant(GrantOf(k), row) /\ Proceed(k, next)
        /\ UNCHANGED <<role, origin>>
    BY <1>5 DEF ConfirmedMembershipMissing
  <2>2. role = "none"
    BY <1>a, <2>1 DEF HandlerKnows
  <2>3. row \in DbGrant /\ ~Foreign(row) /\ row.status # "none"
    BY <1>c, <2>1, StatementsOurs DEF MutationState
  <2>5. worker'[k].pc = "failing"
    BY <1>a, <2>1 DEF Proceed, WorkerState
  <2> HIDE DEF row, next
  <2>6. ASSUME NEW g \in Grants
        PROVE  ~Foreign(grants'[g]) /\ (grants'[g].status = "none" => grants'[g] = grants[g])
    <3>1. grants'[g] \in {grants[g], row}
      BY <1>a, <2>1 DEF SetGrant
    <3> QED BY <2>3, <3>1 DEF OriginInv, GrantsOurs
  <2> QED BY <2>1, <2>2, <2>5, <2>6
<1>6. CASE SendAdd(k)
  BY <1>6, <1>m DEF SendAdd, MutationState
<1>7. CASE AddVerified(k)
  <2> DEFINE row == IF worker[k].seen = "maintainer"
                    THEN UpdateGrantStatus(Claimed(Row(k)), "active", "elevated")
                    ELSE Claimed(Row(k))
  <2>1. /\ worker[k].pc = "verify" /\ worker[k].seen \in {"member", "maintainer"}
        /\ CommitAndComplete(k, row)
    BY <1>7, <1>a DEF AddVerified, WorkerState, Roles
  <2>2. Kept(Row(k), row) /\ StaysOurs(Row(k), row)
    BY <1>c, <1>d, <2>1, ClaimedKeeps, AddOurs
  <2> HIDE DEF row
  <2> QED BY <1>h, <2>1, <2>2
<1>8. CASE AddRecovered(k)
  <2> DEFINE row == IF worker[k].seen = "member" THEN Activated(Confirmed(Row(k)))
                    ELSE IF Preexisting(k) THEN PresentBefore(Row(k), "maintainer")
                                           ELSE Confirmed(Elevated(Row(k), "active"))
  <2>1. /\ worker[k].pc = "recheck" /\ worker[k].seen \in {"member", "maintainer"}
        /\ CommitAndComplete(k, row)
    BY <1>8, <1>a DEF AddRecovered, WorkerState, Roles
  <2>2. Kept(Row(k), row) /\ StaysOurs(Row(k), row)
    BY <1>c, <1>d, <2>1, DecisionsKeep, AddOurs
  <2> HIDE DEF row
  <2> QED BY <1>h, <2>1, <2>2
<1>9. CASE CrashWorker(k)
  BY <1>9, <1>m, UnchangedOurs DEF CrashWorker, MutationState
<1> QED
  BY <1>1, <1>2, <1>3, <1>4, <1>5, <1>6, <1>7, <1>8, <1>9 DEF WorkerNext, HandlerStep

-----------------------------------------------------------------------------
(* OriginInv is inductive *)

\* What a handler knows after its step, and how the add moves the role.
LEMMA WorkKnows ==
    ASSUME TypeInv, OriginInv, NEW k \in JobWorkers, WorkerNext(k)
    PROVE  /\ HandlerKnows(k)'
           /\ \A i \in JobWorkers \ {k} : worker'[i] = worker[i]
           /\ \/ UNCHANGED <<role, origin>>
              \/ /\ worker[k].pc = "adding" /\ UNCHANGED grants
                 /\ role' = "member" /\ origin' = IF role = "none" THEN "app" ELSE origin
<1> DEFINE RoleMoves == \/ UNCHANGED <<role, origin>>
                        \/ /\ worker[k].pc = "adding" /\ UNCHANGED grants
                           /\ role' = "member"
                           /\ origin' = IF role = "none" THEN "app" ELSE origin
           Others == \A i \in JobWorkers \ {k} : worker'[i] = worker[i]
<1>a. /\ worker[k] \in WorkerState /\ worker \in [JobWorkers -> WorkerState]
      /\ HandlerKnows(k) /\ grants \in [Grants -> DbGrant]
      /\ worker[k].snap.membership_created_by_app = 1
  BY DEF TypeInv, TypeOK, StoreTypeOK, WorkerTypeOK, OriginInv, HandlerKnows
<1>r. ASSUME NEW s, Proceed(k, s)
      PROVE  worker'[k] = s /\ Others
  BY <1>a, <1>r DEF Proceed
<1>i. ASSUME HandlerReturns(k)
      PROVE  HandlerKnows(k)' /\ Others
  <2>1. worker'[k] = IdleWorker /\ Others
    BY <1>i, <1>r DEF HandlerReturns
  <2> QED BY <2>1 DEF HandlerKnows, IdleWorker, NoSnapshot
<1>s. ASSUME NEW s, Proceed(k, s), s.snap = worker[k].snap,
             s.pc \in {"added", "verify", "recheck", "failing"}
      PROVE  HandlerKnows(k)' /\ Others
  <2>1. worker'[k] = s /\ Others
    BY <1>r, <1>s
  <2> QED BY <1>a, <1>s, <2>1 DEF HandlerKnows
<1>1. ASSUME NEW j \in JobIds, AcquireNextJob(k, j)
      PROVE  HandlerKnows(k)' /\ Others /\ RoleMoves
  <2> DEFINE s == [IdleWorker EXCEPT !.pc = "acquired", !.job = j,
                                      !.last = jobs[j].attempt_count + 1 >= MaxAttempts]
  <2>1. Proceed(k, s) /\ UNCHANGED <<role, origin>>
    BY <1>1 DEF AcquireNextJob
  <2>2. s.pc = "acquired" /\ s.snap.membership_created_by_app = 1
    BY DEF IdleWorker, NoSnapshot
  <2> HIDE DEF s
  <2>3. worker'[k] = s /\ Others
    BY <1>r, <2>1
  <2> QED BY <2>1, <2>2, <2>3 DEF HandlerKnows
<1>2. CASE StartGrantAccess(k)
  <2> DEFINE row == IF Row(k).status = "revoking"
                    THEN ReclaimStrandedReactivation(Row(k)) ELSE Row(k)
             s == [worker[k] EXCEPT
                !.pc = "started",
                !.snap = [status |-> row.status,
                          membership_created_by_app |-> row.membership_created_by_app,
                          membership_mutation_state |-> row.membership_mutation_state]]
  <2>1. worker[k].pc = "acquired" /\ Proceed(k, s) /\ UNCHANGED <<role, origin>>
    BY <1>2 DEF StartGrantAccess
  <2>2. /\ Row(k) \in DbGrant /\ Row(k) = grants[GrantOf(k)] /\ GrantOf(k) \in Grants
    BY <2>1, BusyWorker
  <2>3. /\ row \in DbGrant /\ (Begun(row) <=> Begun(Row(k))) /\ (Foreign(row) <=> Foreign(Row(k)))
    BY <2>2, ReturnToPendingType DEF ReclaimStrandedReactivation, Foreign, Begun
  <2> HIDE DEF row
  <2>4. ~Foreign(row) /\ (~Begun(row) => role = "none")
    BY <2>2, <2>3 DEF OriginInv, GrantsOurs, AddsNoted, OriginKnown
  <2>5. /\ s.pc = "started"
        /\ s.snap.membership_created_by_app = row.membership_created_by_app
        /\ s.snap.membership_mutation_state = row.membership_mutation_state
    BY <1>a DEF WorkerState
  <2> HIDE DEF s
  <2>6. worker'[k] = s /\ Others
    BY <1>r, <2>1
  <2>7. worker'[k].snap.membership_created_by_app = 1
    BY <2>3, <2>4, <2>5, <2>6 DEF Foreign, DbGrant
  <2>8. Mutation(k)' = "not_started" => role' = "none"
    BY <2>1, <2>4, <2>5, <2>6 DEF Begun, Mutation
  <2> QED BY <2>1, <2>5, <2>6, <2>7, <2>8 DEF HandlerKnows
<1>3. CASE ReadMembership(k)
  <2> DEFINE s == [worker[k] EXCEPT !.pc = "decide", !.seen = role]
  <2>1. worker[k].pc = "started" /\ Proceed(k, s) /\ UNCHANGED <<role, origin>>
    BY <1>3 DEF ReadMembership, storeVars
  <2>2. s.pc = "decide" /\ s.seen = role /\ s.snap = worker[k].snap
    BY <1>a DEF WorkerState
  <2> HIDE DEF s
  <2>3. worker'[k] = s /\ Others
    BY <1>r, <2>1
  <2> QED BY <1>a, <2>1, <2>2, <2>3 DEF HandlerKnows, Mutation
<1>4. CASE SendAdd(k)
  <2> DEFINE s == [worker[k] EXCEPT !.pc = "adding"]
             new == UpdateMutationState(Row(k), "add_request_sent")
  <2>1. /\ worker[k].pc = "decide" /\ SetGrant(GrantOf(k), new) /\ Proceed(k, s)
        /\ UNCHANGED <<role, origin, jobs>>
    BY <1>4 DEF SendAdd
  <2>2. s.pc = "adding" /\ s.snap = worker[k].snap /\ s.job = JobOf(k)
    BY <1>a DEF WorkerState, JobOf
  <2>3. GrantOf(k) \in Grants /\ Row(k) \in DbGrant
    BY <2>1, BusyWorker
  <2>4. Begun(new)
    BY <2>3, UpdateMutationStateType DEF MutationState, Begun
  <2> HIDE DEF s, new
  <2>5. worker'[k] = s /\ Others
    BY <1>r, <2>1
  <2>6. Row(k)' = new
    BY <1>a, <2>1, <2>2, <2>3, <2>5 DEF SetGrant, Row, GrantOf, JobOf
  <2>7. Begun(Row(k))'
    BY <2>4, <2>6 DEF Begun
  <2> QED BY <1>a, <2>1, <2>2, <2>5, <2>7 DEF HandlerKnows
<1>5. CASE GitHubAdds(k) \/ VerifyAdd(k) \/ AddFails(k)
  <2>1. RoleMoves
    BY <1>5 DEF GitHubAdds, VerifyAdd, AddFails, storeVars
  <2>2. \E s : /\ Proceed(k, s) /\ s.snap = worker[k].snap
               /\ s.pc \in {"added", "verify", "recheck"}
    <3>1. CASE GitHubAdds(k)
      BY <1>a, <3>1 DEF GitHubAdds, WorkerState
    <3>2. CASE VerifyAdd(k) \/ AddFails(k)
      <4>1. PICK p \in {"verify", "recheck"} :
               Proceed(k, [worker[k] EXCEPT !.pc = p, !.seen = role])
        BY <3>2 DEF VerifyAdd, AddFails
      <4>2. LET next == [worker[k] EXCEPT !.pc = p, !.seen = role]
            IN  next.snap = worker[k].snap /\ next.pc = p
        BY <1>a DEF WorkerState
      <4> QED BY <4>1, <4>2
    <3> QED BY <1>5, <3>1, <3>2
  <2> QED BY <1>s, <2>1, <2>2
<1>6. ASSUME NEW row, JobFails(k) \/ CommitAndComplete(k, row) \/ FailGrant(k)
      PROVE  HandlerReturns(k)
  BY <1>6 DEF JobFails, CommitAndComplete, FailGrant
<1>7. CASE \/ OrganizationMembershipMissing(k) \/ MembershipFound(k) \/ AddRejected(k)
           \/ AddVerified(k) \/ AddRecovered(k) \/ MembershipNotFound(k) \/ HandlerThrows(k)
  <2>1. HandlerReturns(k) /\ UNCHANGED <<role, origin>>
    BY <1>6, <1>7
       DEF OrganizationMembershipMissing, MembershipFound, AddRejected, AddVerified,
           AddRecovered, MembershipNotFound, HandlerThrows, JobFails
  <2> QED BY <1>i, <2>1
<1>10. CASE ConfirmedMembershipMissing(k)
  <2> DEFINE s == [worker[k] EXCEPT !.pc = "failing"]
  <2>1. Proceed(k, s) /\ UNCHANGED <<role, origin>>
    BY <1>10 DEF ConfirmedMembershipMissing
  <2>2. s.snap = worker[k].snap /\ s.pc = "failing"
    BY <1>a DEF WorkerState
  <2> HIDE DEF s
  <2> QED BY <1>s, <2>1, <2>2
<1>8. CASE DeferWhileRevoking(k) \/ AlreadySatisfied(k)
  BY <1>8, <1>i DEF DeferWhileRevoking, AlreadySatisfied
<1>9. CASE CrashWorker(k)
  BY <1>9, <1>i DEF CrashWorker
<1> QED
  BY <1>1, <1>2, <1>3, <1>4, <1>5, <1>7, <1>8, <1>9, <1>10 DEF WorkerNext, HandlerStep

\* A handler that does not move keeps to what it knows.
LEMMA UnmovedKnows ==
    ASSUME TypeInv, OriginInv, RowsStayOurs, JobsKept, UNCHANGED worker,
           role = "none" => role' = "none"
    PROVE  \A k \in JobWorkers : HandlerKnows(k)'
<1> SUFFICES ASSUME NEW k \in JobWorkers
             PROVE  HandlerKnows(k)'
  OBVIOUS
<1>1. HandlerKnows(k)
  BY DEF OriginInv
<1>2. worker[k].pc = "adding" => Begun(Row(k))'
  <2> SUFFICES ASSUME worker[k].pc = "adding"
               PROVE  Begun(Row(k))'
    OBVIOUS
  <2>1. GrantOf(k)' = GrantOf(k) /\ GrantOf(k) \in Grants /\ Row(k) = grants[GrantOf(k)]
    BY BusyWorker DEF JobsKept, GrantOf, JobOf
  <2>2. StaysOurs(Row(k), Row(k)')
    BY <2>1 DEF RowsStayOurs, Row
  <2> QED BY <1>1, <2>2 DEF HandlerKnows, StaysOurs, Begun
<1> QED BY <1>1, <1>2 DEF HandlerKnows, Mutation

LEMMA JobsStillHaveRows ==
    ASSUME OneRow, OriginInv, JobsKept, UNCHANGED jobs \/ \E g \in Grants : grants'[g].status # "none",
           \A g \in Grants : grants'[g].status = "none" => grants'[g] = grants[g]
    PROVE  JobsHaveRows'
<1>1. CASE UNCHANGED jobs
  BY <1>1 DEF OriginInv, JobsHaveRows, JobsKept
<1>2. CASE \E g \in Grants : grants'[g].status # "none"
  BY <1>2 DEF OneRow, JobsHaveRows, JobsKept
<1> QED BY <1>1, <1>2

\* The rows and the origin after a step that disowns and undoes nothing.
LEMMA OursStay ==
    ASSUME OriginInv, RowsStayOurs, OriginKnown', origin' = "app" => origin = "app"
    PROVE  GrantsOurs' /\ AddsNoted'
<1>1. GrantsOurs'
  BY DEF OriginInv, GrantsOurs, RowsStayOurs, StaysOurs
<1>2. AddsNoted'
  BY DEF OriginInv, AddsNoted, RowsStayOurs, StaysOurs
<1> QED BY <1>1, <1>2

LEMMA WorkKeepsOrigin ==
    ASSUME OneRow, OneWorker, TypeInv, OriginInv, NEW k \in JobWorkers, WorkerNext(k)
    PROVE  OriginInv'
<1>1. /\ HandlerKnows(k)'
      /\ \/ UNCHANGED <<role, origin>>
         \/ /\ worker[k].pc = "adding" /\ UNCHANGED grants
            /\ role' = "member" /\ origin' = IF role = "none" THEN "app" ELSE origin
  BY WorkKnows
<1>2. \A i \in JobWorkers : HandlerKnows(i)'
  BY <1>1 DEF OneWorker
<1>3. OriginKnown'
  BY <1>1 DEF OriginInv, OriginKnown
<1>4. JobsKept
  BY WorkerStepTypes DEF StoreKept
<1>5. \E g \in Grants : grants[g].status # "none"
  <2>1. CASE worker[k].pc = "idle"
    <3>1. PICK j \in JobIds : AcquireNextJob(k, j)
      BY <2>1
         DEF WorkerNext, HandlerStep, DeferWhileRevoking, AlreadySatisfied, StartGrantAccess,
             OrganizationMembershipMissing, ReadMembership, MembershipFound,
             ConfirmedMembershipMissing, SendAdd, GitHubAdds, AddRejected, VerifyAdd,
             AddVerified, AddFails, AddRecovered, MembershipNotFound, HandlerThrows, CrashWorker
    <3> QED
      BY <3>1 DEF AcquireNextJob, LockIsStale, OriginInv, JobsHaveRows, TypeInv, JobsHaveGrants
  <2>2. CASE worker[k].pc # "idle"
    BY <2>2, BusyWorker DEF OriginInv, JobsHaveRows, GrantOf
  <2> QED BY <2>1, <2>2
<1>6. \A g \in Grants : grants'[g].status = "none" => grants'[g] = grants[g]
  BY WorkOurs DEF RowsStayOurs, StaysOurs
<1>7. JobsHaveRows'
  BY <1>4, <1>5, <1>6, JobsStillHaveRows
<1>8. GrantsOurs'
  BY <1>6, WorkOurs DEF OriginInv, GrantsOurs, RowsStayOurs, StaysOurs
<1>9. AddsNoted'
  <2>1. CASE UNCHANGED <<role, origin>>
    <3>1. CASE RowsStayOurs
      BY <2>1, <3>1 DEF OriginInv, AddsNoted, RowsStayOurs, StaysOurs
    <3>2. CASE role = "none"
      BY <2>1, <3>2 DEF OriginInv, OriginKnown, AddsNoted
    <3> QED BY <3>1, <3>2, WorkOurs
  <2>2. CASE worker[k].pc = "adding" /\ UNCHANGED grants
    <3>1. Begun(Row(k)) /\ GrantOf(k) \in Grants /\ Row(k) = grants[GrantOf(k)]
      BY <2>2, BusyWorker DEF OriginInv, HandlerKnows
    <3> QED BY <2>2, <3>1 DEF OneRow, AddsNoted
  <2> QED BY <1>1, <2>1, <2>2
<1> QED BY <1>2, <1>3, <1>7, <1>8, <1>9 DEF OriginInv

\* A step of anyone else that leaves the handlers alone.
LEMMA OthersKeepOrigin ==
    ASSUME OneRow, TypeInv, OriginInv, RowsStayOurs, JobsKept, UNCHANGED worker,
           UNCHANGED jobs \/ \E g \in Grants : grants'[g].status # "none",
           \/ UNCHANGED <<role, origin>>
           \/ role' = "none" /\ origin' = "none"
           \/ role # "none" /\ role' # "none" /\ UNCHANGED origin
    PROVE  OriginInv'
<1>1. OriginKnown' /\ (origin' = "app" => origin = "app") /\ (role = "none" => role' = "none")
  BY DEF OriginInv, OriginKnown
<1>2. \A g \in Grants : grants'[g].status = "none" => grants'[g] = grants[g]
  BY DEF RowsStayOurs, StaysOurs
<1>3. JobsHaveRows'
  BY <1>2, JobsStillHaveRows
<1> QED BY <1>1, <1>3, OursStay, UnmovedKnows DEF OriginInv

LEMMA ApproveKeepsOrigin ==
    ASSUME OneRow, TypeInv, OriginInv, NEW g \in Grants, NEW d \in Durations,
           CreateGrantIntent(g, d), UNCHANGED worker
    PROVE  OriginInv'
<1> DEFINE e == clock + d
<1>1. /\ e \in Nat /\ grants[g] \in DbGrant /\ UNCHANGED <<role, origin>>
      /\ grants \in [Grants -> DbGrant]
  BY ServiceAssumption DEF TypeInv, TypeOK, StoreTypeOK, CreateGrantIntent
<1> HIDE DEF e
<1>2. CASE ApproveExisting(g, e)
  <2> DEFINE new == Extended(grants[g], e)
  <2>1. /\ SetGrant(g, new) /\ JobsKept /\ grants[g].status # "none"
    BY <1>2, CreateJobKeeps, UnchangedJobsKept
       DEF ApproveExisting, ActiveGrants, ManagedStatus
  <2>2. StaysOurs(grants[g], new) /\ new.status # "none"
    BY <1>1, <2>1, ExtendedType DEF StaysOurs, Foreign, Begun
  <2> HIDE DEF new
  <2>3. RowsStayOurs /\ grants'[g].status # "none"
    BY <1>1, <2>1, <2>2, SetGrantOurs DEF SetGrant
  <2> QED BY <1>1, <2>1, <2>3, OthersKeepOrigin
<1>3. CASE ApproveNew(g, e)
  <2> DEFINE new == CreateGrant(e)
  <2>1. SetGrant(g, new) /\ JobsKept /\ grants[g].status = "none"
    BY <1>3, CreateJobKeeps DEF ApproveNew
  <2>2. new.status = "pending" /\ ~Foreign(new)
    BY <1>1, CreateGrantType, CreateGrantOurs DEF Foreign
  <2> HIDE DEF new
  <2>3. \A h \in Grants : grants'[h] = new
    BY <1>1, <2>1 DEF SetGrant, OneRow
  <2>4. origin # "app"
    BY <2>1 DEF OriginInv, GrantsOurs, AddsNoted
  <2>5. \A k \in JobWorkers : worker[k].pc = "idle"
    BY <2>1, BusyWorker DEF OneRow, OriginInv, JobsHaveRows, GrantOf
  <2>6. \A k \in JobWorkers : HandlerKnows(k)'
    BY <2>5 DEF OriginInv, HandlerKnows
  <2>7. GrantsOurs' /\ AddsNoted' /\ OriginKnown'
    BY <1>1, <2>2, <2>3, <2>4 DEF OriginInv, GrantsOurs, AddsNoted, OriginKnown
  <2>8. JobsHaveRows'
    BY <2>1, <2>2, <2>3 DEF JobsHaveRows, JobsKept
  <2> QED BY <2>6, <2>7, <2>8 DEF OriginInv
<1> QED BY <1>2, <1>3 DEF CreateGrantIntent, e

LEMMA DriftedOurs ==
    ASSUME NEW row \in DbGrant, ~Foreign(row), row.status # "none"
    PROVE  StaysOurs(row, Drifted(row))
<1> DEFINE mid == UpdateGrantStatusAndMembership(row, "active", 1, NULL)
<1>1. /\ mid \in DbGrant /\ mid.status = "active" /\ ~Foreign(mid)
      /\ mid.membership_mutation_state = row.membership_mutation_state
  BY UpdateGrantStatusAndMembershipType DEF GrantStatus, Foreign, DbGrant
<1>2. StaysOurs(row, UpdateRevocationStatusRevoked(row))
  BY UpdateRevocationStatusRevokedType DEF StaysOurs, Foreign, Begun
<1>3. StaysOurs(row, UpdateGrantStatus(mid, "active", "elevated"))
  <2> HIDE DEF mid
  <2> QED BY <1>1, UpdateGrantStatusType DEF GrantStatus, StaysOurs, Foreign, Begun
<1>4. StaysOurs(row, [mid EXCEPT !.elevated = FALSE])
  <2> HIDE DEF mid
  <2> QED BY <1>1 DEF DbGrant, StaysOurs, Foreign, Begun
<1>5. StaysOurs(row, row)
  BY DEF StaysOurs
<1> QED BY <1>2, <1>3, <1>4, <1>5 DEF Drifted

LEMMA OriginStep ==
    ASSUME OneRow, OneWorker, AddedByApp, TypeInv, OriginInv, [Next]_vars
    PROVE  OriginInv'
<1>1. ASSUME NEW w \in Sweepers, Sweep(w)
      PROVE  OriginInv'
  <2>1. SweeperNext(w) /\ UNCHANGED worker
    BY <1>1 DEF Sweep
  <2>2. JobsKept
    BY <2>1, SweeperStepTypes DEF StoreKept
  <2>3. UNCHANGED jobs \/ \E g \in Grants : grants'[g].status # "none"
    <3>1. CASE CancelRevocation(w)
      <4> DEFINE g == sweeper[w].grant
                 mid == UpdateGrantStatus(grants[g], "pending", "keep")
                 cancelled == UpdateMutationState(mid, "reactivation_required")
                 new == ClearRevokeLease(cancelled)
      <4>1. UNCHANGED jobs \/ SetGrant(g, new)
        BY <3>1 DEF CancelRevocation
      <4>2. g \in Grants /\ grants[g] \in DbGrant /\ grants \in [Grants -> DbGrant]
        BY <3>1 DEF CancelRevocation, TypeInv, TypeOK, StoreTypeOK, SweepersHaveGrants
      <4>3. new.status = "pending"
        <5>1. mid \in DbGrant /\ mid.status = "pending"
          BY <4>2, UpdateGrantStatusType DEF GrantStatus
        <5> HIDE DEF mid
        <5>2. cancelled \in DbGrant /\ cancelled.status = "pending"
          BY <5>1, UpdateMutationStateType DEF MutationState
        <5> HIDE DEF cancelled
        <5> QED BY <5>2, ClearRevokeLeaseType
      <4> HIDE DEF new, g
      <4> QED BY <4>1, <4>2, <4>3 DEF SetGrant
    <3>2. CASE ~CancelRevocation(w)
      BY <2>1, <3>2
         DEF SweeperNext, SweepStart, RevokeStep, SkipGrant, AcquireLease,
             FinishPreexisting, ReadRole, CompleteSuccessfulRevoke, ProtectMaintainer,
             AbandonRemoval, BeginCancel, BeginRemoval, GitHubRemoves, VerifyRemoval,
             RemovalNotVerified, CallFails, CrashSweeper, storeVars
    <3> QED BY <3>1, <3>2
  <2> QED BY <2>1, <2>2, <2>3, SweepOurs, OthersKeepOrigin
<1>2. ASSUME NEW k \in JobWorkers, Work(k)
      PROVE  OriginInv'
  BY <1>2, WorkKeepsOrigin DEF Work
<1>3. CASE Approve
  BY <1>3, ApproveKeepsOrigin DEF Approve
<1>q. ASSUME UNCHANGED <<grants, jobs, worker>>,
             \/ UNCHANGED <<role, origin>>
             \/ role' = "none" /\ origin' = "none"
             \/ role # "none" /\ role' # "none" /\ UNCHANGED origin
      PROVE  OriginInv'
  BY <1>q, UnchangedOurs, UnchangedJobsKept, OthersKeepOrigin
<1>4. CASE Webhook
  <2>1. UNCHANGED <<jobs, worker, role, origin>>
    BY <1>4, WebhookStep DEF Webhook
  <2>2. CASE \E e \in events : ReadLiveRole(e)
    BY <1>q, <2>1, <2>2 DEF ReadLiveRole, storeVars
  <2>3. CASE HandleMembershipEvent
    <3>1. \A g \in Grants : grants'[g] = IF g \in ActiveGrants THEN Drifted(grants[g])
                                                             ELSE grants[g]
      BY <2>3 DEF HandleMembershipEvent
    <3>2. ASSUME NEW g \in Grants
          PROVE  StaysOurs(grants[g], grants'[g])
      <4>1. CASE g \in ActiveGrants
        <5>1. grants[g] \in DbGrant /\ ~Foreign(grants[g]) /\ grants[g].status # "none"
          BY <4>1
             DEF ActiveGrants, ManagedStatus, OriginInv, GrantsOurs, TypeInv, TypeOK, StoreTypeOK
        <5> QED BY <3>1, <4>1, <5>1, DriftedOurs
      <4>2. CASE g \notin ActiveGrants
        BY <3>1, <4>2 DEF StaysOurs
      <4> QED BY <4>1, <4>2
    <3> QED BY <2>1, <3>2, UnchangedJobsKept, OthersKeepOrigin DEF RowsStayOurs
  <2> QED BY <1>4, <2>2, <2>3 DEF Webhook
<1>5. CASE Promote \/ Demote \/ Depart
  BY <1>5, <1>q DEF Promote, Demote, Depart, OwnerActs
<1>6. CASE Arrive
  BY <1>6 DEF Arrive, OwnerActs, Admitted, AddedByApp
<1>7. CASE Tick \/ UNCHANGED vars
  BY <1>7, <1>q DEF Tick, vars, storeVars
<1> QED BY <1>1, <1>2, <1>3, <1>4, <1>5, <1>6, <1>7 DEF Next

LEMMA InitOrigin == ASSUME AddedByApp PROVE Init => OriginInv
<1> SUFFICES ASSUME Init PROVE OriginInv
  OBVIOUS
<1>1. GrantsOurs /\ JobsHaveRows
  BY DEF Init, StoreInit, NoGrant, GrantsOurs, JobsHaveRows, Foreign, Begun
<1>2. OriginKnown /\ origin # "app"
  BY DEF Init, StoreInit, OriginKnown, AddedByApp
<1>3. \A k \in JobWorkers : HandlerKnows(k)
  BY DEF Init, WorkerInit, IdleWorker, NoSnapshot, HandlerKnows
<1> QED BY <1>1, <1>2, <1>3 DEF OriginInv, AddsNoted

\* No managed grant disowns a membership that the app created: whatever fails,
\* crashes or is retried, and whatever owners and late events do, the row has
\* noted the add before GitHub carries it out.  For one row and one job worker:
\* the job of an earlier grant, or a second handler, can create the membership
\* that the handler of this one then takes for somebody else's.
THEOREM AddsRemembered ==
    ASSUME OneRow, OneWorker, AddedByApp PROVE Spec => []OriginRemembered
<1>1. Init => OriginInv
  BY InitOrigin
<1>2. ExpiryInv /\ OriginInv /\ [Next]_vars => OriginInv'
  BY OriginStep DEF ExpiryInv
<1>3. ExpiryInv /\ OriginInv => OriginRemembered
  BY DEF ExpiryInv, TypeInv, TypeOK, StoreTypeOK, OriginInv, GrantsOurs, Foreign,
         OriginRemembered, ActiveGrants, DbGrant
<1> QED BY <1>1, <1>2, <1>3, InvariantHolds, PTL DEF Spec
=============================================================================
