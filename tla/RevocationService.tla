-------------------------- MODULE RevocationService --------------------------
(***************************************************************************)
(* ReconciliationService.reconcile's sweep over the expired grants and     *)
(* RevocationService.revoke, as processes that share the tables.           *)
(*                                                                         *)
(* A sweeper is one scheduler.  Each action is what revoke does between    *)
(* two awaits; between two actions anything else may happen, the sweeper   *)
(* may stall for any time (and come back as a zombie) or die.              *)
(***************************************************************************)
EXTENDS GrantStore

CONSTANTS
    Sweepers,    \* processes that run reconcile
    CallTimeout  \* GITHUB_REQUEST_TIMEOUT_MS, in ticks

ASSUME TimeoutAssumption == CallTimeout \in Nat \ {0} /\ CallTimeout < RevokeLease

VARIABLE sweeper  \* the locals of reconcile and revoke, by process

SweeperState ==
    [pc       : {"idle", "sweep", "leased", "read", "cancel", "deleting",
                 "deleted", "verified"},
     now      : Nat,                  \* reconcile's now, taken once per sweep
     todo     : SUBSET Grants,        \* expiredGrants still to process
     grant    : Grants \cup {NULL},   \* the argument of revoke
     lease    : LeaseIds \cup {NULL}, \* leaseId
     byApp    : {0, 1},               \* activeGrant.membership_created_by_app
     attempts : {0} \cup RetryStages, \* activeGrant.revoke_attempt_count
     seen     : Roles,                \* currentRole, later verifiedRole
     sentAt   : Nat]                  \* when the DELETE was sent

IdleSweeper == [pc |-> "idle", now |-> 0, todo |-> {}, grant |-> NULL,
                lease |-> NULL, byApp |-> 1, attempts |-> 0, seen |-> "none",
                sentAt |-> 0]

SweeperTypeOK == sweeper \in [Sweepers -> SweeperState]
SweeperInit == sweeper = [w \in Sweepers |-> IdleSweeper]

Become(w, s) == sweeper' = [sweeper EXCEPT ![w] = s]

\* revoke returns: the loop of reconcile goes on, with the same now.
RevokeReturns(w) ==
    Become(w, IF sweeper[w].todo = {} THEN IdleSweeper
              ELSE [IdleSweeper EXCEPT !.pc = "sweep", !.now = sweeper[w].now,
                                       !.todo = sweeper[w].todo])

\* A UUID never comes back: no row and no run holds it.
FreshLease(l) == /\ \A g \in Grants : grants[g].revoking_lease_id # l
                 /\ \A w \in Sweepers : sweeper[w].lease # l

\* The run's view of its grant, tested against the clock as it is now
\* (currentStale), not against the run's own now.
OwnsLease(w) ==
    OwnsRevokeLease(grants[sweeper[w].grant], sweeper[w].lease, clock)

-----------------------------------------------------------------------------
(* reconcile *)

SweepStart(w) ==
    LET expired == {g \in Grants : GetExpired(grants[g], clock)}
    IN  /\ sweeper[w].pc = "idle"
        /\ expired # {}
        /\ Become(w, [IdleSweeper EXCEPT !.pc = "sweep", !.now = clock,
                                         !.todo = expired])
        /\ UNCHANGED storeVars

-----------------------------------------------------------------------------
(* revoke, transitionTx *)

Revocable(w, g) ==
    /\ ~HasActiveRequests(g, sweeper[w].now)
    /\ LeaseAvailable(grants[g], sweeper[w].now)
    /\ IndexAccepts(g, [grants[g] EXCEPT !.status = "revoking"])

SkipGrant(w, g) ==
    /\ sweeper[w].pc = "sweep"
    /\ g \in sweeper[w].todo
    /\ ~Revocable(w, g)
    /\ LET rest == sweeper[w].todo \ {g}
       IN  Become(w, IF rest = {} THEN IdleSweeper
                     ELSE [sweeper[w] EXCEPT !.todo = rest])
    /\ UNCHANGED storeVars

AcquireLease(w, g, l) ==
    /\ sweeper[w].pc = "sweep"
    /\ g \in sweeper[w].todo
    /\ Revocable(w, g)
    /\ FreshLease(l)
    /\ SetGrant(g, AcquireRevokeLease(grants[g], l, sweeper[w].now))
    /\ Become(w, [sweeper[w] EXCEPT
                    !.pc = "leased", !.todo = @ \ {g}, !.grant = g, !.lease = l,
                    !.byApp = grants[g].membership_created_by_app,
                    !.attempts = grants[g].revoke_attempt_count])
    /\ UNCHANGED <<clock, requested, jobs, role, origin, faults>>

-----------------------------------------------------------------------------
(* The outcomes of a run.  Each is one transaction fenced by the lease; the *)
(* run that lost its lease writes nothing and returns.                      *)

Settle(w, row) ==
    /\ SetGrant(sweeper[w].grant,
                IF OwnsLease(w) THEN row ELSE grants[sweeper[w].grant])
    /\ RevokeReturns(w)

\* Branch 2 of revoke: the membership is not ours, nothing to remove.
FinishPreexisting(w) ==
    /\ sweeper[w].pc = "leased"
    /\ sweeper[w].byApp = 0
    /\ Settle(w, FinalizeRevoked(grants[sweeper[w].grant]))
    /\ UNCHANGED <<clock, requested, jobs, role, origin, faults>>

CompleteSuccessfulRevoke(w) ==
    /\ \/ sweeper[w].pc = "read"
       \/ sweeper[w].pc = "verified"
    /\ sweeper[w].seen = "none"
    /\ Settle(w, FinalizeSuccessfulRevoke(grants[sweeper[w].grant],
                                          sweeper[w].lease, clock))
    /\ UNCHANGED <<clock, requested, jobs, role, origin, faults>>

ProtectMaintainer(w) ==
    /\ sweeper[w].pc = "read"
    /\ sweeper[w].seen = "maintainer"
    /\ Settle(w, FinalizeRevokeFailed(grants[sweeper[w].grant],
                                      NextRetryStage(sweeper[w].attempts),
                                      clock + RevokeRetryDelay[4], TRUE))
    /\ UNCHANGED <<clock, requested, jobs, role, origin, faults>>

\* The catch block: retry later, with backoff.
RecordFailure(w) ==
    LET stage == NextRetryStage(sweeper[w].attempts)
    IN  Settle(w, FinalizeRevokeFailed(grants[sweeper[w].grant], stage,
                                       clock + RevokeRetryDelay[stage], FALSE))

-----------------------------------------------------------------------------
(* Live validation and removal *)

\* Deviation: the bypass for memberships that are not ours is forgotten.
ReadRoleOfAny(w) ==
    /\ sweeper[w].pc = "leased"
    /\ Become(w, [sweeper[w] EXCEPT !.pc = "read", !.seen = role])
    /\ UNCHANGED storeVars

ReadRole(w) ==
    /\ sweeper[w].pc = "leased"
    /\ sweeper[w].byApp = 1
    /\ Become(w, [sweeper[w] EXCEPT !.pc = "read", !.seen = role])
    /\ UNCHANGED storeVars

\* The fence, when the role is 'member'.
AbandonRemoval(w) ==
    /\ sweeper[w].pc = "read"
    /\ sweeper[w].seen = "member"
    /\ ~OwnsLease(w)
    /\ RevokeReturns(w)
    /\ UNCHANGED storeVars

\* Deviation: no fence before the DELETE.
FenceForgotten(w) ==
    /\ sweeper[w].pc = "read"
    /\ sweeper[w].seen = "member"

FencePassed(w) ==
    /\ sweeper[w].pc = "read"
    /\ sweeper[w].seen = "member"
    /\ OwnsLease(w)

BeginCancel(w) ==
    /\ FencePassed(w)
    /\ HasActiveRequests(sweeper[w].grant, sweeper[w].now)
    /\ Become(w, [sweeper[w] EXCEPT !.pc = "cancel"])
    /\ UNCHANGED storeVars

\* After the import, without a second look at the lease.
CancelRevocation(w) ==
    LET g == sweeper[w].grant
        cancelled == UpdateMutationState(
                        UpdateGrantStatus(grants[g], "pending", "keep"),
                        "reactivation_required")
    IN  /\ sweeper[w].pc = "cancel"
        /\ IF IndexAccepts(g, cancelled)
           THEN /\ FreeJobs # {}
                /\ SetGrant(g, ClearRevokeLease(cancelled))
                /\ jobs' = CreateJob(g)
                /\ RevokeReturns(w)
           ELSE RecordFailure(w) /\ UNCHANGED jobs
        /\ UNCHANGED <<clock, requested, role, origin, faults>>

\* The environment: with less than CallTimeout of its lease left, which the
\* fence does not ask, a run comes to its DELETE only where late_fence is
\* admitted.
RemovalInTime(w) ==
    LET started == grants[sweeper[w].grant].revoking_started_at
    IN  ~Admitted("late_fence") /\ started # NULL
            => clock + CallTimeout < started + RevokeLease

BeginRemoval(w) ==
    /\ FencePassed(w)
    /\ ~HasActiveRequests(sweeper[w].grant, sweeper[w].now)
    /\ RemovalInTime(w)
    /\ Become(w, [sweeper[w] EXCEPT !.pc = "deleting", !.sentAt = clock])
    /\ UNCHANGED storeVars

\* GitHub carries out the DELETE (a 404 counts as success).
GitHubRemoves(w) ==
    /\ sweeper[w].pc = "deleting"
    /\ role' = "none" /\ origin' = "none"
    /\ Become(w, [sweeper[w] EXCEPT !.pc = "deleted"])
    /\ UNCHANGED <<clock, grants, requested, jobs, faults>>

VerifyRemoval(w) ==
    /\ sweeper[w].pc = "deleted"
    /\ Become(w, [sweeper[w] EXCEPT !.pc = "verified", !.seen = role])
    /\ UNCHANGED storeVars

RemovalNotVerified(w) ==
    /\ sweeper[w].pc = "verified"
    /\ sweeper[w].seen # "none"
    /\ RecordFailure(w)
    /\ UNCHANGED <<clock, requested, jobs, role, origin, faults>>

\* A call is rejected or times out: the first read, the DELETE before or after
\* GitHub carried it out, or the verifying read.
CallFails(w) ==
    /\ \/ sweeper[w].pc = "leased" /\ sweeper[w].byApp = 1
       \/ sweeper[w].pc = "deleting"
       \/ sweeper[w].pc = "deleted"
    /\ Fault
    /\ RecordFailure(w)
    /\ UNCHANGED <<clock, requested, jobs, role, origin>>

\* The process dies.  A DELETE on the wire may or may not arrive.
CrashSweeper(w) ==
    /\ sweeper[w].pc # "idle"
    /\ Fault
    /\ Become(w, IdleSweeper)
    /\ \/ UNCHANGED <<role, origin>>
       \/ /\ sweeper[w].pc = "deleting"
          /\ role' = "none" /\ origin' = "none"
    /\ UNCHANGED <<clock, grants, requested, jobs>>

-----------------------------------------------------------------------------
\* withRequestTimeout: a DELETE is answered or abandoned within CallTimeout.
\* The import before a cancellation takes no time.
SweepersLetTimePass ==
    \A w \in Sweepers :
        /\ sweeper[w].pc = "deleting" => clock < sweeper[w].sentAt + CallTimeout
        /\ sweeper[w].pc = "cancel" => Admitted("slow_import")

RevokeStep(w) ==
    \/ \E g \in Grants : SkipGrant(w, g)
    \/ \E g \in Grants, l \in LeaseIds : AcquireLease(w, g, l)
    \/ FinishPreexisting(w)
    \/ ReadRole(w)
    \/ CompleteSuccessfulRevoke(w)
    \/ ProtectMaintainer(w)
    \/ AbandonRemoval(w)
    \/ BeginCancel(w)
    \/ CancelRevocation(w)
    \/ BeginRemoval(w)
    \/ GitHubRemoves(w)
    \/ VerifyRemoval(w)
    \/ RemovalNotVerified(w)

SweeperNext(w) == SweepStart(w) \/ RevokeStep(w) \/ CallFails(w) \/ CrashSweeper(w)
=============================================================================
