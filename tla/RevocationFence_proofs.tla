------------------------ MODULE RevocationFence_proofs ------------------------
(***************************************************************************)
(* What the lease of a revocation is good for, for all values of the       *)
(* constants, in the circumstances it is made for: RemovalIsFenced and     *)
(* NoAddDuringRemoval, then, from the same invariant, that revoked is      *)
(* final, that grants that wait have jobs, that active grants have their   *)
(* members and that a membership the app created stays on the books.       *)
(***************************************************************************)
EXTENDS RevocationFence, AccessLifecycle_proofs

-----------------------------------------------------------------------------
(* What a step may do to the leases, the requests and the jobs of others *)

SameLease(old, new) ==
    /\ new.status = old.status
    /\ new.revoking_lease_id = old.revoking_lease_id
    /\ new.revoking_started_at = old.revoking_started_at

NoNewLease(old, new) == new.status = "revoking" => SameLease(old, new)

LeasesSettle == \A g \in Grants : NoNewLease(grants[g], grants'[g])

\* The lease of a run that owns it is not touched.
LeaseRespected(w) ==
    Busy(w) /\ OwnsLease(w) =>
        SameLease(grants[sweeper[w].grant], grants'[sweeper[w].grant])

NoRowInserted ==
    \A g \in Grants : grants[g].status = "none" => grants'[g].status = "none"

\* Requests are only added, and outlast every lease there is.
RequestsGrow ==
    \A g \in Grants :
        /\ requested[g] \subseteq requested'[g]
        /\ \A e \in requested'[g] \ requested[g] : e \in Nat /\ e > clock + RevokeLease

\* Jobs end, or are created for a grant that has time left.
JobsSettle ==
    \A j \in JobIds :
        jobs'[j].status \in {"queued", "running"} =>
            \/ Unfinished(j) /\ jobs'[j].grant = jobs[j].grant
            \/ HasActiveRequests(jobs[j].grant, clock)'

RunningJobsCalm ==
    \A j \in JobIds : jobs[j].status = "running" => jobs'[j] = jobs[j]

LEMMA BusySweeper ==
    ASSUME TypeInv, NEW w \in Sweepers
    PROVE  /\ sweeper[w] \in SweeperState
           /\ sweeper[w].now \in Nat /\ sweeper[w].sentAt \in Nat
           /\ Busy(w) => /\ sweeper[w].grant \in Grants
                         /\ sweeper[w].lease \in LeaseIds
                         /\ Held(w) \in DbGrant
                         /\ Held(w) = grants[sweeper[w].grant]
                         /\ Held(w).revoking_started_at \in Nat \cup {NULL}
BY DEF TypeInv, TypeOK, StoreTypeOK, SweeperTypeOK, SweepersHaveGrants, SweeperState,
       Busy, Held, DbGrant

LEMMA OwnersDiffer ==
    ASSUME FenceInv, NEW v \in Sweepers, NEW w \in Sweepers, v # w,
           Busy(v), Busy(w), OwnsLease(v), OwnsLease(w)
    PROVE  sweeper[v].grant # sweeper[w].grant
BY DEF FenceInv, LeasesDiffer, OwnsLease, OwnsRevokeLease

LEMMA ActiveRequestsLast ==
    ASSUME RequestsGrow, NEW g \in Grants, NEW t, HasActiveRequests(g, t)
    PROVE  \E e \in requested'[g] : e > t
BY DEF RequestsGrow, HasActiveRequests

\* A run that does not move keeps its invariant while leases settle.
LEMMA SweeperUndisturbed ==
    ASSUME TypeInv, NEW w \in Sweepers, SweeperFenced(w),
           sweeper'[w] = sweeper[w], UNCHANGED clock,
           RequestsGrow, LeasesSettle, LeaseRespected(w)
    PROVE  SweeperFenced(w)'
<1>1. CASE ~Busy(w)
  BY <1>1 DEF SweeperFenced, Busy
<1>2. CASE Busy(w)
  <2>1. Busy(w)' /\ sweeper[w].grant \in Grants /\ sweeper'[w].grant = sweeper[w].grant
    BY <1>2, BusySweeper DEF Busy
  <2>2. NoNewLease(Held(w), Held(w)')
    BY <2>1 DEF LeasesSettle, Held
  <2>3. OwnsLease(w) => OwnsLease(w)' /\ SameLease(Held(w), Held(w)')
    BY <1>2, <2>1 DEF LeaseRespected, Held, SameLease, OwnsLease, OwnsRevokeLease, StaleLease
  <2>4. HasActiveRequests(sweeper[w].grant, sweeper[w].now)
          => HasActiveRequests(sweeper[w].grant, sweeper[w].now)'
    BY <2>1, ActiveRequestsLast DEF HasActiveRequests
  <2>5. ASSUME NEW e \in requested'[sweeper[w].grant]
        PROVE  e <= sweeper[w].now \/ e > sweeper[w].now + RevokeLease
    <3>1. CASE e \in requested[sweeper[w].grant]
      BY <3>1, <1>2 DEF SweeperFenced
    <3>2. CASE e \notin requested[sweeper[w].grant]
      <4>1. e \in Nat /\ e > clock + RevokeLease
        BY <3>2, <2>1 DEF RequestsGrow
      <4>2. sweeper[w].now \in Nat /\ clock \in Nat /\ RevokeLease \in Nat
        BY BusySweeper, RepositoryAssumption DEF TypeInv, TypeOK, StoreTypeOK
      <4> QED BY <4>1, <4>2 DEF SweeperFenced
    <3> QED BY <3>1, <3>2
  <2> QED
    BY <1>2, <2>1, <2>2, <2>3, <2>4, <2>5 DEF SweeperFenced, NoNewLease, SameLease
<1> QED BY <1>1, <1>2

\* A handler that does not move keeps its invariant while leases settle.
LEMMA WorkerUndisturbed ==
    ASSUME TypeInv, NEW k \in JobWorkers, WorkerFenced(k),
           worker'[k] = worker[k], LeasesSettle,
           worker[k].pc # "idle" =>
             /\ jobs'[JobOf(k)].status = "running"
             /\ jobs'[JobOf(k)].grant = jobs[JobOf(k)].grant
    PROVE  WorkerFenced(k)'
<1>1. CASE worker[k].pc = "idle"
  BY <1>1 DEF WorkerFenced
<1>2. CASE worker[k].pc # "idle"
  <2>1. GrantOf(k) \in Grants /\ GrantOf(k)' = GrantOf(k) /\ JobOf(k)' = JobOf(k)
    BY <1>2, BusyWorker DEF GrantOf, JobOf
  <2>2. NoNewLease(Row(k), Row(k)')
    BY <2>1 DEF LeasesSettle, Row
  <2> QED BY <1>2, <2>1, <2>2 DEF WorkerFenced, NoNewLease, SameLease
<1> QED BY <1>1, <1>2

LEMMA JobsStayInTime ==
    ASSUME TypeInv, JobsInTime, JobsSettle, RequestsGrow, JobsKept, UNCHANGED clock
    PROVE  JobsInTime'
<1> SUFFICES ASSUME NEW j \in JobIds, Unfinished(j)'
             PROVE  HasActiveRequests(jobs[j].grant, clock)'
  BY DEF JobsInTime
<1>1. \/ Unfinished(j) /\ jobs'[j].grant = jobs[j].grant
      \/ HasActiveRequests(jobs[j].grant, clock)'
  BY DEF JobsSettle, Unfinished
<1>2. CASE Unfinished(j) /\ jobs'[j].grant = jobs[j].grant
  <2>1. jobs[j].grant \in Grants
    BY <1>2 DEF TypeInv, JobsHaveGrants, Unfinished
  <2>2. HasActiveRequests(jobs[j].grant, clock)
    BY <1>2 DEF JobsInTime
  <2> QED BY <1>2, <2>1, <2>2, ActiveRequestsLast DEF HasActiveRequests
<1> QED BY <1>1, <1>2 DEF HasActiveRequests

LEMMA ExpiryStaysRequested ==
    ASSUME ExpiryIsRequested, RowsKept, NoRowInserted, UNCHANGED requested
    PROVE  ExpiryIsRequested'
BY DEF ExpiryIsRequested, RowsKept, Kept, NoRowInserted

LEMMA SameRequestsGrow ==
    ASSUME UNCHANGED requested
    PROVE  RequestsGrow
BY DEF RequestsGrow

LEMMA SameJobsSettle ==
    ASSUME UNCHANGED jobs
    PROVE  JobsSettle /\ RunningJobsCalm
BY DEF JobsSettle, RunningJobsCalm, Unfinished

LEMMA CreatedJobSettles ==
    ASSUME TypeInv, NEW g \in Grants, FreeJobs # {}, jobs' = CreateJob(g),
           \E e \in requested'[g] : e > clock'
    PROVE  JobsSettle /\ RunningJobsCalm
<1> DEFINE id == CHOOSE j \in FreeJobs : TRUE
<1>1. id \in JobIds /\ jobs[id].status = "unused"
  BY DEF FreeJobs
<1>2. jobs' = [jobs EXCEPT ![id] =
                 [status |-> "queued", grant |-> g, attempt_count |-> 0]]
      /\ jobs \in [JobIds -> Job]
  BY DEF CreateJob, TypeInv, TypeOK, StoreTypeOK
<1> HIDE DEF id
<1>3. jobs'[id].grant = g /\ \A j \in JobIds \ {id} : jobs'[j] = jobs[j]
  BY <1>1, <1>2
<1>4. RunningJobsCalm
  BY <1>1, <1>3 DEF RunningJobsCalm
<1>5. JobsSettle
  BY <1>1, <1>3 DEF JobsSettle, Unfinished, HasActiveRequests
<1> QED BY <1>4, <1>5

-----------------------------------------------------------------------------
(* What the others keep while one run moves *)

\* Everything of FenceInv but the run w itself.
OthersFenced(w) ==
    /\ \A v \in Sweepers \ {w} : SweeperFenced(v)
    /\ \A k \in JobWorkers : WorkerFenced(k)
    /\ JobsHeldOnce
    /\ JobsInTime
    /\ ExpiryIsRequested

LEMMA RunMoves ==
    ASSUME TypeInv, FenceInv, NEW w \in Sweepers,
           \A v \in Sweepers \ {w} : sweeper'[v] = sweeper[v] /\ LeaseRespected(v),
           UNCHANGED <<clock, requested, worker>>,
           RowsKept, NoRowInserted, LeasesSettle,
           JobsKept, JobsSettle, RunningJobsCalm
    PROVE  OthersFenced(w)'
<1>1. RequestsGrow
  BY SameRequestsGrow
<1>2. ASSUME NEW v \in Sweepers \ {w}
      PROVE  SweeperFenced(v)'
  BY <1>1, <1>2, SweeperUndisturbed DEF FenceInv
<1>3. ASSUME NEW k \in JobWorkers
      PROVE  WorkerFenced(k)'
  <2>1. worker[k].pc # "idle" => jobs'[JobOf(k)] = jobs[JobOf(k)]
                                 /\ jobs[JobOf(k)].status = "running"
    BY BusyWorker DEF FenceInv, WorkerFenced, RunningJobsCalm
  <2> QED BY <2>1, WorkerUndisturbed DEF FenceInv
<1>4. JobsHeldOnce'
  BY DEF FenceInv, JobsHeldOnce, JobOf
<1>5. JobsInTime'
  BY <1>1, JobsStayInTime DEF FenceInv
<1>6. ExpiryIsRequested'
  BY ExpiryStaysRequested DEF FenceInv
<1> QED BY <1>2, <1>3, <1>4, <1>5, <1>6 DEF OthersFenced

LEMMA NothingWritten ==
    ASSUME TypeInv, UNCHANGED <<grants, jobs>>
    PROVE  /\ RowsKept /\ NoRowInserted /\ LeasesSettle
           /\ \A v \in Sweepers : LeaseRespected(v)
           /\ JobsKept /\ JobsSettle /\ RunningJobsCalm
<1>1. RowsKept /\ JobsKept /\ JobsSettle /\ RunningJobsCalm
  BY UnchangedKeeps, UnchangedJobsKept, SameJobsSettle
<1>2. NoRowInserted /\ LeasesSettle /\ \A v \in Sweepers : LeaseRespected(v)
  BY DEF NoRowInserted, LeasesSettle, LeaseRespected, NoNewLease, SameLease
<1> QED BY <1>1, <1>2

\* A run that only moves on: what it is next respects its lease.
LEMMA RunMovesOn ==
    ASSUME TypeInv, FenceInv, NEW w \in Sweepers, NEW s \in SweeperState, Become(w, s),
           UNCHANGED <<clock, grants, requested, jobs, worker, events, hook>>,
           SweeperFenced(w)',
           s.pc \notin {"idle", "sweep"} => Busy(w) /\ s.lease = sweeper[w].lease
    PROVE  FenceInv'
<1>1. sweeper \in [Sweepers -> SweeperState] /\ sweeper' = [sweeper EXCEPT ![w] = s]
  BY DEF TypeInv, TypeOK, SweeperTypeOK, Become
<1>2. \A v \in Sweepers \ {w} : sweeper'[v] = sweeper[v]
  BY <1>1
<1>3. OthersFenced(w)'
  BY <1>2, NothingWritten, RunMoves
<1>4. LeasesDiffer'
  BY <1>1, <1>2 DEF FenceInv, LeasesDiffer, Busy
<1>5. NoEvents'
  BY DEF FenceInv, NoEvents
<1> QED BY <1>3, <1>4, <1>5 DEF FenceInv, OthersFenced

LEMMA IdleFenced ==
    ASSUME TypeInv, NEW w \in Sweepers, SweeperFenced(w), UNCHANGED clock,
           ~Busy(w)', sweeper'[w].now \in {0, sweeper[w].now}
    PROVE  SweeperFenced(w)'
BY DEF SweeperFenced, Busy, TypeInv, TypeOK, StoreTypeOK

-----------------------------------------------------------------------------
(* The ways a run ends *)

LEMMA ReturnsIdle ==
    ASSUME TypeInv, NEW w \in Sweepers, RevokeReturns(w)
    PROVE  /\ ~Busy(w)' /\ sweeper'[w].now \in {0, sweeper[w].now}
           /\ \A v \in Sweepers \ {w} : sweeper'[v] = sweeper[v]
BY DEF RevokeReturns, Become, IdleSweeper, Busy, TypeInv, TypeOK, SweeperTypeOK

LEMMA NotBusyLeasesDiffer ==
    ASSUME FenceInv, NEW w \in Sweepers, ~Busy(w)',
           \A v \in Sweepers \ {w} : sweeper'[v] = sweeper[v]
    PROVE  LeasesDiffer'
BY DEF FenceInv, LeasesDiffer, Busy

LEMMA RunStops ==
    ASSUME TypeInv, FenceInv, NEW w \in Sweepers, RevokeReturns(w),
           UNCHANGED <<clock, grants, requested, jobs, worker, events, hook>>
    PROVE  FenceInv'
<1>1. OthersFenced(w)'
  BY ReturnsIdle, NothingWritten, RunMoves
<1>2. SweeperFenced(w)'
  BY ReturnsIdle, IdleFenced DEF FenceInv
<1>3. LeasesDiffer' /\ NoEvents'
  BY ReturnsIdle, NotBusyLeasesDiffer DEF FenceInv, NoEvents
<1> QED BY <1>1, <1>2, <1>3 DEF FenceInv, OthersFenced

\* The run that owns the lease writes the outcome, which ends the lease.
LEMMA RunSettles ==
    ASSUME TypeInv, FenceInv, NEW w \in Sweepers, Busy(w), OwnsLease(w),
           RevokeReturns(w),
           NEW row, Kept(Held(w), row), row.status # "revoking",
           SetGrant(sweeper[w].grant, row),
           JobsKept, JobsSettle, RunningJobsCalm,
           UNCHANGED <<clock, requested, worker, events, hook>>
    PROVE  FenceInv'
<1>1. /\ sweeper[w].grant \in Grants /\ Held(w) = grants[sweeper[w].grant]
      /\ grants \in [Grants -> DbGrant]
  BY BusySweeper DEF TypeInv, TypeOK, StoreTypeOK
<1>2. RowsKept
  BY <1>1, SetGrantKeeps
<1>3. grants'[sweeper[w].grant] = row
      /\ \A g \in Grants \ {sweeper[w].grant} : grants'[g] = grants[g]
  BY <1>1 DEF SetGrant
<1>4. Held(w).status = "revoking"
  BY <1>1 DEF OwnsLease, OwnsRevokeLease
<1>5. NoRowInserted /\ LeasesSettle
  BY <1>1, <1>3, <1>4 DEF NoRowInserted, LeasesSettle, NoNewLease, SameLease
<1>6. ASSUME NEW v \in Sweepers \ {w}
      PROVE  LeaseRespected(v)
  <2>1. Busy(v) /\ OwnsLease(v) => sweeper[v].grant \in Grants \ {sweeper[w].grant}
    BY OwnersDiffer, BusySweeper
  <2> QED BY <1>3, <2>1 DEF LeaseRespected, SameLease
<1>7. OthersFenced(w)'
  BY <1>2, <1>5, <1>6, ReturnsIdle, RunMoves
<1>8. SweeperFenced(w)'
  BY ReturnsIdle, IdleFenced DEF FenceInv
<1>9. LeasesDiffer' /\ NoEvents'
  BY ReturnsIdle, NotBusyLeasesDiffer DEF FenceInv, NoEvents
<1> QED BY <1>7, <1>8, <1>9 DEF FenceInv, OthersFenced

LEMMA SettleFenced ==
    ASSUME TypeInv, FenceInv, NEW w \in Sweepers, Busy(w),
           NEW row, Kept(Held(w), row), OwnsLease(w) => row.status # "revoking",
           Settle(w, row), UNCHANGED <<clock, requested, jobs, worker, events, hook>>
    PROVE  FenceInv'
<1>1. JobsKept /\ JobsSettle /\ RunningJobsCalm
  BY UnchangedJobsKept, SameJobsSettle
<1>2. CASE OwnsLease(w)
  BY <1>1, <1>2, RunSettles DEF Settle
<1>3. CASE ~OwnsLease(w)
  <2>1. UNCHANGED grants
    BY <1>3 DEF Settle, SetGrant, TypeInv, TypeOK, StoreTypeOK
  <2> QED BY <2>1, RunStops DEF Settle
<1> QED BY <1>2, <1>3

LEMMA RecordFailureFenced ==
    ASSUME TypeInv, FenceInv, NEW w \in Sweepers, Busy(w), RecordFailure(w),
           UNCHANGED <<clock, requested, jobs, worker, events, hook>>
    PROVE  FenceInv'
<1> DEFINE stage == NextRetryStage(sweeper[w].attempts)
           row == FinalizeRevokeFailed(grants[sweeper[w].grant], stage,
                                       clock + RevokeRetryDelay[stage], FALSE)
<1>1. stage \in RetryStages
  BY RetryStageBounded DEF TypeInv, TypeOK, SweeperTypeOK, SweeperState
<1>2. clock + RevokeRetryDelay[stage] \in Nat
  BY <1>1, RepositoryAssumption DEF TypeInv, TypeOK, StoreTypeOK
<1>3. Settle(w, row)
  BY DEF RecordFailure
<1> HIDE DEF stage
<1>h. Held(w) = grants[sweeper[w].grant] /\ grants[sweeper[w].grant] \in DbGrant
  BY BusySweeper
<1>4. Kept(grants[sweeper[w].grant], row) /\ row.status = "revoke_failed"
  BY <1>1, <1>2, <1>h, FinalizeRevokeFailedType DEF Kept
<1> HIDE DEF row
<1> QED BY <1>3, <1>4, <1>h, SettleFenced

-----------------------------------------------------------------------------
(* The lease *)

\* A grant that can be leased has no unfinished job: the job would have a
\* request that the sweep finds active.
LEMMA RevocableHasNoJob ==
    ASSUME TypeInv, FenceInv, NEW w \in Sweepers, NEW g \in Grants, Revocable(w, g),
           NEW j \in JobIds, Unfinished(j)
    PROVE  jobs[j].grant # g
<1> SUFFICES ASSUME jobs[j].grant = g PROVE FALSE
  OBVIOUS
<1>1. PICK e \in requested[g] : e > clock
  BY DEF FenceInv, JobsInTime, HasActiveRequests
<1>2. /\ e \in Nat /\ clock \in Nat /\ sweeper[w].now \in Nat
      /\ sweeper[w].now <= clock
  BY BusySweeper DEF FenceInv, SweeperFenced, TypeInv, TypeOK, StoreTypeOK
<1> QED BY <1>1, <1>2 DEF Revocable, HasActiveRequests

\* Nor does any run own a lease on it.
LEMMA RevocableNotOwned ==
    ASSUME TypeInv, FenceInv, NEW w \in Sweepers, NEW g \in Grants, Revocable(w, g),
           NEW v \in Sweepers, Busy(v), sweeper[v].grant = g
    PROVE  ~OwnsLease(v)
<1>1. /\ clock \in Nat /\ sweeper[w].now \in Nat /\ sweeper[w].now <= clock
      /\ grants[g] \in DbGrant
  BY BusySweeper DEF FenceInv, SweeperFenced, TypeInv, TypeOK, StoreTypeOK
<1>2. CASE grants[g].status = "revoking"
  <2>1. StaleLease(grants[g], sweeper[w].now)
    BY <1>2 DEF Revocable, LeaseAvailable
  <2>2. StaleLease(grants[g], clock)
    BY <1>1, <2>1, StaleLeaseMonotone
  <2> QED BY <2>2 DEF OwnsLease, OwnsRevokeLease
<1>3. CASE grants[g].status # "revoking"
  BY <1>3 DEF OwnsLease, OwnsRevokeLease
<1> QED BY <1>2, <1>3

LEMMA AcquireFenced ==
    ASSUME TypeInv, FenceInv, NEW w \in Sweepers, NEW g \in Grants,
           NEW l \in LeaseIds, AcquireLease(w, g, l),
           UNCHANGED <<worker, events, hook>>
    PROVE  FenceInv'
<1> DEFINE row == AcquireRevokeLease(grants[g], l, sweeper[w].now)
           next == [sweeper[w] EXCEPT
                      !.pc = "leased", !.todo = @ \ {g}, !.grant = g, !.lease = l,
                      !.byApp = grants[g].membership_created_by_app,
                      !.attempts = grants[g].revoke_attempt_count]
<1>1. /\ sweeper[w].pc = "sweep" /\ Revocable(w, g) /\ FreshLease(l)
      /\ SetGrant(g, row) /\ Become(w, next)
      /\ UNCHANGED <<clock, requested, jobs>>
  BY DEF AcquireLease
<1>2. /\ grants \in [Grants -> DbGrant] /\ grants[g] \in DbGrant
      /\ sweeper \in [Sweepers -> SweeperState] /\ sweeper[w] \in SweeperState
      /\ sweeper[w].now \in Nat /\ clock \in Nat /\ sweeper[w].now <= clock
      /\ requested[g] \in SUBSET Nat
  BY BusySweeper DEF FenceInv, SweeperFenced, TypeInv, TypeOK, StoreTypeOK, SweeperTypeOK
<1>3. /\ Kept(grants[g], row) /\ row.status = "revoking"
      /\ row.revoking_lease_id = l /\ row.revoking_started_at = sweeper[w].now
  BY <1>2, AcquireRevokeLeaseType DEF Kept
<1>4. /\ next.pc = "leased" /\ next.grant = g /\ next.lease = l
      /\ next.now = sweeper[w].now
  BY <1>2 DEF SweeperState
<1> HIDE DEF row, next
<1>5. /\ sweeper'[w] = next /\ grants'[g] = row
      /\ \A v \in Sweepers \ {w} : sweeper'[v] = sweeper[v]
      /\ \A h \in Grants \ {g} : grants'[h] = grants[h]
  BY <1>1, <1>2 DEF Become, SetGrant
<1>6. SweeperFenced(w)'
  <2>1. \A e \in requested[g] : e <= sweeper[w].now
    BY <1>1, <1>2 DEF Revocable, HasActiveRequests
  <2>2. Held(w)' = row
    BY <1>4, <1>5 DEF Held
  <2> QED BY <1>1, <1>2, <1>3, <1>4, <1>5, <2>1, <2>2 DEF SweeperFenced, Busy
<1>7. ASSUME NEW v \in Sweepers \ {w}
      PROVE  SweeperFenced(v)'
  <2>1. CASE ~Busy(v)
    BY <1>1, <1>5, <2>1 DEF FenceInv, SweeperFenced, Busy
  <2>2. CASE Busy(v) /\ sweeper[v].grant # g
    <3>1. grants'[sweeper[v].grant] = grants[sweeper[v].grant]
      BY <1>5, <2>2, BusySweeper
    <3> QED
      BY <1>1, <1>5, <3>1
         DEF FenceInv, SweeperFenced, Busy, Held, OwnsLease, OwnsRevokeLease, StaleLease,
             HasActiveRequests
  <2>3. CASE Busy(v) /\ sweeper[v].grant = g
    <3>1. sweeper[v].lease # l
      BY <1>1 DEF FreshLease
    <3>2. ~OwnsLease(v)
      BY <1>1, <2>3, RevocableNotOwned
    <3>3. sweeper[v].pc \notin {"cancel", "deleting"}
      BY <3>2 DEF FenceInv, SweeperFenced
    <3> QED BY <1>1, <1>3, <1>5, <2>3, <3>1, <3>3 DEF FenceInv, SweeperFenced, Busy, Held
  <2> QED BY <2>1, <2>2, <2>3
<1>8. LeasesDiffer'
  BY <1>1, <1>4, <1>5 DEF FenceInv, LeasesDiffer, Busy, FreshLease
<1>9. ASSUME NEW k \in JobWorkers
      PROVE  WorkerFenced(k)'
  <2>1. CASE worker[k].pc = "idle"
    BY <2>1 DEF WorkerFenced
  <2>2. CASE worker[k].pc # "idle"
    <3>1. JobOf(k) \in JobIds /\ Unfinished(JobOf(k)) /\ GrantOf(k) \in Grants
      BY <2>2, BusyWorker DEF FenceInv, WorkerFenced, Unfinished
    <3>2. GrantOf(k) # g
      BY <1>1, <3>1, RevocableHasNoJob DEF GrantOf
    <3>3. JobOf(k)' = JobOf(k) /\ GrantOf(k)' = GrantOf(k) /\ Row(k)' = Row(k)
      BY <1>1, <1>5, <3>1, <3>2 DEF JobOf, GrantOf, Row
    <3> QED BY <1>1, <3>3 DEF FenceInv, WorkerFenced
  <2> QED BY <2>1, <2>2
<1>10. JobsHeldOnce' /\ JobsInTime'
  BY <1>1 DEF FenceInv, JobsHeldOnce, JobsInTime, JobOf, Unfinished, HasActiveRequests
<1>11. ExpiryIsRequested'
  <2>1. grants[g].status # "none"
    BY <1>1 DEF Revocable, LeaseAvailable
  <2> QED BY <1>1, <1>3, <1>5, <2>1 DEF FenceInv, ExpiryIsRequested, Kept
<1>12. NoEvents'
  BY DEF FenceInv, NoEvents
<1> QED BY <1>6, <1>7, <1>8, <1>9, <1>10, <1>11, <1>12 DEF FenceInv

-----------------------------------------------------------------------------
(* The sweepers *)

LEMMA SweepFenced ==
    ASSUME Ordinary, TypeInv, FenceInv, NEW w \in Sweepers, SweeperNext(w),
           UNCHANGED <<worker, events, hook>>
    PROVE  FenceInv'
<1>a. /\ sweeper \in [Sweepers -> SweeperState] /\ sweeper[w] \in SweeperState
      /\ clock \in Nat /\ sweeper[w].now \in Nat /\ sweeper[w].now <= clock
      /\ Busy(w) => /\ sweeper[w].grant \in Grants
                    /\ Held(w) = grants[sweeper[w].grant] /\ Held(w) \in DbGrant
      /\ SweeperFenced(w)
  BY BusySweeper DEF FenceInv, SweeperFenced, TypeInv, TypeOK, StoreTypeOK, SweeperTypeOK
<1>s. UNCHANGED storeVars => UNCHANGED <<clock, grants, requested, jobs>>
  BY DEF storeVars
\* A step of the run w that writes nothing and keeps its grant, lease and now.
<1>m. ASSUME NEW s \in SweeperState, Become(w, s), Busy(w),
             s.now = sweeper[w].now, s.grant = sweeper[w].grant, s.lease = sweeper[w].lease,
             s.pc \notin {"idle", "sweep", "cancel", "deleting"},
             UNCHANGED <<clock, grants, requested, jobs>>
      PROVE  FenceInv'
  <2>1. sweeper'[w] = s
    BY <1>a, <1>m DEF Become
  <2>2. SweeperFenced(w)'
    BY <1>a, <1>m, <2>1 DEF SweeperFenced, Busy, Held
  <2> QED BY <1>m, <2>2, RunMovesOn
<1>1. CASE SweepStart(w)
  <2> DEFINE next == [IdleSweeper EXCEPT !.pc = "sweep", !.now = clock,
                        !.todo = {g \in Grants : GetExpired(grants[g], clock)}]
  <2>1. next \in SweeperState /\ next.pc = "sweep" /\ next.now = clock
    BY <1>a DEF IdleSweeper, SweeperState, Roles
  <2>2. Become(w, next) /\ UNCHANGED <<clock, grants, requested, jobs>>
    BY <1>1, <1>s DEF SweepStart
  <2> HIDE DEF next
  <2>3. SweeperFenced(w)'
    BY <1>a, <2>1, <2>2 DEF Become, SweeperFenced, Busy
  <2> QED BY <2>1, <2>2, <2>3, RunMovesOn
<1>2. ASSUME NEW g \in Grants, SkipGrant(w, g)
      PROVE  FenceInv'
  <2> DEFINE rest == sweeper[w].todo \ {g}
             next == IF rest = {} THEN IdleSweeper ELSE [sweeper[w] EXCEPT !.todo = rest]
  <2>1. next \in SweeperState /\ next.pc \in {"idle", "sweep"}
        /\ next.now \in {0, sweeper[w].now}
    BY <1>2, <1>a, IdleSweeperType DEF SkipGrant, SweeperState, IdleSweeper
  <2>2. Become(w, next) /\ UNCHANGED <<clock, grants, requested, jobs>>
    BY <1>2, <1>s DEF SkipGrant
  <2> HIDE DEF next
  <2>3. SweeperFenced(w)'
    BY <1>a, <2>1, <2>2, IdleFenced DEF Become, Busy
  <2> QED BY <2>1, <2>2, <2>3, RunMovesOn
<1>3. ASSUME NEW g \in Grants, NEW l \in LeaseIds, AcquireLease(w, g, l)
      PROVE  FenceInv'
  BY <1>3, AcquireFenced
<1>4. CASE FinishPreexisting(w)
  <2>1. Busy(w) /\ Settle(w, FinalizeRevoked(grants[sweeper[w].grant]))
        /\ UNCHANGED <<clock, requested, jobs>>
    BY <1>4 DEF FinishPreexisting, Busy
  <2>2. Kept(Held(w), FinalizeRevoked(grants[sweeper[w].grant]))
        /\ FinalizeRevoked(grants[sweeper[w].grant]).status = "revoked"
    BY <1>a, <2>1, FinalizeRevokedType DEF Kept
  <2> QED BY <2>1, <2>2, SettleFenced
<1>5. CASE ReadRole(w)
  <2> DEFINE next == [sweeper[w] EXCEPT !.pc = "read", !.seen = role]
  <2>1. /\ next \in SweeperState /\ next.pc = "read" /\ next.now = sweeper[w].now
        /\ next.grant = sweeper[w].grant /\ next.lease = sweeper[w].lease
    BY <1>a DEF SweeperState, TypeInv, TypeOK, StoreTypeOK
  <2>2. Become(w, next) /\ Busy(w)
    BY <1>5 DEF ReadRole, Busy
  <2> HIDE DEF next
  <2> QED BY <1>5, <1>m, <1>s, <2>1, <2>2 DEF ReadRole
<1>6. CASE CompleteSuccessfulRevoke(w)
  <2> DEFINE row == FinalizeSuccessfulRevoke(grants[sweeper[w].grant],
                                             sweeper[w].lease, clock)
  <2>1. Busy(w) /\ Settle(w, row) /\ UNCHANGED <<clock, requested, jobs>>
    BY <1>6 DEF CompleteSuccessfulRevoke, Busy
  <2>2. Kept(Held(w), row) /\ (OwnsLease(w) => row.status # "revoking")
    BY <1>a, <2>1, FinalizeSuccessfulRevokeType DEF Kept, OwnsLease
  <2> HIDE DEF row
  <2> QED BY <2>1, <2>2, SettleFenced
<1>7. CASE ProtectMaintainer(w)
  <2> DEFINE row == FinalizeRevokeFailed(grants[sweeper[w].grant],
                                         NextRetryStage(sweeper[w].attempts),
                                         clock + RevokeRetryDelay[4], TRUE)
  <2>1. Busy(w) /\ Settle(w, row) /\ UNCHANGED <<clock, requested, jobs>>
    BY <1>7 DEF ProtectMaintainer, Busy
  <2>2. clock + RevokeRetryDelay[4] \in Nat
        /\ NextRetryStage(sweeper[w].attempts) \in RetryStages
    BY <1>a, RepositoryAssumption, RetryStageBounded DEF RetryStages, SweeperState
  <2>3. Kept(grants[sweeper[w].grant], row) /\ row.status = "revoke_failed"
    BY <1>a, <2>1, <2>2, FinalizeRevokeFailedType DEF Kept
  <2> HIDE DEF row
  <2> QED BY <1>a, <2>1, <2>3, SettleFenced
<1>8. CASE AbandonRemoval(w)
  BY <1>8, <1>s, RunStops DEF AbandonRemoval
<1>9. CASE BeginCancel(w)
  <2> DEFINE next == [sweeper[w] EXCEPT !.pc = "cancel"]
  <2>1. /\ next \in SweeperState /\ next.pc = "cancel" /\ next.now = sweeper[w].now
        /\ next.grant = sweeper[w].grant /\ next.lease = sweeper[w].lease
    BY <1>a DEF SweeperState
  <2>2. /\ Become(w, next) /\ Busy(w) /\ OwnsLease(w)
        /\ HasActiveRequests(sweeper[w].grant, sweeper[w].now)
        /\ UNCHANGED <<clock, grants, requested, jobs>>
    BY <1>9, <1>s DEF BeginCancel, FencePassed, Busy
  <2> HIDE DEF next
  <2>3. SweeperFenced(w)'
    BY <1>a, <2>1, <2>2
       DEF Become, SweeperFenced, Busy, Held, OwnsLease, OwnsRevokeLease, StaleLease,
           HasActiveRequests
  <2> QED BY <2>1, <2>2, <2>3, RunMovesOn
<1>10. CASE CancelRevocation(w)
  <2> DEFINE g == sweeper[w].grant
             waiting == UpdateGrantStatus(grants[g], "pending", "keep")
             cancelled == UpdateMutationState(waiting, "reactivation_required")
             row == ClearRevokeLease(cancelled)
  <2>1. /\ Busy(w) /\ OwnsLease(w) /\ g \in Grants /\ grants[g] \in DbGrant
        /\ HasActiveRequests(g, sweeper[w].now)
    BY <1>10, <1>a DEF CancelRevocation, SweeperFenced, Busy
  <2>2. waiting \in DbGrant /\ waiting.status = "pending"
        /\ waiting.effective_expires_at = grants[g].effective_expires_at
    BY <2>1, UpdateGrantStatusType DEF GrantStatus
  <2>3. cancelled \in DbGrant /\ cancelled.status = "pending"
        /\ cancelled.effective_expires_at = grants[g].effective_expires_at
    <3> HIDE DEF waiting
    <3> QED BY <2>2, UpdateMutationStateType DEF MutationState
  <2>4. Kept(grants[g], row) /\ row.status = "pending"
    <3> HIDE DEF cancelled
    <3> QED BY <2>3, ClearRevokeLeaseType DEF Kept
  <2>5. UNCHANGED <<clock, requested>>
    BY <1>10 DEF CancelRevocation
  <2>6. CASE IndexAccepts(g, cancelled)
    <3>1. /\ FreeJobs # {} /\ jobs' = CreateJob(g)
          /\ SetGrant(g, row) /\ RevokeReturns(w)
      BY <1>10, <2>6 DEF CancelRevocation
    <3> HIDE DEF row
    <3>2. JobsKept
      BY <2>1, <3>1, CreateJobKeeps
    \* The request is younger than the lease, which is not stale.
    <3>3. HasActiveRequests(g, clock)
      <4>1. PICK e \in requested[g] : e > sweeper[w].now
        BY <2>1 DEF HasActiveRequests
      <4>2. e \in Nat /\ RevokeLease \in Nat
        BY <2>1, RepositoryAssumption DEF TypeInv, TypeOK, StoreTypeOK
      <4>3. e > sweeper[w].now + RevokeLease
        BY <1>a, <2>1, <4>1, <4>2 DEF SweeperFenced
      <4>4. Held(w).revoking_started_at = sweeper[w].now
        BY <1>a, <2>1 DEF SweeperFenced, OwnsLease, OwnsRevokeLease
      <4>5. sweeper[w].now + RevokeLease > clock
        BY <1>a, <2>1, <4>2, <4>4 DEF OwnsLease, OwnsRevokeLease, StaleLease
      <4> QED BY <1>a, <4>2, <4>3, <4>5 DEF HasActiveRequests
    <3>4. JobsSettle /\ RunningJobsCalm
      <4>1. \E e \in requested'[g] : e > clock'
        BY <2>5, <3>3 DEF HasActiveRequests
      <4> HIDE DEF g
      <4> QED BY <2>1, <3>1, <4>1, CreatedJobSettles
    <3> QED BY <1>a, <2>1, <2>4, <2>5, <3>1, <3>2, <3>4, RunSettles
  <2>7. CASE ~IndexAccepts(g, cancelled)
    <3>1. RecordFailure(w) /\ UNCHANGED jobs
      BY <1>10, <2>7 DEF CancelRevocation
    <3> QED BY <3>1, <2>1, <2>5, RecordFailureFenced
  <2> QED BY <2>6, <2>7
<1>11. CASE BeginRemoval(w)
  <2> DEFINE next == [sweeper[w] EXCEPT !.pc = "deleting", !.sentAt = clock]
  <2>1. /\ next \in SweeperState /\ next.pc = "deleting" /\ next.now = sweeper[w].now
        /\ next.grant = sweeper[w].grant /\ next.lease = sweeper[w].lease
        /\ next.sentAt = clock
    BY <1>a DEF SweeperState
  <2>2. /\ Become(w, next) /\ Busy(w) /\ OwnsLease(w)
        /\ clock + CallTimeout < grants[sweeper[w].grant].revoking_started_at + RevokeLease
        /\ UNCHANGED <<clock, grants, requested, jobs>>
    <3>1. OwnsLease(w) /\ RemovalInTime(w) /\ Become(w, next) /\ Busy(w)
          /\ UNCHANGED <<clock, grants, requested, jobs>>
      BY <1>11, <1>s DEF BeginRemoval, FencePassed, Busy
    <3>2. ~Admitted("late_fence") /\ grants[sweeper[w].grant].revoking_started_at # NULL
      BY <1>s, <3>1 DEF OwnsLease, OwnsRevokeLease, StaleLease, Ordinary, Admitted
    <3> QED BY <3>1, <3>2 DEF RemovalInTime
  <2>3. clock <= clock + CallTimeout
    BY <1>a, TimeoutAssumption
  <2> HIDE DEF next
  <2>4. SweeperFenced(w)'
    BY <1>a, <2>1, <2>2, <2>3
       DEF Become, SweeperFenced, Busy, Held, OwnsLease, OwnsRevokeLease, StaleLease
  <2> QED BY <2>1, <2>2, <2>4, RunMovesOn
<1>12. CASE GitHubRemoves(w)
  <2> DEFINE next == [sweeper[w] EXCEPT !.pc = "deleted"]
  <2>1. /\ next \in SweeperState /\ next.pc = "deleted" /\ next.now = sweeper[w].now
        /\ next.grant = sweeper[w].grant /\ next.lease = sweeper[w].lease
    BY <1>a DEF SweeperState
  <2>2. Become(w, next) /\ Busy(w) /\ UNCHANGED <<clock, grants, requested, jobs>>
    BY <1>12 DEF GitHubRemoves, Busy
  <2> HIDE DEF next
  <2> QED BY <1>m, <2>1, <2>2
<1>13. CASE VerifyRemoval(w)
  <2> DEFINE next == [sweeper[w] EXCEPT !.pc = "verified", !.seen = role]
  <2>1. /\ next \in SweeperState /\ next.pc = "verified" /\ next.now = sweeper[w].now
        /\ next.grant = sweeper[w].grant /\ next.lease = sweeper[w].lease
    BY <1>a DEF SweeperState, TypeInv, TypeOK, StoreTypeOK
  <2>2. Become(w, next) /\ Busy(w)
    BY <1>13 DEF VerifyRemoval, Busy
  <2> HIDE DEF next
  <2> QED BY <1>13, <1>m, <1>s, <2>1, <2>2 DEF VerifyRemoval
<1>14. CASE RemovalNotVerified(w)
  BY <1>14, RecordFailureFenced DEF RemovalNotVerified, Busy
<1>15. CASE CallFails(w)
  BY <1>15, RecordFailureFenced DEF CallFails, Busy
<1>16. CASE CrashSweeper(w)
  <2>1. Become(w, IdleSweeper) /\ UNCHANGED <<clock, grants, requested, jobs>>
    BY <1>16 DEF CrashSweeper
  <2>2. SweeperFenced(w)'
    BY <1>a, <2>1, IdleFenced DEF Become, Busy, IdleSweeper
  <2> QED BY <2>1, <2>2, IdleSweeperType, RunMovesOn DEF IdleSweeper
<1> QED
  BY <1>1, <1>2, <1>3, <1>4, <1>5, <1>6, <1>7, <1>8, <1>9, <1>10, <1>11, <1>12,
     <1>13, <1>14, <1>15, <1>16 DEF SweeperNext, RevokeStep

-----------------------------------------------------------------------------
(* The job workers *)

\* A step of a handler: it may write its grant, once that is not being revoked
\* (any more), and end its job.
LEMMA HandlerMoves ==
    ASSUME ExpiryInv, FenceInv, NEW k \in JobWorkers, worker[k].pc # "idle",
           NEW row, Kept(Row(k), row), SetGrant(GrantOf(k), row),
           \/ row = Row(k)
           \/ /\ row.status # "revoking"
              /\ Row(k).status = "revoking" => StaleLease(Row(k), clock),
           \A i \in JobWorkers \ {k} : worker'[i] = worker[i],
           \A j \in JobIds \ {JobOf(k)} : jobs'[j] = jobs[j],
           JobsKept,
           \/ worker'[k].pc = "idle"
           \/ /\ worker'[k].pc # "acquired" /\ worker'[k].job = JobOf(k)
              /\ jobs'[JobOf(k)] = jobs[JobOf(k)]
              /\ row.status # "revoking",
           UNCHANGED <<clock, requested, sweeper, events, hook>>
    PROVE  FenceInv'
<1>1. /\ TypeInv /\ JobOf(k) \in JobIds /\ GrantOf(k) \in Grants
      /\ Row(k) = grants[GrantOf(k)] /\ Row(k) \in DbGrant
      /\ grants \in [Grants -> DbGrant]
      /\ jobs[JobOf(k)].status = "running" /\ jobs[JobOf(k)].grant = GrantOf(k)
  BY BusyWorker DEF ExpiryInv, TypeInv, TypeOK, StoreTypeOK, FenceInv, WorkerFenced, GrantOf
<1>2. /\ grants'[GrantOf(k)] = row
      /\ \A g \in Grants \ {GrantOf(k)} : grants'[g] = grants[g]
  BY <1>1 DEF SetGrant
<1>3. Row(k).status # "none"
  <2>1. HasActiveRequests(GrantOf(k), clock)
    BY <1>1 DEF FenceInv, JobsInTime, Unfinished
  <2> QED BY <1>1, <2>1 DEF HasActiveRequests, ExpiryInv, NoRowNoRequest
<1>4. RowsKept /\ NoRowInserted
  BY <1>1, <1>2, <1>3, SetGrantKeeps DEF NoRowInserted
<1>5. LeasesSettle
  BY <1>1, <1>2 DEF LeasesSettle, NoNewLease, SameLease
<1>6. ASSUME NEW v \in Sweepers
      PROVE  LeaseRespected(v)
  <2>1. CASE Busy(v) /\ OwnsLease(v) /\ sweeper[v].grant = GrantOf(k)
    <3>1. Row(k).status = "revoking" /\ ~StaleLease(Row(k), clock)
      BY <1>1, <2>1 DEF OwnsLease, OwnsRevokeLease
    <3>2. row = Row(k)
      BY <3>1
    <3> QED BY <1>1, <1>2, <2>1, <3>2 DEF LeaseRespected, SameLease
  <2>2. CASE Busy(v) /\ sweeper[v].grant # GrantOf(k)
    BY <1>1, <1>2, <2>2, BusySweeper DEF LeaseRespected, SameLease
  <2> QED BY <2>1, <2>2 DEF LeaseRespected
<1>7. RequestsGrow
  BY SameRequestsGrow
<1>8. \A v \in Sweepers : SweeperFenced(v)'
  BY <1>1, <1>5, <1>6, <1>7, SweeperUndisturbed DEF FenceInv
<1>9. ASSUME NEW i \in JobWorkers \ {k}
      PROVE  WorkerFenced(i)'
  <2>1. worker[i].pc # "idle" => /\ JobOf(i) \in JobIds \ {JobOf(k)}
                                /\ jobs[JobOf(i)].status = "running"
    BY <1>1, BusyWorker DEF FenceInv, JobsHeldOnce, WorkerFenced
  <2> QED BY <1>1, <1>5, <2>1, WorkerUndisturbed DEF FenceInv
<1>10. WorkerFenced(k)'
  <2>1. CASE worker'[k].pc = "idle"
    BY <2>1 DEF WorkerFenced
  <2>2. CASE worker'[k].pc # "idle"
    <3>1. JobOf(k)' = JobOf(k) /\ GrantOf(k)' = GrantOf(k)
      BY <2>2 DEF JobOf, GrantOf
    <3>2. Row(k)' = row
      BY <1>2, <3>1 DEF Row
    <3> QED BY <1>1, <2>2, <3>1, <3>2 DEF WorkerFenced
  <2> QED BY <2>1, <2>2
<1>11. JobsHeldOnce'
  BY DEF FenceInv, JobsHeldOnce, JobOf
<1>12. JobsSettle
  BY <1>1 DEF JobsSettle, Unfinished, JobsKept
<1>13. JobsInTime' /\ ExpiryIsRequested'
  BY <1>1, <1>4, <1>7, <1>12, JobsStayInTime, ExpiryStaysRequested DEF FenceInv
<1>14. LeasesDiffer' /\ NoEvents'
  BY DEF FenceInv, LeasesDiffer, NoEvents, Busy
<1> QED BY <1>8, <1>9, <1>10, <1>11, <1>13, <1>14 DEF FenceInv

\* No decision of a handler leaves its grant in revoking.
LEMMA DecisionsNotRevoking ==
    ASSUME NEW k \in JobWorkers, Row(k) \in DbGrant
    PROVE  /\ Reactivated(k).status # "revoking"
           /\ Recovered(k).status # "revoking"
           /\ Revalidated(k).status # "revoking"
           /\ Activated(Confirmed(Row(k))).status # "revoking"
           /\ \A r \in {"member", "maintainer"} : PresentBefore(Row(k), r).status # "revoking"
           /\ Confirmed(Elevated(Row(k), "active")).status # "revoking"
           /\ Claimed(Row(k)).status # "revoking"
           /\ UpdateGrantStatus(Claimed(Row(k)), "active", "elevated").status # "revoking"
<1>1. ASSUME NEW row \in DbGrant
      PROVE  /\ Confirmed(row) \in DbGrant /\ Confirmed(row).status = row.status
             /\ Activated(row).status = "active"
             /\ \A r \in {"member", "maintainer"} :
                  PresentBefore(row, r).status = "already_present"
  <2>1. Confirmed(row) \in DbGrant /\ Confirmed(row).status = row.status
    BY UpdateMutationStateType DEF Confirmed, MutationState
  <2>2. Activated(row).status = "active"
    BY UpdateGrantStatusAndMembershipType DEF Activated, GrantStatus
  <2>3. ASSUME NEW r \in {"member", "maintainer"}
        PROVE  PresentBefore(row, r).status = "already_present"
    BY UpdateGrantStatusAndMembershipType DEF PresentBefore, GrantStatus
  <2> QED BY <2>1, <2>2, <2>3
<1>2. ASSUME NEW st \in {"active", "revoke_failed"}
      PROVE  Elevated(Row(k), st) \in DbGrant /\ Elevated(Row(k), st).status = st
  <2> DEFINE mid == UpdateGrantStatusAndMembership(Row(k), st, 1, NULL)
  <2>1. mid \in DbGrant
    BY UpdateGrantStatusAndMembershipType DEF GrantStatus
  <2> HIDE DEF mid
  <2>2. LET new == UpdateGrantStatus(mid, st, "elevated")
        IN  new \in DbGrant /\ new.status = st
    BY <2>1, UpdateGrantStatusType DEF GrantStatus
  <2> QED BY <2>2 DEF Elevated, mid
<1>3. Confirmed(Row(k)) \in DbGrant
  BY <1>1
<1>4. \A st \in {"active", "revoke_failed"} : Confirmed(Elevated(Row(k), st)).status = st
  BY <1>1, <1>2
<1>5. Activated(Confirmed(Row(k))).status = "active"
      /\ PresentBefore(Confirmed(Row(k)), "member").status = "already_present"
  BY <1>1, <1>3
<1>6. Claimed(Row(k)) \in DbGrant /\ Claimed(Row(k)).status = "active"
  BY <1>5, ClaimedKeeps, ConfirmMembershipType DEF Claimed, Kept
<1>7. UpdateGrantStatus(Claimed(Row(k)), "active", "elevated").status = "active"
  BY <1>6, UpdateGrantStatusType DEF GrantStatus
<1>8. Reactivated(k).status # "revoking"
  BY <1>1, <1>4, <1>5 DEF Reactivated
<1>9. Recovered(k).status # "revoking"
  BY <1>2, <1>5 DEF Recovered
<1>10. Revalidated(k).status # "revoking"
  BY <1>1, <1>4 DEF Revalidated
<1> QED BY <1>1, <1>4, <1>5, <1>6, <1>7, <1>8, <1>9, <1>10

LEMMA JobStatementsAlone ==
    ASSUME TypeInv, NEW j \in JobIds,
           \/ jobs' = CompleteJob(j)
           \/ jobs' = FailJob(j)
           \/ jobs' = ReleaseJobForRetry(j)
           \/ jobs' = DeferJob(j)
    PROVE  \A i \in JobIds \ {j} : jobs'[i] = jobs[i]
BY DEF CompleteJob, FailJob, ReleaseJobForRetry, DeferJob, TypeInv, TypeOK, StoreTypeOK

LEMMA HandlerReturnsIdle ==
    ASSUME TypeInv, NEW k \in JobWorkers, HandlerReturns(k)
    PROVE  worker'[k].pc = "idle" /\ \A i \in JobWorkers \ {k} : worker'[i] = worker[i]
BY DEF HandlerReturns, Proceed, IdleWorker, TypeInv, TypeOK, WorkerTypeOK

LEMMA HandlerProceeds ==
    ASSUME TypeInv, NEW k \in JobWorkers, NEW s, Proceed(k, s)
    PROVE  worker'[k] = s /\ \A i \in JobWorkers \ {k} : worker'[i] = worker[i]
BY DEF Proceed, TypeInv, TypeOK, WorkerTypeOK

\* A handler past its first synchronous block.
Underway(k) == worker[k].pc \notin {"idle", "acquired"}

LEMMA UnderwayNotRevoking ==
    ASSUME FenceInv, NEW k \in JobWorkers, Underway(k)
    PROVE  worker[k].pc # "idle" /\ Row(k).status # "revoking"
BY DEF FenceInv, WorkerFenced, Underway

LEMMA UnchangedIsSetGrant ==
    ASSUME TypeInv, NEW k \in JobWorkers, worker[k].pc # "idle", UNCHANGED grants
    PROVE  SetGrant(GrantOf(k), Row(k)) /\ Kept(Row(k), Row(k))
BY BusyWorker DEF SetGrant, Kept, Row, TypeInv, TypeOK, StoreTypeOK

LEMMA JobFailsFenced ==
    ASSUME ExpiryInv, FenceInv, NEW k \in JobWorkers, Underway(k), JobFails(k),
           UNCHANGED <<clock, requested, sweeper, events, hook>>
    PROVE  FenceInv'
<1> DEFINE failed == UpdateGrantStatus(Row(k), "grant_failed", "other")
<1>1. /\ TypeInv /\ worker[k].pc # "idle" /\ JobOf(k) \in JobIds
      /\ Row(k) \in DbGrant /\ Row(k).status # "revoking"
  BY UnderwayNotRevoking, BusyWorker DEF ExpiryInv
<1>2. Kept(Row(k), failed) /\ failed.status = "grant_failed"
  BY <1>1, UpdateGrantStatusType DEF Kept, GrantStatus
<1>3. JobsKept
  BY <1>1, JobFailsType
<1>4. \/ jobs' = FailJob(JobOf(k)) /\ SetGrant(GrantOf(k), failed)
      \/ jobs' = ReleaseJobForRetry(JobOf(k)) /\ UNCHANGED grants
  BY DEF JobFails
<1>5. \A j \in JobIds \ {JobOf(k)} : jobs'[j] = jobs[j]
  BY <1>1, <1>4, JobStatementsAlone
<1>6. worker'[k].pc = "idle" /\ \A i \in JobWorkers \ {k} : worker'[i] = worker[i]
  BY <1>1, HandlerReturnsIdle DEF JobFails
<1> HIDE DEF failed
<1>7. CASE SetGrant(GrantOf(k), failed)
  BY <1>1, <1>2, <1>3, <1>5, <1>6, <1>7, HandlerMoves
<1>8. CASE UNCHANGED grants
  <2>1. SetGrant(GrantOf(k), Row(k)) /\ Kept(Row(k), Row(k))
    BY <1>1, <1>8, UnchangedIsSetGrant
  <2> QED BY <1>1, <1>3, <1>5, <1>6, <2>1, HandlerMoves
<1> QED BY <1>4, <1>7, <1>8

LEMMA CommitFenced ==
    ASSUME ExpiryInv, FenceInv, NEW k \in JobWorkers, Underway(k),
           NEW row, Kept(Row(k), row), row.status # "revoking", CommitAndComplete(k, row),
           UNCHANGED <<clock, requested, sweeper, events, hook>>
    PROVE  FenceInv'
<1>1. TypeInv /\ worker[k].pc # "idle" /\ JobOf(k) \in JobIds
  BY UnderwayNotRevoking, BusyWorker DEF ExpiryInv
<1>2. CASE IndexAccepts(GrantOf(k), row)
  <2>1. JobsKept
    BY <1>1, CommitAndCompleteType
  <2>2. /\ \A j \in JobIds \ {JobOf(k)} : jobs'[j] = jobs[j]
        /\ worker'[k].pc = "idle" /\ \A i \in JobWorkers \ {k} : worker'[i] = worker[i]
    BY <1>1, <1>2, JobStatementsAlone, HandlerReturnsIdle DEF CommitAndComplete
  <2> QED
    BY <1>1, <1>2, <2>1, <2>2, UnderwayNotRevoking, HandlerMoves DEF CommitAndComplete
<1>3. CASE ~IndexAccepts(GrantOf(k), row)
  BY <1>3, JobFailsFenced DEF CommitAndComplete
<1> QED BY <1>2, <1>3

LEMMA FailGrantFenced ==
    ASSUME ExpiryInv, FenceInv, NEW k \in JobWorkers, Underway(k), FailGrant(k),
           UNCHANGED <<clock, requested, sweeper, events, hook>>
    PROVE  FenceInv'
<1> DEFINE row == UpdateGrantStatus(Row(k), "grant_failed", "other")
<1>1. TypeInv /\ worker[k].pc # "idle" /\ JobOf(k) \in JobIds /\ Row(k) \in DbGrant
  BY UnderwayNotRevoking, BusyWorker DEF ExpiryInv
<1>2. Kept(Row(k), row) /\ row.status = "grant_failed"
  BY <1>1, UpdateGrantStatusType DEF Kept, GrantStatus
<1>3. /\ JobsKept /\ SetGrant(GrantOf(k), row)
      /\ \A j \in JobIds \ {JobOf(k)} : jobs'[j] = jobs[j]
      /\ worker'[k].pc = "idle" /\ \A i \in JobWorkers \ {k} : worker'[i] = worker[i]
  BY <1>1, FailGrantType, JobStatementsAlone, HandlerReturnsIdle DEF FailGrant
<1> HIDE DEF row
<1> QED BY <1>1, <1>2, <1>3, UnderwayNotRevoking, HandlerMoves

\* A handler goes on, after a write that keeps the status, or none.
LEMMA ProceedFenced ==
    ASSUME ExpiryInv, FenceInv, NEW k \in JobWorkers, Underway(k),
           NEW s, Proceed(k, s), s.job = JobOf(k), s.pc # "acquired",
           NEW row, Kept(Row(k), row), row.status = Row(k).status,
           SetGrant(GrantOf(k), row),
           UNCHANGED <<clock, requested, jobs, sweeper, events, hook>>
    PROVE  FenceInv'
<1>1. TypeInv /\ worker[k].pc # "idle" /\ JobsKept
  BY UnderwayNotRevoking, UnchangedJobsKept DEF ExpiryInv
<1>2. worker'[k] = s /\ \A i \in JobWorkers \ {k} : worker'[i] = worker[i]
  BY <1>1, HandlerProceeds
<1> QED BY <1>1, <1>2, UnderwayNotRevoking, HandlerMoves

LEMMA AcquireJobFenced ==
    ASSUME Ordinary, ExpiryInv, FenceInv, NEW k \in JobWorkers, NEW j \in JobIds,
           AcquireNextJob(k, j), UNCHANGED <<sweeper, events, hook>>
    PROVE  FenceInv'
<1> DEFINE last == jobs[j].attempt_count + 1 >= MaxAttempts
           next == [IdleWorker EXCEPT !.pc = "acquired", !.job = j, !.last = last]
<1>1. /\ TypeInv /\ worker[k].pc = "idle" /\ Proceed(k, next)
      /\ jobs[j].status = "queued" \/ LockIsStale(j)
      /\ jobs' = [jobs EXCEPT ![j].status = "running", ![j].attempt_count = @ + 1]
      /\ UNCHANGED <<clock, grants, requested>>
  BY DEF AcquireNextJob, ExpiryInv
<1>2. next.pc = "acquired" /\ next.job = j
  BY DEF IdleWorker
<1>3. Unfinished(j) /\ jobs[j].status # "unused"
  BY <1>1 DEF LockIsStale, Unfinished
<1>4. /\ jobs'[j].status = "running" /\ jobs'[j].grant = jobs[j].grant
      /\ \A i \in JobIds \ {j} : jobs'[i] = jobs[i]
  BY <1>1 DEF TypeInv, TypeOK, StoreTypeOK, Job
<1> HIDE DEF next
<1>5. worker'[k] = next /\ \A i \in JobWorkers \ {k} : worker'[i] = worker[i]
  BY <1>1, HandlerProceeds
<1>6. JobsKept
  BY <1>1, <1>3, JobStatementsKeep
<1>7. ASSUME NEW i \in JobWorkers \ {k}, worker[i].pc # "idle"
      PROVE  JobOf(i) \in JobIds \ {j} /\ jobs[JobOf(i)].status = "running"
  <2>1. jobs[JobOf(i)].status = "running" /\ JobOf(i) \in JobIds
    BY <1>1, <1>7, BusyWorker DEF FenceInv, WorkerFenced
  <2> QED BY <1>1, <2>1 DEF LockIsStale, Ordinary, Admitted
<1>8. RowsKept /\ NoRowInserted /\ LeasesSettle /\ RequestsGrow
      /\ \A v \in Sweepers : LeaseRespected(v)
  BY <1>1, UnchangedKeeps, SameRequestsGrow
     DEF NoRowInserted, LeasesSettle, LeaseRespected, NoNewLease, SameLease
<1>9. \A v \in Sweepers : SweeperFenced(v)'
  BY <1>1, <1>8, SweeperUndisturbed DEF FenceInv
<1>10. ASSUME NEW i \in JobWorkers
       PROVE  WorkerFenced(i)'
  <2>1. CASE i = k
    BY <1>2, <1>4, <1>5, <2>1 DEF WorkerFenced, JobOf
  <2>2. CASE i # k
    BY <1>1, <1>4, <1>5, <1>7, <1>8, <2>2, WorkerUndisturbed DEF FenceInv
  <2> QED BY <2>1, <2>2
<1>11. JobsHeldOnce'
  BY <1>2, <1>5, <1>7 DEF FenceInv, JobsHeldOnce, JobOf
<1>12. JobsSettle
  BY <1>3, <1>4 DEF JobsSettle, Unfinished
<1>13. JobsInTime' /\ ExpiryIsRequested'
  BY <1>1, <1>6, <1>8, <1>12, JobsStayInTime, ExpiryStaysRequested DEF FenceInv
<1>14. LeasesDiffer' /\ NoEvents'
  BY DEF FenceInv, LeasesDiffer, NoEvents, Busy
<1> QED BY <1>9, <1>10, <1>11, <1>13, <1>14 DEF FenceInv

LEMMA WorkFenced ==
    ASSUME Ordinary, ExpiryInv, FenceInv, NEW k \in JobWorkers, WorkerNext(k),
           UNCHANGED <<sweeper, events, hook>>
    PROVE  FenceInv'
<1>a. /\ TypeInv /\ worker[k] \in WorkerState /\ role \in Roles
  BY DEF ExpiryInv, TypeInv, TypeOK, StoreTypeOK, WorkerTypeOK
<1>b. worker[k].pc # "idle" => Row(k) \in DbGrant /\ JobOf(k) \in JobIds
  BY <1>a, BusyWorker
<1>s. UNCHANGED storeVars => UNCHANGED <<clock, grants, requested, jobs>>
  BY DEF storeVars
<1>m. ASSUME NEW p \in {"decide", "added", "verify", "recheck"}, NEW r \in Roles,
             Underway(k), Proceed(k, [worker[k] EXCEPT !.pc = p, !.seen = r]),
             UNCHANGED <<clock, grants, requested, jobs>>
      PROVE  FenceInv'
  <2> DEFINE next == [worker[k] EXCEPT !.pc = p, !.seen = r]
  <2>1. next.pc # "acquired" /\ next.job = JobOf(k)
    BY <1>a DEF WorkerState, JobOf
  <2>2. Proceed(k, next)
    BY <1>m
  <2> HIDE DEF next
  <2>3. SetGrant(GrantOf(k), Row(k)) /\ Kept(Row(k), Row(k))
    BY <1>a, <1>m, UnderwayNotRevoking, UnchangedIsSetGrant
  <2> QED BY <1>m, <2>1, <2>2, <2>3, ProceedFenced
<1>1. ASSUME NEW j \in JobIds, AcquireNextJob(k, j)
      PROVE  FenceInv'
  BY <1>1, AcquireJobFenced
<1>2. CASE DeferWhileRevoking(k) \/ AlreadySatisfied(k)
  <2>1. /\ worker[k].pc # "idle" /\ HandlerReturns(k)
        /\ UNCHANGED <<clock, grants, requested>>
        /\ jobs' = DeferJob(JobOf(k)) \/ jobs' = CompleteJob(JobOf(k))
    BY <1>2 DEF DeferWhileRevoking, AlreadySatisfied
  <2>2. JobsKept /\ \A j \in JobIds \ {JobOf(k)} : jobs'[j] = jobs[j]
    BY <1>a, <2>1, BusyWorker, JobStatementsKeep, JobStatementsAlone
  <2>3. worker'[k].pc = "idle" /\ \A i \in JobWorkers \ {k} : worker'[i] = worker[i]
    BY <1>a, <2>1, HandlerReturnsIdle
  <2>4. SetGrant(GrantOf(k), Row(k)) /\ Kept(Row(k), Row(k))
    BY <1>a, <2>1, UnchangedIsSetGrant
  <2> QED BY <2>1, <2>2, <2>3, <2>4, HandlerMoves
<1>3. CASE StartGrantAccess(k)
  <2> DEFINE row == IF Row(k).status = "revoking"
                    THEN ReclaimStrandedReactivation(Row(k)) ELSE Row(k)
             next == [worker[k] EXCEPT
                !.pc = "started",
                !.snap = [status |-> row.status,
                          membership_created_by_app |-> row.membership_created_by_app,
                          membership_mutation_state |-> row.membership_mutation_state]]
  <2>1. /\ worker[k].pc = "acquired"
        /\ Row(k).status = "revoking" => StaleLease(Row(k), clock)
        /\ SetGrant(GrantOf(k), row) /\ Proceed(k, next)
        /\ UNCHANGED <<clock, requested, jobs>>
    BY <1>3 DEF StartGrantAccess, ReactivationStranded
  <2>2. Kept(Row(k), row) /\ row.status # "revoking"
    BY <1>b, <2>1, ReturnToPendingType DEF Kept, ReclaimStrandedReactivation
  <2> HIDE DEF row
  <2>3. next.pc = "started" /\ next.job = JobOf(k)
    BY <1>a DEF WorkerState, JobOf
  <2> HIDE DEF next
  <2>4. worker'[k] = next /\ \A i \in JobWorkers \ {k} : worker'[i] = worker[i]
    BY <1>a, <2>1, HandlerProceeds
  <2>5. JobsKept
    BY <1>a, <2>1, UnchangedJobsKept
  <2> QED BY <2>1, <2>2, <2>3, <2>4, <2>5, HandlerMoves
<1>4. CASE OrganizationMembershipMissing(k)
  BY <1>4, FailGrantFenced DEF OrganizationMembershipMissing, Underway
<1>5. CASE ReadMembership(k)
  BY <1>5, <1>a, <1>m, <1>s DEF ReadMembership, Underway
<1>6. CASE MembershipFound(k)
  <2> DEFINE row == CASE Mutation(k) = "reactivation_required" -> Reactivated(k)
                      [] Mutation(k) = "not_started" -> PresentBefore(Row(k), worker[k].seen)
                      [] Uncertain(k) -> Recovered(k)
                      [] Mutation(k) = "membership_confirmed" -> Revalidated(k)
  <2>1. /\ Underway(k) /\ worker[k].seen \in {"member", "maintainer"}
        /\ CommitAndComplete(k, row) /\ UNCHANGED <<clock, requested>>
    BY <1>6, <1>a DEF MembershipFound, Underway, WorkerState, Roles
  <2>2. Mutation(k) \in MutationState
    BY <1>a DEF WorkerState, Snapshot, Mutation
  <2>3. Row(k) \in DbGrant
    BY <1>b, <2>1 DEF Underway
  <2>4. Kept(Row(k), row) /\ row.status # "revoking"
    BY <2>1, <2>2, <2>3, DecisionsKeep, DecisionsNotRevoking DEF MutationState, Uncertain
  <2> HIDE DEF row
  <2> QED BY <2>1, <2>4, CommitFenced
<1>7. CASE ConfirmedMembershipMissing(k)
  <2> DEFINE row == UpdateMutationState(Row(k), "not_started")
             next == [worker[k] EXCEPT !.pc = "failing"]
  <2>1. /\ Underway(k) /\ Proceed(k, next) /\ SetGrant(GrantOf(k), row)
        /\ UNCHANGED <<clock, requested, jobs>>
    BY <1>7 DEF ConfirmedMembershipMissing, Underway
  <2>2. Kept(Row(k), row) /\ row.status = Row(k).status
    BY <1>b, <2>1, UnderwayNotRevoking, UpdateMutationStateType DEF Kept, MutationState
  <2>3. next.pc = "failing" /\ next.job = JobOf(k)
    BY <1>a DEF WorkerState, JobOf
  <2> HIDE DEF row, next
  <2> QED BY <2>1, <2>2, <2>3, ProceedFenced
<1>8. CASE SendAdd(k)
  <2> DEFINE row == UpdateMutationState(Row(k), "add_request_sent")
             next == [worker[k] EXCEPT !.pc = "adding"]
  <2>1. /\ Underway(k) /\ Proceed(k, next) /\ SetGrant(GrantOf(k), row)
        /\ UNCHANGED <<clock, requested, jobs>>
    BY <1>8 DEF SendAdd, Underway
  <2>2. Kept(Row(k), row) /\ row.status = Row(k).status
    BY <1>b, <2>1, UnderwayNotRevoking, UpdateMutationStateType DEF Kept, MutationState
  <2>3. next.pc = "adding" /\ next.job = JobOf(k)
    BY <1>a DEF WorkerState, JobOf
  <2> HIDE DEF row, next
  <2> QED BY <2>1, <2>2, <2>3, ProceedFenced
<1>9. CASE GitHubAdds(k)
  <2>1. /\ Underway(k) /\ Proceed(k, [worker[k] EXCEPT !.pc = "added"])
        /\ UNCHANGED <<clock, grants, requested, jobs>>
    BY <1>9 DEF GitHubAdds, Underway
  <2>2. [worker[k] EXCEPT !.pc = "added"]
          = [worker[k] EXCEPT !.pc = "added", !.seen = worker[k].seen]
        /\ worker[k].seen \in Roles
    BY <1>a DEF WorkerState
  <2> QED BY <1>m, <2>1, <2>2
<1>10. CASE AddRejected(k)
  BY <1>10, FailGrantFenced DEF AddRejected, Underway
<1>11. CASE VerifyAdd(k)
  BY <1>11, <1>a, <1>m, <1>s DEF VerifyAdd, Underway
<1>12. CASE AddVerified(k)
  <2> DEFINE row == IF worker[k].seen = "maintainer"
                    THEN UpdateGrantStatus(Claimed(Row(k)), "active", "elevated")
                    ELSE Claimed(Row(k))
  <2>1. Underway(k) /\ CommitAndComplete(k, row) /\ UNCHANGED <<clock, requested>>
    BY <1>12 DEF AddVerified, Underway
  <2>2. Row(k) \in DbGrant
    BY <1>b, <2>1 DEF Underway
  <2>3. Kept(Row(k), row) /\ row.status # "revoking"
    BY <2>2, ClaimedKeeps, DecisionsNotRevoking
  <2> HIDE DEF row
  <2> QED BY <2>1, <2>3, CommitFenced
<1>13. CASE AddFails(k)
  BY <1>13, <1>a, <1>m DEF AddFails, Underway
<1>14. CASE AddRecovered(k)
  <2> DEFINE row == IF worker[k].seen = "member" THEN Activated(Confirmed(Row(k)))
                    ELSE IF Preexisting(k) THEN PresentBefore(Row(k), "maintainer")
                                           ELSE Confirmed(Elevated(Row(k), "active"))
  <2>1. Underway(k) /\ CommitAndComplete(k, row) /\ UNCHANGED <<clock, requested>>
    BY <1>14 DEF AddRecovered, Underway
  <2>2. Row(k) \in DbGrant
    BY <1>b, <2>1 DEF Underway
  <2>3. Kept(Row(k), row) /\ row.status # "revoking"
    BY <2>2, DecisionsKeep, DecisionsNotRevoking
  <2> HIDE DEF row
  <2> QED BY <2>1, <2>3, CommitFenced
<1>15. CASE MembershipNotFound(k)
  BY <1>15, JobFailsFenced DEF MembershipNotFound, Underway
<1>16. CASE HandlerThrows(k)
  BY <1>16, JobFailsFenced DEF HandlerThrows, Underway
<1>17. CASE CrashWorker(k)
  <2>1. /\ worker[k].pc # "idle" /\ HandlerReturns(k)
        /\ UNCHANGED <<clock, requested, jobs>>
    BY <1>17 DEF CrashWorker
  <2>2. /\ JobsKept
        /\ worker'[k].pc = "idle" /\ \A i \in JobWorkers \ {k} : worker'[i] = worker[i]
    BY <1>a, <2>1, UnchangedJobsKept, HandlerReturnsIdle
  <2>3. CASE UNCHANGED grants
    BY <1>a, <2>1, <2>2, <2>3, UnchangedIsSetGrant, HandlerMoves
  <2>4. CASE /\ worker[k].pc = "decide"
             /\ SetGrant(GrantOf(k), UpdateMutationState(Row(k), "add_intent_recorded"))
    <3> DEFINE row == UpdateMutationState(Row(k), "add_intent_recorded")
    <3>1. Row(k).status # "revoking"
      BY <2>4, UnderwayNotRevoking DEF Underway
    <3>2. Kept(Row(k), row) /\ row.status = Row(k).status
      BY <1>b, <2>1, UpdateMutationStateType DEF Kept, MutationState
    <3>3. SetGrant(GrantOf(k), row)
      BY <2>4
    <3> HIDE DEF row
    <3> QED BY <2>1, <2>2, <3>1, <3>2, <3>3, HandlerMoves
  <2> QED BY <1>17, <2>3, <2>4 DEF CrashWorker
<1> QED
  BY <1>1, <1>2, <1>3, <1>4, <1>5, <1>6, <1>7, <1>8, <1>9, <1>10, <1>11, <1>12,
     <1>13, <1>14, <1>15, <1>16, <1>17 DEF WorkerNext, HandlerStep

-----------------------------------------------------------------------------
(* Approvals, the environment, time *)

LEMMA ExtendedNoNewLease ==
    ASSUME NEW row \in DbGrant, NEW e \in Nat
    PROVE  NoNewLease(row, Extended(row, e))
<1> DEFINE until == Later(row.effective_expires_at, e)
           longer == UpdateGrantExpiresAt(row, until)
<1>1. until \in Nat
  BY RowFields DEF Later
<1>2. longer \in DbGrant /\ longer.status = row.status
  <2> HIDE DEF until
  <2> QED BY <1>1, UpdateGrantExpiresAtType
<1>3. row.status # "revoking" => Extended(row, e).status # "revoking"
  <2>1. Extended(row, e) =
          CASE row.status = "revoke_failed" -> ReactivateGrant(longer, until)
            [] row.status = "revoking" -> UpdateMutationState(longer, "reactivation_required")
            [] OTHER -> longer
    <3>1. longer.effective_expires_at = until
      <4> HIDE DEF until
      <4> QED BY <1>1, UpdateGrantExpiresAtType
    <3> QED BY <3>1 DEF Extended
  <2>2. ReactivateGrant(longer, until).status = "pending"
    <3> HIDE DEF longer, until
    <3> QED BY <1>1, <1>2, ReactivateGrantType
  <2> HIDE DEF longer, until
  <2> QED BY <1>2, <2>1, <2>2
<1> QED BY <1>3, ExtendedType DEF NoNewLease, SameLease

LEMMA ApproveFenced ==
    ASSUME Ordinary, ExpiryInv, FenceInv, NEW g \in Grants, NEW d \in Durations,
           CreateGrantIntent(g, d), UNCHANGED <<sweeper, worker, events, hook>>
    PROVE  FenceInv'
<1> DEFINE e == clock + d
           new == grants'[g]
<1>1. /\ TypeInv /\ e \in Nat /\ e > clock + RevokeLease /\ e > clock
      /\ clock \in Nat /\ UNCHANGED clock
      /\ grants \in [Grants -> DbGrant] /\ grants[g] \in DbGrant
      /\ requested \in [Grants -> SUBSET Nat]
      /\ jobs \in [JobIds -> Job]
  <2>1. d \in Nat /\ d > RevokeLease /\ RevokeLease \in Nat
    BY ServiceAssumption, RepositoryAssumption DEF Ordinary
  <2> QED BY <2>1 DEF ExpiryInv, TypeInv, TypeOK, StoreTypeOK, CreateGrantIntent
<1>2. /\ requested' = [requested EXCEPT ![g] = requested[g] \cup {e}]
      /\ \A h \in Grants \ {g} : grants'[h] = grants[h]
      /\ NoNewLease(grants[g], new)
      /\ grants[g].status = "revoking" => SameLease(grants[g], new)
      /\ new.effective_expires_at \in requested[g] \cup {e}
      /\ jobs' = jobs \/ (FreeJobs # {} /\ jobs' = CreateJob(g))
  <2>1. CASE ApproveExisting(g, e)
    <3>1. SetGrant(g, Extended(grants[g], e)) /\ LinkRequest(g, e)
          /\ (jobs' = jobs \/ (FreeJobs # {} /\ jobs' = CreateJob(g)))
          /\ grants[g].status # "none"
      BY <2>1 DEF ApproveExisting, ActiveGrants, ManagedStatus
    <3> HIDE DEF e
    <3>2. new = Extended(grants[g], e) /\ \A h \in Grants \ {g} : grants'[h] = grants[h]
      BY <1>1, <3>1 DEF SetGrant
    <3>3. grants[g].effective_expires_at \in requested[g]
      BY <3>1 DEF FenceInv, ExpiryIsRequested
    <3>4. new.effective_expires_at \in {grants[g].effective_expires_at, e}
      <4>1. grants[g].effective_expires_at \in Nat
        BY <1>1, RowFields
      <4>2. new.effective_expires_at = Later(grants[g].effective_expires_at, e)
        BY <1>1, <3>2, ExtendedType
      <4> QED BY <1>1, <4>1, <4>2, LaterBounds
    <3>5. requested' = [requested EXCEPT ![g] = requested[g] \cup {e}]
      BY <1>1, <3>1 DEF LinkRequest
    <3>6. NoNewLease(grants[g], new)
      BY <1>1, <3>1, <3>2, ExtendedNoNewLease
    <3>7. grants[g].status = "revoking" => SameLease(grants[g], new)
      BY <1>1, <3>2, ExtendedType DEF SameLease
    <3>8. new.effective_expires_at \in requested[g] \cup {e}
      BY <3>3, <3>4
    <3> QED
      BY <3>1, <3>2, <3>5, <3>6, <3>7, <3>8
  <2>2. CASE ApproveNew(g, e)
    <3>1. /\ SetGrant(g, CreateGrant(e)) /\ LinkRequest(g, e)
          /\ FreeJobs # {} /\ jobs' = CreateJob(g) /\ grants[g].status = "none"
      BY <2>2 DEF ApproveNew
    <3> HIDE DEF e
    <3>2. new = CreateGrant(e) /\ \A h \in Grants \ {g} : grants'[h] = grants[h]
      BY <1>1, <3>1 DEF SetGrant
    <3>3. requested' = [requested EXCEPT ![g] = requested[g] \cup {e}]
      BY <1>1, <3>1 DEF LinkRequest
    <3> QED BY <1>1, <3>1, <3>2, <3>3, CreateGrantType DEF NoNewLease, SameLease
  <2> QED BY <2>1, <2>2 DEF CreateGrantIntent
<1> HIDE DEF e, new
<1>3. RequestsGrow
  BY <1>1, <1>2 DEF RequestsGrow
<1>4. LeasesSettle
  BY <1>2 DEF LeasesSettle, NoNewLease, SameLease, new
<1>5. ASSUME NEW v \in Sweepers
      PROVE  LeaseRespected(v)
  BY <1>1, <1>2, BusySweeper DEF LeaseRespected, OwnsLease, OwnsRevokeLease, SameLease, new
<1>6. \A v \in Sweepers : SweeperFenced(v)'
  BY <1>1, <1>3, <1>4, <1>5, SweeperUndisturbed DEF FenceInv
<1>7. JobsKept /\ JobsSettle /\ RunningJobsCalm
  <2>1. \E x \in requested'[g] : x > clock'
    BY <1>1, <1>2
  <2>2. CASE FreeJobs # {} /\ jobs' = CreateJob(g)
    BY <1>1, <2>1, <2>2, CreateJobKeeps, CreatedJobSettles
  <2> QED BY <1>1, <1>2, <2>2, UnchangedJobsKept, SameJobsSettle
<1>8. ASSUME NEW k \in JobWorkers
      PROVE  WorkerFenced(k)'
  <2>1. worker[k].pc # "idle" => jobs'[JobOf(k)] = jobs[JobOf(k)]
                                 /\ jobs[JobOf(k)].status = "running"
    BY <1>1, <1>7, BusyWorker DEF FenceInv, WorkerFenced, RunningJobsCalm
  <2> QED BY <1>1, <1>4, <2>1, WorkerUndisturbed DEF FenceInv
<1>9. JobsInTime'
  BY <1>1, <1>3, <1>7, JobsStayInTime DEF FenceInv
<1>10. ExpiryIsRequested'
  BY <1>1, <1>2 DEF FenceInv, ExpiryIsRequested, new
<1>11. JobsHeldOnce' /\ LeasesDiffer' /\ NoEvents'
  BY DEF FenceInv, JobsHeldOnce, JobOf, LeasesDiffer, Busy, NoEvents
<1> QED BY <1>6, <1>8, <1>9, <1>10, <1>11 DEF FenceInv

LEMMA TickFenced ==
    ASSUME Ordinary, ExpiryInv, FenceInv, Tick
    PROVE  FenceInv'
<1>1. /\ clock \in Nat /\ clock' = clock + 1
      /\ UNCHANGED <<grants, requested, jobs, sweeper, worker, events, hook>>
      /\ requested \in [Grants -> SUBSET Nat] /\ TypeInv
  BY DEF Tick, ExpiryInv, TypeInv, TypeOK, StoreTypeOK
<1>2. ASSUME NEW w \in Sweepers
      PROVE  SweeperFenced(w)'
  <2>1. /\ sweeper[w].pc # "cancel"
        /\ sweeper[w].pc = "deleting" => clock < sweeper[w].sentAt + CallTimeout
    BY DEF Tick, SweepersLetTimePass, Admitted, Ordinary
  <2>2. /\ SweeperFenced(w) /\ sweeper[w].now \in Nat /\ sweeper[w].sentAt \in Nat
        /\ CallTimeout \in Nat /\ RevokeLease \in Nat
        /\ Busy(w) => Held(w).revoking_started_at \in Nat \cup {NULL}
    BY <1>1, BusySweeper, TimeoutAssumption, RepositoryAssumption DEF FenceInv
  <2>3. CASE sweeper[w].pc = "deleting"
    <3>1. /\ OwnsLease(w) /\ Busy(w)
          /\ sweeper[w].sentAt + CallTimeout < Held(w).revoking_started_at + RevokeLease
      BY <2>2, <2>3 DEF SweeperFenced, Busy
    <3>2. Held(w).revoking_started_at \in Nat
      BY <2>2, <3>1 DEF OwnsLease, OwnsRevokeLease, StaleLease, Held
    <3>3. clock + 1 <= sweeper[w].sentAt + CallTimeout
      BY <1>1, <2>1, <2>2, <2>3
    <3>4. OwnsLease(w)'
      BY <1>1, <2>2, <3>1, <3>2, <3>3 DEF OwnsLease, OwnsRevokeLease, StaleLease, Held
    <3> QED BY <1>1, <2>2, <2>3, <3>1, <3>3, <3>4 DEF SweeperFenced, Busy, Held
  <2>4. CASE sweeper[w].pc # "deleting"
    BY <1>1, <2>1, <2>2, <2>4 DEF SweeperFenced, Busy, Held
  <2> QED BY <2>3, <2>4
<1>3. ASSUME NEW j \in JobIds, Unfinished(j)
      PROVE  HasActiveRequests(jobs[j].grant, clock + 1)
  <2>1. clock + 1 < grants[jobs[j].grant].effective_expires_at
    BY <1>3 DEF Tick, JobsLetTimePass, Admitted, Ordinary
  <2>2. jobs[j].grant \in Grants /\ requested[jobs[j].grant] # {}
    BY <1>1, <1>3 DEF FenceInv, JobsInTime, HasActiveRequests, Unfinished, TypeInv, JobsHaveGrants
  <2>3. grants[jobs[j].grant].effective_expires_at \in requested[jobs[j].grant]
    BY <2>2 DEF FenceInv, ExpiryIsRequested, ExpiryInv, NoRowNoRequest
  <2> QED BY <2>1, <2>3 DEF HasActiveRequests
<1>4. JobsInTime'
  BY <1>1, <1>3 DEF JobsInTime, Unfinished, HasActiveRequests
<1>5. /\ \A k \in JobWorkers : WorkerFenced(k)'
      /\ LeasesDiffer' /\ JobsHeldOnce' /\ ExpiryIsRequested' /\ NoEvents'
  BY <1>1 DEF FenceInv, WorkerFenced, Row, GrantOf, JobOf, LeasesDiffer, Busy,
              JobsHeldOnce, ExpiryIsRequested, NoEvents
<1> QED BY <1>2, <1>4, <1>5 DEF FenceInv

\* A step that changes nothing FenceInv speaks of.
LEMMA QuietFenced ==
    ASSUME FenceInv,
           UNCHANGED <<clock, grants, requested, jobs, sweeper, worker, events, hook>>
    PROVE  FenceInv'
BY DEF FenceInv, SweeperFenced, Busy, Held, OwnsLease, OwnsRevokeLease, StaleLease,
       HasActiveRequests, LeasesDiffer, WorkerFenced, Row, GrantOf, JobOf, JobsHeldOnce,
       JobsInTime, Unfinished, ExpiryIsRequested, NoEvents

LEMMA NothingAnnounced ==
    ASSUME Ordinary, Announce
    PROVE  UNCHANGED events
BY DEF Ordinary, Announce, Admitted

-----------------------------------------------------------------------------
(* Assembly *)

LEMMA InitFenced == Init => FenceInv
<1> SUFFICES ASSUME Init PROVE FenceInv
  OBVIOUS
<1>1. ASSUME NEW w \in Sweepers
      PROVE  sweeper[w].pc = "idle" /\ sweeper[w].now = 0 /\ clock = 0
  BY DEF Init, SweeperInit, IdleSweeper, StoreInit
<1>2. ASSUME NEW k \in JobWorkers
      PROVE  worker[k].pc = "idle"
  BY DEF Init, WorkerInit, IdleWorker
<1>3. \A w \in Sweepers : SweeperFenced(w)
  BY <1>1 DEF SweeperFenced, Busy
<1>4. LeasesDiffer /\ JobsHeldOnce /\ \A k \in JobWorkers : WorkerFenced(k)
  BY <1>1, <1>2 DEF LeasesDiffer, Busy, JobsHeldOnce, WorkerFenced
<1>5. JobsInTime /\ ExpiryIsRequested /\ NoEvents
  BY DEF Init, StoreInit, HookInit, IdleHook, NoGrant, JobsInTime, Unfinished,
         ExpiryIsRequested, NoEvents
<1> QED BY <1>3, <1>4, <1>5 DEF FenceInv

LEMMA StepFenced ==
    ASSUME Ordinary, ExpiryInv, FenceInv, [Next]_vars
    PROVE  FenceInv'
<1>a. TypeInv
  BY DEF ExpiryInv
<1>1. ASSUME NEW w \in Sweepers, Sweep(w)
      PROVE  FenceInv'
  BY <1>1, <1>a, SweepFenced, NothingAnnounced DEF Sweep
<1>2. ASSUME NEW k \in JobWorkers, Work(k)
      PROVE  FenceInv'
  BY <1>2, WorkFenced, NothingAnnounced DEF Work
<1>3. CASE Approve
  BY <1>3, ApproveFenced DEF Approve
<1>4. CASE Webhook
  BY <1>4 DEF Webhook, FenceInv, NoEvents, HandleMembershipEvent
<1>5. CASE Promote \/ Demote \/ Depart \/ Arrive
  <2>1. Announce /\ UNCHANGED <<clock, grants, requested, jobs, sweeper, worker, hook>>
    BY <1>5 DEF Promote, Demote, Depart, Arrive, OwnerActs
  <2> QED BY <2>1, NothingAnnounced, QuietFenced
<1>6. CASE Tick
  BY <1>6, TickFenced
<1>7. CASE UNCHANGED vars
  BY <1>7, QuietFenced DEF vars, storeVars
<1> QED BY <1>1, <1>2, <1>3, <1>4, <1>5, <1>6, <1>7 DEF Next

LEMMA FenceHolds == ASSUME Ordinary PROVE Spec => []FenceInv
<1>1. ExpiryInv /\ FenceInv /\ [Next]_vars => FenceInv'
  BY StepFenced
<1> QED BY <1>1, InitFenced, InvariantHolds, PTL DEF Spec

\* However many sweepers and job workers share the database, and wherever they
\* stall, crash or lose a call: a DELETE is on the wire only while its sender
\* holds the grant's lease and the lease is fresh, so that no other sweeper and
\* no takeover by grant_access acts on the grant at the same time.
THEOREM RemovalFenced == ASSUME Ordinary PROVE Spec => []RemovalIsFenced
<1>1. FenceInv => RemovalIsFenced
  BY DEF FenceInv, SweeperFenced, RemovalIsFenced
<1> QED BY <1>1, FenceHolds, PTL

\* The PUT of a handler and the DELETE of a revocation run never race for one
\* grant: the sweep does not start a revocation under the job that grants it,
\* and the job is deferred for as long as the revocation lasts.
THEOREM AddsKeepClear == ASSUME Ordinary PROVE Spec => []NoAddDuringRemoval
<1>1. FenceInv => NoAddDuringRemoval
  <2> SUFFICES ASSUME FenceInv, NEW w \in Sweepers, NEW k \in JobWorkers,
                      sweeper[w].pc = "deleting", worker[k].pc = "adding",
                      GrantOf(k) = sweeper[w].grant
               PROVE  FALSE
    BY DEF NoAddDuringRemoval
  <2>1. Held(w).status = "revoking"
    BY DEF FenceInv, SweeperFenced, OwnsLease, OwnsRevokeLease, Held
  <2>2. Row(k).status # "revoking"
    BY DEF FenceInv, WorkerFenced
  <2> QED BY <2>1, <2>2 DEF Row, Held
<1> QED BY <1>1, FenceHolds, PTL

-----------------------------------------------------------------------------
(* Reactivations are handed back                                           *)
(*                                                                         *)
(* A revocation starts only on a grant without a job.  So the job of a     *)
(* grant that is being revoked came with a request approved meanwhile,     *)
(* which has flagged the row, and the run that ends sees the flag: it      *)
(* hands the grant back instead of recording it as revoked.  The run for a *)
(* membership that is not ours does not look, which is why a revoked grant *)
(* is final only when the app created the membership.                      *)

Flagged(row) == row.membership_mutation_state = "reactivation_required"

Leases(w) ==
    /\ Busy(w)
    /\ Held(w).status = "revoking" /\ Held(w).revoking_lease_id = sweeper[w].lease

\* The job of a grant that is being revoked is a reactivation.
JobsFlagged ==
    \A j \in JobIds :
        Unfinished(j) /\ grants[jobs[j].grant].status = "revoking"
        => Flagged(grants[jobs[j].grant])

\* A run knows whose membership it ends, and goes on only with ours.
RunsRemember ==
    \A w \in Sweepers :
        /\ Leases(w) => Held(w).membership_created_by_app = sweeper[w].byApp
        /\ Busy(w) /\ sweeper[w].pc # "leased" => sweeper[w].byApp = 1

RevokedHasNoJob ==
    \A g \in Grants :
        grants[g].status = "revoked" /\ grants[g].membership_created_by_app = 1
        => ~HasUnfinishedJob(g)

HandBackInv == JobsFlagged /\ RunsRemember /\ RevokedHasNoJob

-----------------------------------------------------------------------------
(* What a step of a handler does to its row and its job *)

\* The handler notes in the row how far the add has come.
Noted(old, new) ==
    /\ old.status # "revoking" /\ new.status = old.status
    /\ new.membership_created_by_app = old.membership_created_by_app
    /\ new.membership_mutation_state \in {"not_started", "add_intent_recorded", "add_request_sent"}

\* The handler takes a reactivation over from a run that has died.
TakenOver(old, new) ==
    /\ old.status = "revoking" /\ Flagged(old) /\ StaleLease(old, clock)
    /\ new.status = "pending"
    /\ new.membership_created_by_app = old.membership_created_by_app
    /\ new.membership_mutation_state = old.membership_mutation_state

\* The handler has found the membership, or made it.
Decided(k, old, new) ==
    /\ old.status # "revoking"
    /\ worker[k].seen # "none"
    /\ \/ new.status \in {"active", "already_present"}
       \/ new.status = "revoke_failed" /\ worker[k].seen = "maintainer"
    /\ new.membership_mutation_state \in
          {old.membership_mutation_state, "membership_confirmed"}
    /\ Flagged(new) /\ new.membership_created_by_app = 1 =>
          \/ worker[k].seen = "maintainer"
          \/ worker[k].pc = "decide" /\ Mutation(k) = "membership_confirmed"

RowHandled(k, old, new) ==
    \/ new = old
    \/ Noted(old, new)
    \/ TakenOver(old, new)
    \/ Decided(k, old, new)
    \/ /\ old.status # "revoking" /\ new.status = "grant_failed"
       /\ Flagged(new) => Flagged(old)

\* No job but j ends or begins.
JobsAlone(j) ==
    \A i \in JobIds : /\ jobs'[i].grant = jobs[i].grant
                      /\ i # j => /\ jobs'[i] = jobs[i]
                                  /\ Unfinished(i)' <=> Unfinished(i)

Handled(k) ==
    /\ \A g \in Grants \ {GrantOf(k)} : grants'[g] = grants[g]
    /\ RowHandled(k, grants[GrantOf(k)], grants'[GrantOf(k)])
    /\ JobsAlone(JobOf(k))
    /\ \/ jobs'[JobOf(k)].status \in {"queued", "running"}
       \/ grants'[GrantOf(k)].status \in {"active", "already_present", "grant_failed"}
       \/ worker[k].seen = "maintainer"

LEMMA JobMoves ==
    ASSUME TypeInv, NEW j \in JobIds,
           \/ jobs' = CompleteJob(j) \/ jobs' = FailJob(j)
           \/ jobs' = ReleaseJobForRetry(j) \/ jobs' = DeferJob(j)
           \/ UNCHANGED jobs
    PROVE  /\ JobsAlone(j)
           /\ jobs' = ReleaseJobForRetry(j) \/ jobs' = DeferJob(j)
                \/ (UNCHANGED jobs /\ Unfinished(j)) => Unfinished(j)'
<1>1. jobs \in [JobIds -> Job]
  BY DEF TypeInv, TypeOK, StoreTypeOK
<1>2. \A i \in JobIds : jobs'[i].grant = jobs[i].grant
  BY <1>1 DEF CompleteJob, FailJob, ReleaseJobForRetry, DeferJob, Job
<1>3. \A i \in JobIds \ {j} : jobs'[i] = jobs[i]
  BY <1>1 DEF CompleteJob, FailJob, ReleaseJobForRetry, DeferJob
<1>4. jobs' = ReleaseJobForRetry(j) \/ jobs' = DeferJob(j) => jobs'[j].status = "queued"
  BY <1>1 DEF ReleaseJobForRetry, DeferJob, Job
<1> QED BY <1>2, <1>3, <1>4 DEF JobsAlone, Unfinished

LEMMA DecisionRows ==
    ASSUME NEW row \in DbGrant
    PROVE  /\ /\ Confirmed(row) \in DbGrant /\ Confirmed(row).status = row.status
              /\ Confirmed(row).membership_created_by_app = row.membership_created_by_app
              /\ Confirmed(row).membership_mutation_state = "membership_confirmed"
           /\ /\ Activated(row).status = "active"
              /\ Activated(row).membership_mutation_state = row.membership_mutation_state
           /\ \A r \in {"member", "maintainer"} :
                 LET new == PresentBefore(row, r)
                 IN  /\ new.status = "already_present"
                     /\ new.membership_created_by_app = 0
                     /\ new.membership_mutation_state = row.membership_mutation_state
           /\ \A st \in {"active", "revoke_failed"} :
                 /\ Elevated(row, st) \in DbGrant /\ Elevated(row, st).status = st
                 /\ Elevated(row, st).membership_mutation_state = row.membership_mutation_state
<1>1. /\ Confirmed(row) \in DbGrant /\ Confirmed(row).status = row.status
      /\ Confirmed(row).membership_created_by_app = row.membership_created_by_app
      /\ Confirmed(row).membership_mutation_state = "membership_confirmed"
  BY UpdateMutationStateType DEF Confirmed, MutationState
<1>2. /\ Activated(row).status = "active"
      /\ Activated(row).membership_mutation_state = row.membership_mutation_state
  BY UpdateGrantStatusAndMembershipType DEF Activated, GrantStatus
<1>3. ASSUME NEW r \in {"member", "maintainer"}
      PROVE  LET new == PresentBefore(row, r)
             IN  /\ new.status = "already_present"
                 /\ new.membership_created_by_app = 0
                 /\ new.membership_mutation_state = row.membership_mutation_state
  BY UpdateGrantStatusAndMembershipType DEF PresentBefore, GrantStatus
<1>4. ASSUME NEW st \in {"active", "revoke_failed"}
      PROVE  /\ Elevated(row, st) \in DbGrant /\ Elevated(row, st).status = st
             /\ Elevated(row, st).membership_mutation_state = row.membership_mutation_state
  <2> DEFINE mid == UpdateGrantStatusAndMembership(row, st, 1, NULL)
  <2>1. mid \in DbGrant /\ mid.membership_mutation_state = row.membership_mutation_state
    BY UpdateGrantStatusAndMembershipType DEF GrantStatus
  <2> HIDE DEF mid
  <2>2. LET new == UpdateGrantStatus(mid, st, "elevated")
        IN  /\ new \in DbGrant /\ new.status = st
            /\ new.membership_mutation_state = row.membership_mutation_state
    BY <2>1, UpdateGrantStatusType DEF GrantStatus
  <2> QED BY <2>2 DEF Elevated, mid
<1> QED BY <1>1, <1>2, <1>3, <1>4

LEMMA FoundDecides ==
    ASSUME NEW k \in JobWorkers, Row(k) \in DbGrant, Row(k).status # "revoking",
           worker[k].pc = "decide", worker[k].seen \in {"member", "maintainer"},
           Mutation(k) \in MutationState
    PROVE  Decided(k, Row(k),
             CASE Mutation(k) = "reactivation_required" -> Reactivated(k)
               [] Mutation(k) = "not_started" -> PresentBefore(Row(k), worker[k].seen)
               [] Uncertain(k) -> Recovered(k)
               [] Mutation(k) = "membership_confirmed" -> Revalidated(k))
<1>a. \A r \in {"member", "maintainer"} :
         /\ PresentBefore(Row(k), r).status = "already_present"
         /\ PresentBefore(Row(k), r).membership_created_by_app = 0
         /\ PresentBefore(Row(k), r).membership_mutation_state
              = Row(k).membership_mutation_state
  BY DecisionRows
<1>1. Confirmed(Row(k)) \in DbGrant
  BY DecisionRows
<1>2. /\ Activated(Confirmed(Row(k))).status = "active"
      /\ Activated(Confirmed(Row(k))).membership_mutation_state = "membership_confirmed"
  BY <1>1, DecisionRows
<1>3. LET new == PresentBefore(Confirmed(Row(k)), "member")
      IN  /\ new.status = "already_present" /\ new.membership_created_by_app = 0
          /\ new.membership_mutation_state = "membership_confirmed"
  BY <1>1, DecisionRows
<1>4. ASSUME NEW st \in {"active", "revoke_failed"}
      PROVE  /\ Confirmed(Elevated(Row(k), st)).status = st
             /\ Confirmed(Elevated(Row(k), st)).membership_mutation_state
                  = "membership_confirmed"
  <2>1. Elevated(Row(k), st) \in DbGrant /\ Elevated(Row(k), st).status = st
    BY DecisionRows
  <2> QED BY <2>1, DecisionRows
<1>5. CASE Mutation(k) = "reactivation_required"
  <2>1. Decided(k, Row(k), Reactivated(k))
    BY <1>a, <1>2, <1>3, <1>4 DEF Reactivated, Decided, Flagged
  <2> QED BY <1>5, <2>1 DEF Uncertain
<1>6. CASE Mutation(k) = "not_started"
  <2>1. Decided(k, Row(k), PresentBefore(Row(k), worker[k].seen))
    BY <1>a DEF Decided
  <2> QED BY <1>6, <2>1 DEF Uncertain
<1>7. CASE Uncertain(k)
  <2>1. Decided(k, Row(k), Recovered(k))
    BY <1>2, DecisionRows DEF Recovered, Decided, Flagged
  <2> QED BY <1>7, <2>1 DEF Uncertain
<1>8. CASE Mutation(k) = "membership_confirmed"
  <2>1. Decided(k, Row(k), Revalidated(k))
    <3>1. CASE worker[k].seen = "member"
      BY <1>8, <3>1, DecisionRows DEF Revalidated, Decided
    <3>2. CASE worker[k].seen = "maintainer"
      BY <1>4, <3>2, DecisionRows DEF Revalidated, Decided
    <3> QED BY <3>1, <3>2
  <2> QED BY <1>8, <2>1 DEF Uncertain
<1> QED BY <1>5, <1>6, <1>7, <1>8 DEF MutationState, Uncertain

LEMMA AddDecides ==
    ASSUME NEW k \in JobWorkers, Row(k) \in DbGrant, Row(k).status # "revoking",
           worker[k].seen \in {"member", "maintainer"}
    PROVE  /\ Decided(k, Row(k), IF worker[k].seen = "maintainer"
                                 THEN UpdateGrantStatus(Claimed(Row(k)), "active", "elevated")
                                 ELSE Claimed(Row(k)))
           /\ Decided(k, Row(k),
                IF worker[k].seen = "member" THEN Activated(Confirmed(Row(k)))
                ELSE IF Preexisting(k) THEN PresentBefore(Row(k), "maintainer")
                                       ELSE Confirmed(Elevated(Row(k), "active")))
<1>1. Confirmed(Row(k)) \in DbGrant
  BY DecisionRows
<1>2. /\ Activated(Confirmed(Row(k))).status = "active"
      /\ Activated(Confirmed(Row(k))).membership_mutation_state = "membership_confirmed"
  BY <1>1, DecisionRows
<1>3. /\ Claimed(Row(k)) \in DbGrant /\ Claimed(Row(k)).status = "active"
      /\ Claimed(Row(k)).membership_mutation_state = "membership_confirmed"
  BY <1>2, ClaimedKeeps, ConfirmMembershipType DEF Claimed, Kept
<1>4. LET new == UpdateGrantStatus(Claimed(Row(k)), "active", "elevated")
      IN  new.status = "active" /\ new.membership_mutation_state = "membership_confirmed"
  BY <1>3, UpdateGrantStatusType DEF GrantStatus
<1>5. /\ Confirmed(Elevated(Row(k), "active")).status = "active"
      /\ Confirmed(Elevated(Row(k), "active")).membership_mutation_state
           = "membership_confirmed"
  <2>1. Elevated(Row(k), "active") \in DbGrant /\ Elevated(Row(k), "active").status = "active"
    BY DecisionRows
  <2> QED BY <2>1, DecisionRows
<1>6. Decided(k, Row(k), IF worker[k].seen = "maintainer"
                         THEN UpdateGrantStatus(Claimed(Row(k)), "active", "elevated")
                         ELSE Claimed(Row(k)))
  BY <1>3, <1>4 DEF Decided, Flagged
<1>7. Decided(k, Row(k),
        IF worker[k].seen = "member" THEN Activated(Confirmed(Row(k)))
        ELSE IF Preexisting(k) THEN PresentBefore(Row(k), "maintainer")
                               ELSE Confirmed(Elevated(Row(k), "active")))
  BY <1>2, <1>5, DecisionRows DEF Decided, Flagged
<1> QED BY <1>6, <1>7

LEMMA HandledBy ==
    ASSUME TypeInv, NEW k \in JobWorkers, worker[k].pc # "idle",
           NEW row, SetGrant(GrantOf(k), row), RowHandled(k, Row(k), row),
           \/ jobs' = CompleteJob(JobOf(k)) \/ jobs' = FailJob(JobOf(k))
           \/ jobs' = ReleaseJobForRetry(JobOf(k)) \/ jobs' = DeferJob(JobOf(k))
           \/ UNCHANGED jobs,
           \/ jobs' = ReleaseJobForRetry(JobOf(k)) \/ jobs' = DeferJob(JobOf(k))
           \/ UNCHANGED jobs /\ Unfinished(JobOf(k))
           \/ row.status \in {"active", "already_present", "grant_failed"}
           \/ worker[k].seen = "maintainer"
    PROVE  Handled(k)
<1>1. /\ JobOf(k) \in JobIds /\ GrantOf(k) \in Grants /\ Row(k) = grants[GrantOf(k)]
      /\ grants \in [Grants -> DbGrant]
  BY BusyWorker DEF TypeInv, TypeOK, StoreTypeOK
<1>2. /\ grants'[GrantOf(k)] = row
      /\ \A g \in Grants \ {GrantOf(k)} : grants'[g] = grants[g]
  BY <1>1 DEF SetGrant
<1>3. JobsAlone(JobOf(k))
  BY <1>1, JobMoves
<1>4. jobs' = ReleaseJobForRetry(JobOf(k)) \/ jobs' = DeferJob(JobOf(k))
        \/ (UNCHANGED jobs /\ Unfinished(JobOf(k)))
      => jobs'[JobOf(k)].status \in {"queued", "running"}
  BY <1>1, JobMoves DEF Unfinished
<1> QED BY <1>1, <1>2, <1>3, <1>4 DEF Handled

LEMMA JobFailsHandled ==
    ASSUME TypeInv, FenceInv, NEW k \in JobWorkers, Underway(k), JobFails(k)
    PROVE  Handled(k)
<1> DEFINE failed == UpdateGrantStatus(Row(k), "grant_failed", "other")
<1>1. worker[k].pc # "idle" /\ Row(k).status # "revoking" /\ Row(k) \in DbGrant
  BY UnderwayNotRevoking, BusyWorker
<1>2. failed.status = "grant_failed"
      /\ failed.membership_mutation_state = Row(k).membership_mutation_state
  BY <1>1, UpdateGrantStatusType DEF GrantStatus
<1>3. \/ jobs' = FailJob(JobOf(k)) /\ SetGrant(GrantOf(k), failed)
      \/ jobs' = ReleaseJobForRetry(JobOf(k)) /\ UNCHANGED grants
  BY DEF JobFails
<1> HIDE DEF failed
<1>4. RowHandled(k, Row(k), failed) /\ RowHandled(k, Row(k), Row(k))
  BY <1>1, <1>2 DEF RowHandled, Flagged
<1>5. CASE jobs' = FailJob(JobOf(k)) /\ SetGrant(GrantOf(k), failed)
  BY <1>1, <1>2, <1>4, <1>5, HandledBy
<1>6. CASE jobs' = ReleaseJobForRetry(JobOf(k)) /\ UNCHANGED grants
  BY <1>1, <1>4, <1>6, UnchangedIsSetGrant, HandledBy
<1> QED BY <1>3, <1>5, <1>6

LEMMA CommitHandled ==
    ASSUME TypeInv, FenceInv, NEW k \in JobWorkers, Underway(k),
           NEW row, Decided(k, Row(k), row), CommitAndComplete(k, row)
    PROVE  Handled(k)
<1>1. worker[k].pc # "idle"
  BY UnderwayNotRevoking
<1>2. RowHandled(k, Row(k), row)
  BY DEF RowHandled
<1>3. row.status \in {"active", "already_present"} \/ worker[k].seen = "maintainer"
  BY DEF Decided
<1>4. CASE IndexAccepts(GrantOf(k), row)
  BY <1>1, <1>2, <1>3, <1>4, HandledBy DEF CommitAndComplete
<1>5. CASE ~IndexAccepts(GrantOf(k), row)
  BY <1>5, JobFailsHandled DEF CommitAndComplete
<1> QED BY <1>4, <1>5

LEMMA FailGrantHandled ==
    ASSUME TypeInv, FenceInv, NEW k \in JobWorkers, Underway(k), FailGrant(k)
    PROVE  Handled(k)
<1> DEFINE row == UpdateGrantStatus(Row(k), "grant_failed", "other")
<1>1. worker[k].pc # "idle" /\ Row(k).status # "revoking" /\ Row(k) \in DbGrant
  BY UnderwayNotRevoking, BusyWorker
<1>2. row.status = "grant_failed"
      /\ row.membership_mutation_state = Row(k).membership_mutation_state
  BY <1>1, UpdateGrantStatusType DEF GrantStatus
<1>3. SetGrant(GrantOf(k), row) /\ jobs' = FailJob(JobOf(k))
  BY DEF FailGrant
<1> HIDE DEF row
<1>4. RowHandled(k, Row(k), row)
  BY <1>1, <1>2 DEF RowHandled, Flagged
<1> QED BY <1>1, <1>2, <1>3, <1>4, HandledBy

\* A step that neither writes the grant nor moves the job.
LEMMA WaitHandled ==
    ASSUME TypeInv, FenceInv, NEW k \in JobWorkers, worker[k].pc # "idle",
           UNCHANGED <<grants, jobs>>
    PROVE  Handled(k)
<1>1. SetGrant(GrantOf(k), Row(k)) /\ RowHandled(k, Row(k), Row(k))
  BY UnchangedIsSetGrant DEF RowHandled
<1>2. Unfinished(JobOf(k))
  BY DEF FenceInv, WorkerFenced, Unfinished
<1> QED BY <1>1, <1>2, HandledBy

LEMMA NotedRows ==
    ASSUME NEW row \in DbGrant, row.status # "revoking",
           NEW m \in {"not_started", "add_intent_recorded", "add_request_sent"}
    PROVE  /\ Noted(row, UpdateMutationState(row, m))
           /\ UpdateMutationState(row, m) \in DbGrant
<1>1. m \in MutationState
  BY DEF MutationState
<1> QED BY <1>1, UpdateMutationStateType DEF Noted

LEMMA WorkHandled ==
    ASSUME TypeInv, FenceInv, NEW k \in JobWorkers,
           WorkerNext(k), worker[k].pc # "idle"
    PROVE  Handled(k)
<1>a. /\ worker[k] \in WorkerState /\ Row(k) \in DbGrant /\ JobOf(k) \in JobIds
      /\ Unfinished(JobOf(k))
  BY BusyWorker DEF FenceInv, WorkerFenced, Unfinished
<1>s. UNCHANGED storeVars => UNCHANGED <<grants, jobs>>
  BY DEF storeVars
<1>1. ~ \E j \in JobIds : AcquireNextJob(k, j)
  BY DEF AcquireNextJob
<1>2. CASE DeferWhileRevoking(k) \/ AlreadySatisfied(k)
  <2>1. SetGrant(GrantOf(k), Row(k)) /\ RowHandled(k, Row(k), Row(k))
    BY <1>2, UnchangedIsSetGrant DEF RowHandled, DeferWhileRevoking, AlreadySatisfied
  <2>2. CASE DeferWhileRevoking(k)
    BY <2>1, <2>2, HandledBy DEF DeferWhileRevoking
  <2>3. CASE AlreadySatisfied(k)
    BY <2>1, <2>3, HandledBy DEF AlreadySatisfied
  <2> QED BY <1>2, <2>2, <2>3
<1>3. CASE StartGrantAccess(k)
  <2> DEFINE row == IF Row(k).status = "revoking"
                    THEN ReclaimStrandedReactivation(Row(k)) ELSE Row(k)
  <2>1. /\ SetGrant(GrantOf(k), row) /\ UNCHANGED jobs
        /\ Row(k).status = "revoking" => Flagged(Row(k)) /\ StaleLease(Row(k), clock)
    BY <1>3 DEF StartGrantAccess, ReactivationStranded, Flagged
  <2>2. row = Row(k) \/ TakenOver(Row(k), row)
    BY <1>a, <2>1, ReturnToPendingType DEF ReclaimStrandedReactivation, TakenOver
  <2> HIDE DEF row
  <2>3. RowHandled(k, Row(k), row)
    BY <2>2 DEF RowHandled
  <2> QED BY <1>a, <2>1, <2>3, HandledBy
<1>4. CASE OrganizationMembershipMissing(k)
  BY <1>4, FailGrantHandled DEF OrganizationMembershipMissing, Underway
<1>5. CASE ReadMembership(k)
  BY <1>5, <1>s, WaitHandled DEF ReadMembership
<1>6. CASE MembershipFound(k)
  <2> DEFINE row == CASE Mutation(k) = "reactivation_required" -> Reactivated(k)
                      [] Mutation(k) = "not_started" -> PresentBefore(Row(k), worker[k].seen)
                      [] Uncertain(k) -> Recovered(k)
                      [] Mutation(k) = "membership_confirmed" -> Revalidated(k)
  <2>1. /\ Underway(k) /\ worker[k].pc = "decide"
        /\ worker[k].seen \in {"member", "maintainer"}
        /\ CommitAndComplete(k, row)
    BY <1>6, <1>a DEF MembershipFound, Underway, WorkerState, Roles
  <2>2. Mutation(k) \in MutationState /\ Row(k).status # "revoking"
    BY <1>a, <2>1, UnderwayNotRevoking DEF WorkerState, Snapshot, Mutation
  <2>3. Decided(k, Row(k), row)
    BY <1>a, <2>1, <2>2, FoundDecides
  <2> HIDE DEF row
  <2> QED BY <2>1, <2>3, CommitHandled
<1>7. CASE ConfirmedMembershipMissing(k)
  <2> DEFINE row == UpdateMutationState(Row(k), "not_started")
  <2>1. Underway(k) /\ SetGrant(GrantOf(k), row) /\ UNCHANGED jobs
    BY <1>7 DEF ConfirmedMembershipMissing, Underway
  <2>2. RowHandled(k, Row(k), row)
    BY <1>a, <2>1, UnderwayNotRevoking, NotedRows DEF RowHandled
  <2> HIDE DEF row
  <2> QED BY <1>a, <2>1, <2>2, HandledBy
<1>8. CASE SendAdd(k)
  <2> DEFINE row == UpdateMutationState(Row(k), "add_request_sent")
  <2>1. Underway(k) /\ SetGrant(GrantOf(k), row) /\ UNCHANGED jobs
    BY <1>8 DEF SendAdd, Underway
  <2>2. RowHandled(k, Row(k), row)
    BY <1>a, <2>1, UnderwayNotRevoking, NotedRows DEF RowHandled
  <2> HIDE DEF row
  <2> QED BY <1>a, <2>1, <2>2, HandledBy
<1>9. CASE GitHubAdds(k)
  BY <1>9, WaitHandled DEF GitHubAdds
<1>10. CASE AddRejected(k)
  BY <1>10, FailGrantHandled DEF AddRejected, Underway
<1>11. CASE VerifyAdd(k)
  BY <1>11, <1>s, WaitHandled DEF VerifyAdd
<1>12. CASE AddVerified(k)
  <2> DEFINE row == IF worker[k].seen = "maintainer"
                    THEN UpdateGrantStatus(Claimed(Row(k)), "active", "elevated")
                    ELSE Claimed(Row(k))
  <2>1. /\ Underway(k) /\ CommitAndComplete(k, row)
        /\ worker[k].seen \in {"member", "maintainer"}
    BY <1>12, <1>a DEF AddVerified, Underway, WorkerState, Roles
  <2>2. Decided(k, Row(k), row)
    BY <1>a, <2>1, UnderwayNotRevoking, AddDecides
  <2> HIDE DEF row
  <2> QED BY <2>1, <2>2, CommitHandled
<1>13. CASE AddFails(k)
  BY <1>13, WaitHandled DEF AddFails
<1>14. CASE AddRecovered(k)
  <2> DEFINE row == IF worker[k].seen = "member" THEN Activated(Confirmed(Row(k)))
                    ELSE IF Preexisting(k) THEN PresentBefore(Row(k), "maintainer")
                                           ELSE Confirmed(Elevated(Row(k), "active"))
  <2>1. /\ Underway(k) /\ CommitAndComplete(k, row)
        /\ worker[k].seen \in {"member", "maintainer"}
    BY <1>14, <1>a DEF AddRecovered, Underway, WorkerState, Roles
  <2>2. Decided(k, Row(k), row)
    BY <1>a, <2>1, UnderwayNotRevoking, AddDecides
  <2> HIDE DEF row
  <2> QED BY <2>1, <2>2, CommitHandled
<1>15. CASE MembershipNotFound(k)
  BY <1>15, JobFailsHandled DEF MembershipNotFound, Underway
<1>16. CASE HandlerThrows(k)
  BY <1>16, JobFailsHandled DEF HandlerThrows, Underway
<1>17. CASE CrashWorker(k)
  <2>1. UNCHANGED jobs
    BY <1>17 DEF CrashWorker
  <2>2. CASE UNCHANGED grants
    BY <2>1, <2>2, WaitHandled
  <2>3. CASE /\ worker[k].pc = "decide"
             /\ SetGrant(GrantOf(k), UpdateMutationState(Row(k), "add_intent_recorded"))
    <3> DEFINE row == UpdateMutationState(Row(k), "add_intent_recorded")
    <3>1. Underway(k) /\ SetGrant(GrantOf(k), row)
      BY <2>3 DEF Underway
    <3>2. RowHandled(k, Row(k), row)
      BY <1>a, <3>1, UnderwayNotRevoking, NotedRows DEF RowHandled
    <3> HIDE DEF row
    <3> QED BY <1>a, <2>1, <3>1, <3>2, HandledBy
  <2> QED BY <1>17, <2>2, <2>3 DEF CrashWorker
<1> QED
  BY <1>1, <1>2, <1>3, <1>4, <1>5, <1>6, <1>7, <1>8, <1>9, <1>10, <1>11, <1>12,
     <1>13, <1>14, <1>15, <1>16, <1>17 DEF WorkerNext, HandlerStep

-----------------------------------------------------------------------------
(* What a step of a revocation run does *)

\* It goes on, or gives up, without a write.
RunsOn(w) ==
    /\ UNCHANGED <<grants, jobs>>
    /\ Busy(w)' => /\ Busy(w)
                   /\ sweeper'[w].grant = sweeper[w].grant
                   /\ sweeper'[w].lease = sweeper[w].lease
                   /\ sweeper'[w].byApp = sweeper[w].byApp
                   /\ sweeper[w].pc = "leased" => sweeper[w].byApp = 1

\* It takes the lease on a grant.
TakesLease(w, g) ==
    /\ Revocable(w, g)
    /\ sweeper'[w].pc = "leased" /\ sweeper'[w].grant = g
    /\ sweeper'[w].byApp = grants[g].membership_created_by_app
    /\ \A v \in Sweepers \ {w} : sweeper[v].lease # grants'[g].revoking_lease_id
    /\ \A h \in Grants \ {g} : grants'[h] = grants[h]
    /\ LeaseAvailable(grants[g], sweeper[w].now)
    /\ grants'[g].status = "revoking"
    /\ grants'[g].membership_created_by_app = grants[g].membership_created_by_app
    /\ grants'[g].membership_mutation_state = grants[g].membership_mutation_state
    /\ grants'[g].revoked_at = grants[g].revoked_at
    /\ UNCHANGED jobs

\* What it may write over the row it leases.
Outcome(w, old, new) ==
    /\ new.membership_created_by_app = old.membership_created_by_app
    /\ new.revoked_at <=> new.status = "revoked"
    /\ \/ /\ UNCHANGED jobs
          /\ new.membership_mutation_state = old.membership_mutation_state
          /\ \/ /\ new.status = "revoked"
                /\ \/ sweeper[w].byApp = 0
                   \/ ~Flagged(old) /\ sweeper[w].pc \in {"read", "verified"}
                        /\ sweeper[w].seen = "none"
             \/ new.status = "pending" /\ Flagged(old) /\ sweeper[w].pc # "leased"
             \/ new.status = "revoke_failed"
       \/ /\ FreeJobs # {} /\ jobs' = CreateJob(sweeper[w].grant)
          /\ new.status = "pending" /\ Flagged(new)

Settles(w) ==
    /\ Leases(w)
    /\ ~Busy(w)'
    /\ \A g \in Grants \ {sweeper[w].grant} : grants'[g] = grants[g]
    /\ Outcome(w, Held(w), grants'[sweeper[w].grant])

Runs(w) ==
    /\ \A v \in Sweepers \ {w} : sweeper'[v] = sweeper[v]
    /\ \/ RunsOn(w)
       \/ \E g \in Grants : TakesLease(w, g)
       \/ Settles(w)

LEMMA RunStopsRuns ==
    ASSUME TypeInv, NEW w \in Sweepers, RevokeReturns(w), UNCHANGED <<grants, jobs>>
    PROVE  Runs(w)
BY ReturnsIdle DEF Runs, RunsOn

LEMMA RunBecomes ==
    ASSUME TypeInv, NEW w \in Sweepers, NEW s, Become(w, s), UNCHANGED <<grants, jobs>>,
           \/ s.pc \in {"idle", "sweep"}
           \/ /\ Busy(w) /\ s.grant = sweeper[w].grant /\ s.lease = sweeper[w].lease
              /\ s.byApp = sweeper[w].byApp
              /\ sweeper[w].pc = "leased" => sweeper[w].byApp = 1
    PROVE  Runs(w)
<1>1. sweeper'[w] = s /\ \A v \in Sweepers \ {w} : sweeper'[v] = sweeper[v]
  BY DEF Become, TypeInv, TypeOK, SweeperTypeOK
<1> QED BY <1>1 DEF Runs, RunsOn, Busy

LEMMA OutcomeRuns ==
    ASSUME TypeInv, NEW w \in Sweepers, Busy(w), OwnsLease(w), RevokeReturns(w),
           NEW row, SetGrant(sweeper[w].grant, row), Outcome(w, Held(w), row)
    PROVE  Runs(w)
<1>1. sweeper[w].grant \in Grants /\ grants \in [Grants -> DbGrant]
  BY BusySweeper DEF TypeInv, TypeOK, StoreTypeOK
<1>2. /\ grants'[sweeper[w].grant] = row
      /\ \A g \in Grants \ {sweeper[w].grant} : grants'[g] = grants[g]
  BY <1>1 DEF SetGrant
<1>3. Leases(w)
  BY DEF Leases, OwnsLease, OwnsRevokeLease, Held
<1> QED BY <1>2, <1>3, ReturnsIdle DEF Runs, Settles

LEMMA SettleRuns ==
    ASSUME TypeInv, NEW w \in Sweepers, Busy(w), NEW row, Settle(w, row),
           UNCHANGED jobs, OwnsLease(w) => Outcome(w, Held(w), row)
    PROVE  Runs(w)
<1>1. CASE OwnsLease(w)
  BY <1>1, OutcomeRuns DEF Settle
<1>2. CASE ~OwnsLease(w)
  <2>1. UNCHANGED grants
    BY <1>2 DEF Settle, SetGrant, TypeInv, TypeOK, StoreTypeOK
  <2> QED BY <2>1, RunStopsRuns DEF Settle
<1> QED BY <1>1, <1>2

LEMMA RecordFailureRuns ==
    ASSUME TypeInv, NEW w \in Sweepers, Busy(w), RecordFailure(w), UNCHANGED jobs
    PROVE  Runs(w)
<1> DEFINE stage == NextRetryStage(sweeper[w].attempts)
           row == FinalizeRevokeFailed(grants[sweeper[w].grant], stage,
                                       clock + RevokeRetryDelay[stage], FALSE)
<1>1. stage \in RetryStages
  BY RetryStageBounded DEF TypeInv, TypeOK, SweeperTypeOK, SweeperState
<1>2. clock + RevokeRetryDelay[stage] \in Nat
  BY <1>1, RepositoryAssumption DEF TypeInv, TypeOK, StoreTypeOK
<1>3. Settle(w, row)
  BY DEF RecordFailure
<1> HIDE DEF stage
<1>4. Held(w) = grants[sweeper[w].grant] /\ grants[sweeper[w].grant] \in DbGrant
  BY BusySweeper
<1> DEFINE old == grants[sweeper[w].grant]
<1>5. /\ row.status = "revoke_failed" /\ ~row.revoked_at
      /\ row.membership_created_by_app = old.membership_created_by_app
      /\ row.membership_mutation_state = old.membership_mutation_state
  BY <1>1, <1>2, <1>4, FinalizeRevokeFailedType
<1> HIDE DEF row
<1>6. Outcome(w, Held(w), row)
  BY <1>4, <1>5 DEF Outcome
<1> QED BY <1>3, <1>6, SettleRuns

LEMMA AcquireRuns ==
    ASSUME TypeInv, NEW w \in Sweepers, NEW g \in Grants,
           NEW l \in LeaseIds, AcquireLease(w, g, l)
    PROVE  Runs(w)
<1> DEFINE row == AcquireRevokeLease(grants[g], l, sweeper[w].now)
           next == [sweeper[w] EXCEPT
                      !.pc = "leased", !.todo = @ \ {g}, !.grant = g, !.lease = l,
                      !.byApp = grants[g].membership_created_by_app,
                      !.attempts = grants[g].revoke_attempt_count]
<1>1. /\ Revocable(w, g) /\ FreshLease(l) /\ SetGrant(g, row) /\ Become(w, next)
      /\ UNCHANGED jobs
  BY DEF AcquireLease
<1>2. /\ grants \in [Grants -> DbGrant] /\ grants[g] \in DbGrant
      /\ sweeper \in [Sweepers -> SweeperState] /\ sweeper[w] \in SweeperState
      /\ sweeper[w].now \in Nat
  BY BusySweeper DEF TypeInv, TypeOK, StoreTypeOK, SweeperTypeOK
<1>3. /\ row.status = "revoking" /\ row.revoking_lease_id = l
      /\ row.membership_created_by_app = grants[g].membership_created_by_app
      /\ row.membership_mutation_state = grants[g].membership_mutation_state
      /\ row.revoked_at = grants[g].revoked_at
  BY <1>2, AcquireRevokeLeaseType
<1>4. /\ next.pc = "leased" /\ next.grant = g
      /\ next.byApp = grants[g].membership_created_by_app
  BY <1>2 DEF SweeperState
<1> HIDE DEF row, next
<1>5. /\ sweeper'[w] = next /\ grants'[g] = row
      /\ \A v \in Sweepers \ {w} : sweeper'[v] = sweeper[v]
      /\ \A h \in Grants \ {g} : grants'[h] = grants[h]
  BY <1>1, <1>2 DEF Become, SetGrant
<1>6. \A v \in Sweepers \ {w} : sweeper[v].lease # l
  BY <1>1 DEF FreshLease
<1>7. TakesLease(w, g)
  BY <1>1, <1>3, <1>4, <1>5, <1>6 DEF TakesLease, Revocable
<1> QED BY <1>5, <1>7 DEF Runs

LEMMA SweepRuns ==
    ASSUME TypeInv, FenceInv, NEW w \in Sweepers, SweeperNext(w)
    PROVE  Runs(w)
<1>a. /\ sweeper[w] \in SweeperState /\ clock \in Nat
      /\ Busy(w) => /\ Held(w) = grants[sweeper[w].grant] /\ Held(w) \in DbGrant
  BY BusySweeper DEF TypeInv, TypeOK, StoreTypeOK
<1>s. UNCHANGED storeVars => UNCHANGED <<grants, jobs>>
  BY DEF storeVars
\* A busy run only moves its pc and what goes with it.
<1>m. ASSUME NEW s \in SweeperState, Become(w, s), Busy(w),
             s.grant = sweeper[w].grant, s.lease = sweeper[w].lease,
             s.byApp = sweeper[w].byApp,
             sweeper[w].pc = "leased" => sweeper[w].byApp = 1,
             UNCHANGED <<grants, jobs>>
      PROVE  Runs(w)
  BY <1>m, RunBecomes
<1>1. CASE SweepStart(w)
  <2> DEFINE next == [IdleSweeper EXCEPT !.pc = "sweep", !.now = clock,
                        !.todo = {g \in Grants : GetExpired(grants[g], clock)}]
  <2>1. next.pc = "sweep"
    BY DEF IdleSweeper
  <2>2. Become(w, next) /\ UNCHANGED <<grants, jobs>>
    BY <1>1, <1>s DEF SweepStart
  <2> HIDE DEF next
  <2> QED BY <2>1, <2>2, RunBecomes
<1>2. ASSUME NEW g \in Grants, SkipGrant(w, g)
      PROVE  Runs(w)
  <2> DEFINE rest == sweeper[w].todo \ {g}
             next == IF rest = {} THEN IdleSweeper ELSE [sweeper[w] EXCEPT !.todo = rest]
  <2>1. next.pc \in {"idle", "sweep"}
    BY <1>2, <1>a DEF SkipGrant, SweeperState, IdleSweeper
  <2>2. Become(w, next) /\ UNCHANGED <<grants, jobs>>
    BY <1>2, <1>s DEF SkipGrant
  <2> HIDE DEF next
  <2> QED BY <2>1, <2>2, RunBecomes
<1>3. ASSUME NEW g \in Grants, NEW l \in LeaseIds, AcquireLease(w, g, l)
      PROVE  Runs(w)
  BY <1>3, AcquireRuns
<1>4. CASE FinishPreexisting(w)
  <2> DEFINE row == FinalizeRevoked(grants[sweeper[w].grant])
  <2>1. Busy(w) /\ Settle(w, row) /\ UNCHANGED jobs /\ sweeper[w].byApp = 0
    BY <1>4 DEF FinishPreexisting, Busy
  <2>2. Outcome(w, Held(w), row)
    BY <1>a, <2>1, FinalizeRevokedType DEF Outcome
  <2> HIDE DEF row
  <2> QED BY <2>1, <2>2, SettleRuns
<1>5. CASE ReadRole(w)
  <2> DEFINE next == [sweeper[w] EXCEPT !.pc = "read", !.seen = role]
  <2>1. /\ next \in SweeperState /\ next.byApp = sweeper[w].byApp
        /\ next.grant = sweeper[w].grant /\ next.lease = sweeper[w].lease
    BY <1>a DEF SweeperState, TypeInv, TypeOK, StoreTypeOK
  <2>2. Become(w, next) /\ Busy(w) /\ sweeper[w].byApp = 1 /\ UNCHANGED <<grants, jobs>>
    BY <1>5, <1>s DEF ReadRole, Busy
  <2> HIDE DEF next
  <2> QED BY <1>m, <2>1, <2>2
<1>6. CASE CompleteSuccessfulRevoke(w)
  <2> DEFINE row == FinalizeSuccessfulRevoke(grants[sweeper[w].grant],
                                             sweeper[w].lease, clock)
  <2>1. /\ Busy(w) /\ Settle(w, row) /\ UNCHANGED jobs
        /\ sweeper[w].pc \in {"read", "verified"} /\ sweeper[w].seen = "none"
    BY <1>6 DEF CompleteSuccessfulRevoke, Busy
  <2>2. OwnsLease(w) => Outcome(w, Held(w), row)
    BY <1>a, <2>1, FinalizeSuccessfulRevokeType DEF Outcome, OwnsLease, Flagged
  <2> HIDE DEF row
  <2> QED BY <2>1, <2>2, SettleRuns
<1>7. CASE ProtectMaintainer(w)
  <2> DEFINE row == FinalizeRevokeFailed(grants[sweeper[w].grant],
                                         NextRetryStage(sweeper[w].attempts),
                                         clock + RevokeRetryDelay[4], TRUE)
  <2>1. Busy(w) /\ Settle(w, row) /\ UNCHANGED jobs
    BY <1>7 DEF ProtectMaintainer, Busy
  <2>2. clock + RevokeRetryDelay[4] \in Nat
        /\ NextRetryStage(sweeper[w].attempts) \in RetryStages
    BY <1>a, RepositoryAssumption, RetryStageBounded DEF RetryStages, SweeperState
  <2> DEFINE old == grants[sweeper[w].grant]
  <2>3. /\ row.status = "revoke_failed" /\ ~row.revoked_at
        /\ row.membership_created_by_app = old.membership_created_by_app
        /\ row.membership_mutation_state = old.membership_mutation_state
    BY <1>a, <2>1, <2>2, FinalizeRevokeFailedType
  <2> HIDE DEF row
  <2>4. Outcome(w, Held(w), row)
    BY <1>a, <2>1, <2>3 DEF Outcome
  <2> QED BY <2>1, <2>4, SettleRuns
<1>8. CASE AbandonRemoval(w)
  BY <1>8, <1>s, RunStopsRuns DEF AbandonRemoval
<1>9. CASE BeginCancel(w)
  <2> DEFINE next == [sweeper[w] EXCEPT !.pc = "cancel"]
  <2>1. /\ next \in SweeperState /\ next.byApp = sweeper[w].byApp
        /\ next.grant = sweeper[w].grant /\ next.lease = sweeper[w].lease
    BY <1>a DEF SweeperState
  <2>2. Become(w, next) /\ Busy(w) /\ sweeper[w].pc # "leased" /\ UNCHANGED <<grants, jobs>>
    BY <1>9, <1>s DEF BeginCancel, FencePassed, Busy
  <2> HIDE DEF next
  <2> QED BY <1>m, <2>1, <2>2
<1>10. CASE CancelRevocation(w)
  <2> DEFINE g == sweeper[w].grant
             waiting == UpdateGrantStatus(grants[g], "pending", "keep")
             cancelled == UpdateMutationState(waiting, "reactivation_required")
             row == ClearRevokeLease(cancelled)
  <2>1. Busy(w) /\ OwnsLease(w) /\ grants[g] \in DbGrant /\ Held(w) = grants[g]
    BY <1>10, <1>a DEF CancelRevocation, FenceInv, SweeperFenced, Busy
  <2>2. waiting \in DbGrant /\ waiting.status = "pending" /\ ~waiting.revoked_at
        /\ waiting.membership_created_by_app = grants[g].membership_created_by_app
    BY <2>1, UpdateGrantStatusType DEF GrantStatus
  <2>3. cancelled \in DbGrant /\ cancelled.status = "pending" /\ Flagged(cancelled)
        /\ ~cancelled.revoked_at
        /\ cancelled.membership_created_by_app = grants[g].membership_created_by_app
    <3> HIDE DEF waiting
    <3> QED BY <2>2, UpdateMutationStateType DEF MutationState, Flagged
  <2>4. row.status = "pending" /\ Flagged(row) /\ ~row.revoked_at
        /\ row.membership_created_by_app = grants[g].membership_created_by_app
    <3> HIDE DEF cancelled
    <3> QED BY <2>3, ClearRevokeLeaseType DEF Flagged
  <2>6. CASE IndexAccepts(g, cancelled)
    <3>1. /\ FreeJobs # {} /\ jobs' = CreateJob(g)
          /\ SetGrant(g, row) /\ RevokeReturns(w)
      BY <1>10, <2>6 DEF CancelRevocation
    <3> HIDE DEF row
    <3>2. Outcome(w, Held(w), row)
      BY <2>1, <2>4, <3>1 DEF Outcome
    <3> QED BY <2>1, <3>1, <3>2, OutcomeRuns
  <2>7. CASE ~IndexAccepts(g, cancelled)
    <3>1. RecordFailure(w) /\ UNCHANGED jobs
      BY <1>10, <2>7 DEF CancelRevocation
    <3> QED BY <3>1, <2>1, RecordFailureRuns
  <2> QED BY <2>6, <2>7
<1>11. CASE BeginRemoval(w)
  <2> DEFINE next == [sweeper[w] EXCEPT !.pc = "deleting", !.sentAt = clock]
  <2>1. /\ next \in SweeperState /\ next.byApp = sweeper[w].byApp
        /\ next.grant = sweeper[w].grant /\ next.lease = sweeper[w].lease
    BY <1>a DEF SweeperState
  <2>2. Become(w, next) /\ Busy(w) /\ sweeper[w].pc # "leased" /\ UNCHANGED <<grants, jobs>>
    BY <1>11, <1>s DEF BeginRemoval, FencePassed, Busy
  <2> HIDE DEF next
  <2> QED BY <1>m, <2>1, <2>2
<1>12. CASE GitHubRemoves(w)
  <2> DEFINE next == [sweeper[w] EXCEPT !.pc = "deleted"]
  <2>1. /\ next \in SweeperState /\ next.byApp = sweeper[w].byApp
        /\ next.grant = sweeper[w].grant /\ next.lease = sweeper[w].lease
    BY <1>a DEF SweeperState
  <2>2. Become(w, next) /\ Busy(w) /\ sweeper[w].pc # "leased" /\ UNCHANGED <<grants, jobs>>
    BY <1>12 DEF GitHubRemoves, Busy
  <2> HIDE DEF next
  <2> QED BY <1>m, <2>1, <2>2
<1>13. CASE VerifyRemoval(w)
  <2> DEFINE next == [sweeper[w] EXCEPT !.pc = "verified", !.seen = role]
  <2>1. /\ next \in SweeperState /\ next.byApp = sweeper[w].byApp
        /\ next.grant = sweeper[w].grant /\ next.lease = sweeper[w].lease
    BY <1>a DEF SweeperState, TypeInv, TypeOK, StoreTypeOK
  <2>2. Become(w, next) /\ Busy(w) /\ sweeper[w].pc # "leased" /\ UNCHANGED <<grants, jobs>>
    BY <1>13, <1>s DEF VerifyRemoval, Busy
  <2> HIDE DEF next
  <2> QED BY <1>m, <2>1, <2>2
<1>14. CASE RemovalNotVerified(w)
  BY <1>14, RecordFailureRuns DEF RemovalNotVerified, Busy
<1>15. CASE CallFails(w)
  BY <1>15, RecordFailureRuns DEF CallFails, Busy
<1>16. CASE CrashSweeper(w)
  <2>1. Become(w, IdleSweeper) /\ UNCHANGED <<grants, jobs>> /\ IdleSweeper.pc = "idle"
    BY <1>16 DEF CrashSweeper, IdleSweeper
  <2> QED BY <2>1, RunBecomes
<1> QED
  BY <1>1, <1>2, <1>3, <1>4, <1>5, <1>6, <1>7, <1>8, <1>9, <1>10, <1>11, <1>12,
     <1>13, <1>14, <1>15, <1>16 DEF SweeperNext, RevokeStep

-----------------------------------------------------------------------------
(* What an approval does *)

Approved(old, new) ==
    /\ new.membership_created_by_app = old.membership_created_by_app
    /\ new.revoked_at => old.revoked_at
    /\ \/ old.status = "pending" /\ new.status = "pending"
          /\ new.membership_mutation_state = old.membership_mutation_state
       \/ old.status = "revoking" /\ new.status = "revoking" /\ Flagged(new)
          /\ new.revoking_lease_id = old.revoking_lease_id
       \/ old.status = "revoke_failed" /\ new.status = "pending" /\ Flagged(new)

Approves(g) ==
    /\ \A h \in Grants \ {g} : grants'[h] = grants[h]
    /\ \/ /\ UNCHANGED jobs
          /\ grants[g].status = "active" /\ grants'[g].status = "active"
          /\ grants'[g].membership_mutation_state = grants[g].membership_mutation_state
          /\ grants'[g].revoked_at => grants[g].revoked_at
          /\ grants'[g].membership_created_by_app = grants[g].membership_created_by_app
       \/ /\ FreeJobs # {} /\ jobs' = CreateJob(g)
          /\ \/ Approved(grants[g], grants'[g])
             \/ /\ grants[g].status = "none" /\ grants'[g].status = "pending"
                /\ grants'[g].membership_mutation_state = "not_started"
                /\ ~grants'[g].revoked_at

LEMMA ApproveApproves ==
    ASSUME TypeInv, NEW g \in Grants, NEW d \in Durations, CreateGrantIntent(g, d)
    PROVE  Approves(g)
<1> DEFINE e == clock + d
<1>1. e \in Nat /\ grants \in [Grants -> DbGrant] /\ grants[g] \in DbGrant
  BY ServiceAssumption DEF TypeInv, TypeOK, StoreTypeOK
<1>2. ApproveExisting(g, e) \/ ApproveNew(g, e)
  BY DEF CreateGrantIntent
<1> HIDE DEF e
<1>3. CASE ApproveExisting(g, e)
  <2> DEFINE row == Extended(grants[g], e)
  <2>1. grants'[g] = row /\ \A h \in Grants \ {g} : grants'[h] = grants[h]
    BY <1>1, <1>3 DEF ApproveExisting, SetGrant
  <2>2. grants[g].status \in ManagedStatus
    BY <1>3 DEF ApproveExisting, ActiveGrants
  <2>3. /\ row.status = IF grants[g].status = "revoke_failed" THEN "pending"
                        ELSE grants[g].status
        /\ row.membership_created_by_app = grants[g].membership_created_by_app
        /\ row.revoked_at => grants[g].revoked_at
        /\ IF grants[g].status \in {"revoke_failed", "revoking"} THEN Flagged(row)
           ELSE row.membership_mutation_state = grants[g].membership_mutation_state
        /\ grants[g].status = "revoking" =>
              row.revoking_lease_id = grants[g].revoking_lease_id
    BY <1>1, ExtendedType DEF Flagged
  <2> HIDE DEF row
  <2>4. grants[g].status = "active" => UNCHANGED jobs
    BY <1>3 DEF ApproveExisting
  <2>5. grants[g].status # "active" => FreeJobs # {} /\ jobs' = CreateJob(g)
    BY <1>3 DEF ApproveExisting
  <2>6. grants[g].status # "active" => Approved(grants[g], grants'[g])
    BY <2>1, <2>2, <2>3 DEF Approved, ManagedStatus
  <2> QED BY <2>1, <2>3, <2>4, <2>5, <2>6 DEF Approves
<1>4. CASE ApproveNew(g, e)
  <2>1. /\ grants'[g] = CreateGrant(e) /\ \A h \in Grants \ {g} : grants'[h] = grants[h]
        /\ grants[g].status = "none" /\ FreeJobs # {} /\ jobs' = CreateJob(g)
    BY <1>1, <1>4 DEF ApproveNew, SetGrant
  <2>2. /\ CreateGrant(e).status = "pending" /\ ~CreateGrant(e).revoked_at
        /\ CreateGrant(e).membership_mutation_state = "not_started"
    BY <1>1, CreateGrantType
  <2> QED BY <2>1, <2>2 DEF Approves
<1> QED BY <1>2, <1>3, <1>4

\* A job that is created makes no other begin or end.
LEMMA CreatedJob ==
    ASSUME TypeInv, NEW g \in Grants, FreeJobs # {}, jobs' = CreateJob(g)
    PROVE  /\ \E j \in JobIds : jobs'[j].grant = g /\ Unfinished(j)'
           /\ \A j \in JobIds :
                 \/ jobs'[j] = jobs[j]
                 \/ /\ jobs'[j].grant = g /\ Unfinished(j)' /\ ~Unfinished(j)
                    /\ jobs'[j].attempt_count = 0
<1> DEFINE id == CHOOSE j \in FreeJobs : TRUE
<1>1. id \in JobIds /\ jobs[id].status = "unused"
  BY DEF FreeJobs
<1>2. jobs' = [jobs EXCEPT ![id] =
                 [status |-> "queued", grant |-> g, attempt_count |-> 0]]
      /\ jobs \in [JobIds -> Job]
  BY DEF CreateJob, TypeInv, TypeOK, StoreTypeOK
<1> HIDE DEF id
<1>3. /\ jobs'[id].grant = g /\ jobs'[id].status = "queued" /\ jobs'[id].attempt_count = 0
      /\ \A j \in JobIds \ {id} : jobs'[j] = jobs[j]
  BY <1>1, <1>2
<1> QED BY <1>1, <1>3 DEF Unfinished

\* What the step of a job worker that takes a job leaves alone.
JobsUndisturbed ==
    \A i \in JobIds : /\ jobs'[i].grant = jobs[i].grant
                      /\ Unfinished(i)' <=> Unfinished(i)

LEMMA AcquireUndisturbed ==
    ASSUME TypeInv, NEW k \in JobWorkers, NEW j \in JobIds, AcquireNextJob(k, j)
    PROVE  UNCHANGED grants /\ JobsUndisturbed
<1>1. /\ jobs' = [jobs EXCEPT ![j].status = "running", ![j].attempt_count = @ + 1]
      /\ UNCHANGED grants /\ Unfinished(j)
  BY DEF AcquireNextJob, LockIsStale, Unfinished
<1>2. /\ jobs'[j].status = "running" /\ jobs'[j].grant = jobs[j].grant
      /\ \A i \in JobIds \ {j} : jobs'[i] = jobs[i]
  BY <1>1 DEF TypeInv, TypeOK, StoreTypeOK, Job
<1> QED BY <1>1, <1>2 DEF JobsUndisturbed, Unfinished

LEMMA IdleAcquires ==
    ASSUME NEW k \in JobWorkers, WorkerNext(k), worker[k].pc = "idle"
    PROVE  \E j \in JobIds : AcquireNextJob(k, j)
BY DEF WorkerNext, HandlerStep, DeferWhileRevoking, AlreadySatisfied, StartGrantAccess,
       OrganizationMembershipMissing, ReadMembership, MembershipFound,
       ConfirmedMembershipMissing, SendAdd, GitHubAdds, AddRejected, VerifyAdd,
       AddVerified, AddFails, AddRecovered, MembershipNotFound, HandlerThrows, CrashWorker

LEMMA QuietJobs ==
    ASSUME UNCHANGED jobs
    PROVE  JobsUndisturbed
BY DEF JobsUndisturbed, Unfinished

-----------------------------------------------------------------------------
(* HandBackInv is inductive *)

LEMMA RunsRememberQuietly ==
    ASSUME RunsRemember, UNCHANGED sweeper,
           \A w \in Sweepers :
              Busy(w) /\ grants'[sweeper[w].grant].status = "revoking" =>
                LET old == Held(w)
                    new == grants'[sweeper[w].grant]
                IN  /\ old.status = "revoking"
                    /\ new.revoking_lease_id = old.revoking_lease_id
                    /\ new.membership_created_by_app = old.membership_created_by_app
    PROVE  RunsRemember'
BY DEF RunsRemember, Leases, Busy, Held

\* Nothing changes that HandBackInv speaks of.
LEMMA QuietHandsBack ==
    ASSUME HandBackInv, UNCHANGED <<grants, sweeper>>, JobsUndisturbed
    PROVE  HandBackInv'
BY DEF HandBackInv, JobsFlagged, RunsRemember, RevokedHasNoJob, HasUnfinishedJob,
       JobsUndisturbed, Leases, Busy, Held

LEMMA HandlerHandsBack ==
    ASSUME TypeInv, FenceInv, HandBackInv, NEW k \in JobWorkers,
           worker[k].pc # "idle", Handled(k), UNCHANGED sweeper
    PROVE  /\ HandBackInv'
           /\ grants[GrantOf(k)].status = "revoked" =>
                grants[GrantOf(k)].membership_created_by_app # 1
<1> DEFINE g == GrantOf(k)
           old == grants[g]
           new == grants'[g]
<1>1. /\ JobOf(k) \in JobIds /\ g \in Grants
      /\ jobs[JobOf(k)].grant = g /\ Unfinished(JobOf(k)) /\ HasUnfinishedJob(g)
  BY BusyWorker DEF GrantOf, FenceInv, WorkerFenced, Unfinished, HasUnfinishedJob
<1>2. /\ \A h \in Grants \ {g} : grants'[h] = grants[h]
      /\ new.status = "revoking" => new = old
      /\ new.status = "revoked" =>
            /\ old.status = "revoked"
            /\ new.membership_created_by_app = old.membership_created_by_app
  BY DEF Handled, RowHandled, Noted, TakenOver, Decided
<1>3. \A i \in JobIds : jobs'[i].grant = jobs[i].grant /\ (Unfinished(i)' => Unfinished(i))
  BY <1>1 DEF Handled, JobsAlone
<1>4. old.status = "revoked" => old.membership_created_by_app # 1
  BY <1>1 DEF HandBackInv, RevokedHasNoJob
<1> HIDE DEF g
<1>5. JobsFlagged'
  <2> SUFFICES ASSUME NEW j \in JobIds, Unfinished(j)',
                      grants'[jobs'[j].grant].status = "revoking"
               PROVE  Flagged(grants'[jobs'[j].grant])
    BY DEF JobsFlagged
  <2>1. jobs[j].grant \in Grants /\ Unfinished(j) /\ jobs'[j].grant = jobs[j].grant
    BY <1>3 DEF TypeInv, JobsHaveGrants, Unfinished
  <2>2. grants'[jobs[j].grant] = grants[jobs[j].grant]
    BY <1>2, <2>1
  <2> QED BY <2>1, <2>2 DEF HandBackInv, JobsFlagged
<1>6. RunsRemember'
  BY <1>2, BusySweeper, RunsRememberQuietly DEF HandBackInv, Held
<1>7. RevokedHasNoJob'
  <2> SUFFICES ASSUME NEW h \in Grants, grants'[h].status = "revoked",
                      grants'[h].membership_created_by_app = 1, HasUnfinishedJob(h)'
               PROVE  FALSE
    BY DEF RevokedHasNoJob
  <2>1. h # g
    BY <1>2, <1>4
  <2>2. grants'[h] = grants[h] /\ HasUnfinishedJob(h)
    BY <1>2, <1>3, <2>1 DEF HasUnfinishedJob
  <2> QED BY <2>2 DEF HandBackInv, RevokedHasNoJob
<1> QED BY <1>4, <1>5, <1>6, <1>7 DEF HandBackInv, g

LEMMA RunHandsBack ==
    ASSUME TypeInv, FenceInv, HandBackInv, NEW w \in Sweepers, Runs(w)
    PROVE  /\ HandBackInv'
           /\ \A g \in Grants : grants[g].status = "revoked" => grants'[g] = grants[g]
<1>1. CASE RunsOn(w)
  <2>1. JobsUndisturbed
    BY <1>1, QuietJobs DEF RunsOn
  <2>2. JobsFlagged' /\ RevokedHasNoJob'
    BY <1>1, <2>1 DEF RunsOn, HandBackInv, JobsFlagged, RevokedHasNoJob, HasUnfinishedJob,
                      JobsUndisturbed
  <2>3. RunsRemember'
    BY <1>1 DEF Runs, RunsOn, HandBackInv, RunsRemember, Leases, Busy, Held
  <2> QED BY <1>1, <2>2, <2>3 DEF HandBackInv, RunsOn
<1>2. ASSUME NEW g \in Grants, TakesLease(w, g)
      PROVE  /\ HandBackInv'
             /\ \A h \in Grants : grants[h].status = "revoked" => grants'[h] = grants[h]
  <2>1. /\ Revocable(w, g) /\ UNCHANGED jobs /\ grants'[g].status = "revoking"
        /\ \A h \in Grants \ {g} : grants'[h] = grants[h]
        /\ grants[g].status # "revoked"
    BY <1>2 DEF TakesLease, LeaseAvailable
  <2>2. \A j \in JobIds : Unfinished(j) => jobs[j].grant \in Grants \ {g}
    BY <2>1, RevocableHasNoJob DEF TypeInv, JobsHaveGrants, Unfinished
  <2>3. JobsFlagged'
    BY <2>1, <2>2 DEF HandBackInv, JobsFlagged, Unfinished
  <2>4. RevokedHasNoJob'
    BY <2>1 DEF HandBackInv, RevokedHasNoJob, HasUnfinishedJob, Unfinished
  <2>5. ASSUME NEW v \in Sweepers
        PROVE  /\ Leases(v)' => Held(v).membership_created_by_app' = sweeper'[v].byApp
               /\ Busy(v)' /\ sweeper'[v].pc # "leased" => sweeper'[v].byApp = 1
    <3>1. CASE v = w
      BY <1>2, <3>1 DEF TakesLease, Held
    <3>2. CASE v # w
      <4>1. sweeper'[v] = sweeper[v]
        BY <3>2 DEF Runs
      <4>2. CASE Busy(v) /\ sweeper[v].grant = g
        <5>1. sweeper[v].lease # grants'[g].revoking_lease_id
          BY <1>2, <3>2 DEF TakesLease
        <5> QED BY <4>1, <4>2, <5>1 DEF HandBackInv, RunsRemember, Leases, Busy, Held
      <4>3. CASE Busy(v) /\ sweeper[v].grant # g
        <5>1. grants'[sweeper[v].grant] = grants[sweeper[v].grant]
          BY <2>1, <4>3, BusySweeper
        <5> QED BY <4>1, <4>3, <5>1 DEF HandBackInv, RunsRemember, Leases, Busy, Held
      <4>4. CASE ~Busy(v)
        BY <4>1, <4>4 DEF Leases, Busy
      <4> QED BY <4>2, <4>3, <4>4
    <3> QED BY <3>1, <3>2
  <2>6. RunsRemember'
    BY <2>5 DEF RunsRemember
  <2> QED BY <2>1, <2>3, <2>4, <2>6 DEF HandBackInv
<1>3. CASE Settles(w)
  <2> DEFINE g == sweeper[w].grant
             new == grants'[g]
  <2>1. /\ g \in Grants /\ Held(w) = grants[g] /\ Leases(w) /\ ~Busy(w)'
        /\ grants[g].status = "revoking" /\ Outcome(w, grants[g], new)
        /\ \A h \in Grants \ {g} : grants'[h] = grants[h]
    BY <1>3, BusySweeper DEF Settles, Leases
  <2>2. /\ new.status # "revoking"
        /\ grants[g].membership_created_by_app = sweeper[w].byApp
        /\ new.membership_created_by_app = grants[g].membership_created_by_app
    BY <2>1 DEF Outcome, HandBackInv, RunsRemember
  <2> HIDE DEF g
  \* A grant that is revoked had no job: it would have been a reactivation.
  <2>3. new.status = "revoked" /\ new.membership_created_by_app = 1 =>
           /\ UNCHANGED jobs
           /\ \A j \in JobIds : jobs[j].grant = g => ~Unfinished(j)
    <3>1. new.status = "revoked" /\ new.membership_created_by_app = 1 =>
             UNCHANGED jobs /\ ~Flagged(grants[g])
      BY <2>1, <2>2 DEF Outcome
    <3> QED BY <2>1, <3>1 DEF HandBackInv, JobsFlagged
  <2>4. \/ UNCHANGED jobs
        \/ /\ new.status = "pending"
           /\ \A j \in JobIds : jobs'[j] = jobs[j] \/ jobs'[j].grant = g
    <3>1. CASE FreeJobs # {} /\ jobs' = CreateJob(g)
      <4>1. new.status = "pending" \/ UNCHANGED jobs
        BY <2>1 DEF Outcome, g
      <4> QED BY <2>1, <3>1, <4>1, CreatedJob
    <3> QED BY <2>1, <3>1 DEF Outcome, g
  <2>5. JobsFlagged'
    <3> SUFFICES ASSUME NEW j \in JobIds, Unfinished(j)',
                        grants'[jobs'[j].grant].status = "revoking"
                 PROVE  Flagged(grants'[jobs'[j].grant])
      BY DEF JobsFlagged
    <3>1. jobs'[j].grant # g
      BY <2>2
    <3>2. jobs'[j] = jobs[j]
      BY <2>4, <3>1
    <3>3. Unfinished(j) /\ jobs[j].grant \in Grants \ {g}
      BY <3>1, <3>2 DEF Unfinished, TypeInv, JobsHaveGrants
    <3> QED BY <2>1, <3>2, <3>3 DEF HandBackInv, JobsFlagged
  <2>6. RevokedHasNoJob'
    <3> SUFFICES ASSUME NEW h \in Grants, grants'[h].status = "revoked",
                        grants'[h].membership_created_by_app = 1,
                        NEW j \in JobIds, jobs'[j].grant = h, Unfinished(j)'
                 PROVE  FALSE
      BY DEF RevokedHasNoJob, HasUnfinishedJob
    <3>1. CASE h = g
      BY <2>3, <3>1 DEF Unfinished
    <3>2. CASE h # g
      <4>1. jobs'[j] = jobs[j]
        BY <2>4, <3>2
      <4> QED BY <2>1, <3>2, <4>1 DEF HandBackInv, RevokedHasNoJob, HasUnfinishedJob, Unfinished
    <3> QED BY <3>1, <3>2
  <2>7. ASSUME NEW v \in Sweepers
        PROVE  /\ Leases(v)' => Held(v).membership_created_by_app' = sweeper'[v].byApp
               /\ Busy(v)' /\ sweeper'[v].pc # "leased" => sweeper'[v].byApp = 1
    <3>1. CASE v = w
      BY <2>1, <3>1 DEF Leases
    <3>2. CASE v # w
      <4>1. sweeper'[v] = sweeper[v]
        BY <3>2 DEF Runs
      <4>2. CASE Busy(v) /\ sweeper[v].grant = g
        BY <2>2, <4>1, <4>2 DEF HandBackInv, RunsRemember, Leases, Busy, Held
      <4>3. CASE Busy(v) /\ sweeper[v].grant # g
        <5>1. grants'[sweeper[v].grant] = grants[sweeper[v].grant]
          BY <2>1, <4>3, BusySweeper
        <5> QED BY <4>1, <4>3, <5>1 DEF HandBackInv, RunsRemember, Leases, Busy, Held
      <4>4. CASE ~Busy(v)
        BY <4>1, <4>4 DEF Leases, Busy
      <4> QED BY <4>2, <4>3, <4>4
    <3> QED BY <3>1, <3>2
  <2>8. RunsRemember'
    BY <2>7 DEF RunsRemember
  <2> QED BY <2>1, <2>5, <2>6, <2>8 DEF HandBackInv
<1> QED BY <1>1, <1>2, <1>3 DEF Runs

LEMMA ApprovalHandsBack ==
    ASSUME TypeInv, HandBackInv, NEW g \in Grants, Approves(g), UNCHANGED sweeper
    PROVE  /\ HandBackInv'
           /\ \A h \in Grants : grants[h].status = "revoked" => grants'[h] = grants[h]
<1> DEFINE old == grants[g]
           new == grants'[g]
<1>1. /\ \A h \in Grants \ {g} : grants'[h] = grants[h]
      /\ old.status # "revoked" /\ new.status # "revoked"
      /\ new.status = "revoking" =>
            /\ old.status = "revoking" /\ Flagged(new)
            /\ new.revoking_lease_id = old.revoking_lease_id
            /\ new.membership_created_by_app = old.membership_created_by_app
  BY DEF Approves, Approved
<1>2. \A j \in JobIds : jobs'[j] = jobs[j] \/ jobs'[j].grant = g
  <2>1. CASE FreeJobs # {} /\ jobs' = CreateJob(g)
    BY <2>1, CreatedJob
  <2> QED BY <2>1 DEF Approves
<1>3. JobsFlagged'
  <2> SUFFICES ASSUME NEW j \in JobIds, Unfinished(j)',
                      grants'[jobs'[j].grant].status = "revoking"
               PROVE  Flagged(grants'[jobs'[j].grant])
    BY DEF JobsFlagged
  <2>1. CASE jobs'[j].grant = g
    BY <1>1, <2>1
  <2>2. CASE jobs'[j].grant # g
    <3>1. jobs'[j] = jobs[j]
      BY <1>2, <2>2
    <3>2. Unfinished(j) /\ jobs[j].grant \in Grants \ {g}
      BY <2>2, <3>1 DEF Unfinished, TypeInv, JobsHaveGrants
    <3> QED BY <1>1, <3>1, <3>2 DEF HandBackInv, JobsFlagged
  <2> QED BY <2>1, <2>2
<1>4. RunsRemember'
  BY <1>1, BusySweeper, RunsRememberQuietly DEF HandBackInv, Held
<1>5. RevokedHasNoJob'
  <2> SUFFICES ASSUME NEW h \in Grants, grants'[h].status = "revoked",
                      grants'[h].membership_created_by_app = 1,
                      NEW j \in JobIds, jobs'[j].grant = h, Unfinished(j)'
               PROVE  FALSE
    BY DEF RevokedHasNoJob, HasUnfinishedJob
  <2>1. h # g
    BY <1>1
  <2>2. jobs'[j] = jobs[j] /\ grants'[h] = grants[h]
    BY <1>1, <1>2, <2>1
  <2> QED BY <2>2 DEF HandBackInv, RevokedHasNoJob, HasUnfinishedJob, Unfinished
<1> QED BY <1>1, <1>3, <1>4, <1>5 DEF HandBackInv

StaysRevoked ==
    \A g \in Grants :
        grants[g].status = "revoked" /\ grants[g].membership_created_by_app = 1
        => grants'[g].status = "revoked"

LEMMA StepHandsBack ==
    ASSUME Ordinary, ExpiryInv, FenceInv, HandBackInv, [Next]_vars
    PROVE  HandBackInv' /\ StaysRevoked
<1>a. TypeInv
  BY DEF ExpiryInv
<1>q. ASSUME UNCHANGED <<grants, jobs, sweeper>>
      PROVE  HandBackInv' /\ StaysRevoked
  BY <1>q, QuietJobs, QuietHandsBack DEF StaysRevoked
<1>1. ASSUME NEW w \in Sweepers, Sweep(w)
      PROVE  HandBackInv' /\ StaysRevoked
  BY <1>1, <1>a, SweepRuns, RunHandsBack DEF Sweep, StaysRevoked
<1>2. ASSUME NEW k \in JobWorkers, Work(k)
      PROVE  HandBackInv' /\ StaysRevoked
  <2>1. WorkerNext(k) /\ UNCHANGED sweeper
    BY <1>2 DEF Work
  <2>2. CASE worker[k].pc = "idle"
    <3>1. PICK j \in JobIds : AcquireNextJob(k, j)
      BY <2>1, <2>2, IdleAcquires
    <3> QED BY <1>a, <2>1, <3>1, AcquireUndisturbed, QuietHandsBack DEF StaysRevoked
  <2>3. CASE worker[k].pc # "idle"
    <3>1. Handled(k) /\ GrantOf(k) \in Grants
      BY <1>a, <2>1, <2>3, WorkHandled, BusyWorker
    <3>2. \A g \in Grants \ {GrantOf(k)} : grants'[g] = grants[g]
      BY <3>1 DEF Handled
    <3> QED BY <1>a, <2>1, <2>3, <3>1, <3>2, HandlerHandsBack DEF StaysRevoked
  <2> QED BY <2>2, <2>3
<1>3. CASE Approve
  BY <1>3, <1>a, ApproveApproves, ApprovalHandsBack DEF Approve, StaysRevoked
<1>4. CASE Webhook
  BY <1>4 DEF Webhook, FenceInv, NoEvents, HandleMembershipEvent
<1>5. CASE Promote \/ Demote \/ Depart \/ Arrive \/ Tick
  BY <1>5, <1>q DEF Promote, Demote, Depart, Arrive, OwnerActs, Tick
<1>6. CASE UNCHANGED vars
  BY <1>6, <1>q DEF vars, storeVars
<1> QED BY <1>1, <1>2, <1>3, <1>4, <1>5, <1>6 DEF Next

LEMMA HandBackHolds == ASSUME Ordinary PROVE Spec => []HandBackInv
<1>1. Init => HandBackInv
  BY DEF Init, StoreInit, SweeperInit, IdleSweeper, NoGrant, HandBackInv, JobsFlagged,
         RunsRemember, RevokedHasNoJob, HasUnfinishedJob, Unfinished, Leases, Busy
<1>2. ExpiryInv /\ FenceInv /\ HandBackInv /\ [Next]_vars => HandBackInv'
  BY StepHandsBack
<1> QED BY <1>1, <1>2, InvariantHolds, FenceHolds, PTL DEF Spec

\* Once LightGrant has recorded that it took a membership of its own back, no
\* job that is left over and no approval that came during the revocation
\* revives the grant: what came in time was handed back instead.
THEOREM RevokedStaysRevoked == ASSUME Ordinary PROVE Spec => RevokedIsFinal
<1>1. ExpiryInv /\ FenceInv /\ HandBackInv /\ [Next]_vars => [StaysRevoked]_vars
  BY StepHandsBack
<1>2. ASSUME [StaysRevoked]_vars
      PROVE  [\A g \in Grants :
                 grants[g].status = "revoked" /\ grants[g].membership_created_by_app = 1
                 => grants'[g].status = "revoked"]_vars
  BY <1>2 DEF StaysRevoked
<1> QED BY <1>1, <1>2, InvariantHolds, FenceHolds, HandBackHolds, PTL DEF Spec, RevokedIsFinal

-----------------------------------------------------------------------------
(* Whoever waits has a job                                                 *)
(*                                                                         *)
(* Without maintainers: the run that leaves a maintainer alone and the     *)
(* handler that finds one may leave a grant flagged that has no job.       *)

MembersOnly == Admits \cap {"preexisting", "promotion"} = {}

NoMaintainer == role # "maintainer" /\ \A k \in JobWorkers : worker[k].seen # "maintainer"

\* What holds of a row, by whether it has a job.
Awaits(row, hasJob) ==
    /\ row.status = "pending" => hasJob
    /\ row.status \in {"revoking", "revoke_failed"} /\ Flagged(row)
         /\ row.membership_created_by_app = 1 => hasJob
    \* A grant that has access has been given it since it was flagged.
    /\ row.status \in {"active", "already_present"}
         /\ row.membership_created_by_app = 1 => ~Flagged(row)
    /\ row.status = "revoke_failed" /\ hasJob
         => row.membership_mutation_state # "membership_confirmed"

GrantsAwaitJobs == \A g \in Grants : Awaits(grants[g], HasUnfinishedJob(g))

\* A handler that only revalidates a membership does so over a row that needs
\* nothing more.
Looking(k) ==
    worker[k].pc \in {"started", "decide"} /\ Mutation(k) = "membership_confirmed"

HandlersLook ==
    \A k \in JobWorkers :
        Looking(k) => Row(k).status # "revoke_failed" /\ ~Flagged(Row(k))

WaitInv == NoMaintainer /\ GrantsAwaitJobs /\ HandlersLook

LEMMA SeenOrRead ==
    ASSUME TypeInv, NEW k \in JobWorkers, WorkerNext(k)
    PROVE  /\ \A i \in JobWorkers \ {k} : worker'[i] = worker[i]
           /\ worker'[k].seen \in {"none", role, worker[k].seen}
           /\ worker'[k].pc \in {"idle", "acquired"} => worker'[k].seen = "none"
           /\ role' \in {role, "member"}
<1>a. /\ worker \in [JobWorkers -> WorkerState] /\ worker[k] \in WorkerState
  BY DEF TypeInv, TypeOK, WorkerTypeOK
<1>r. ASSUME NEW s, Proceed(k, s)
      PROVE  worker'[k] = s /\ \A i \in JobWorkers \ {k} : worker'[i] = worker[i]
  BY <1>r, HandlerProceeds
<1>i. HandlerReturns(k) => worker'[k].seen = "none"
                           /\ \A i \in JobWorkers \ {k} : worker'[i] = worker[i]
  BY <1>r DEF HandlerReturns, IdleWorker
<1>s. UNCHANGED storeVars => UNCHANGED role
  BY DEF storeVars
<1>1. ASSUME NEW j \in JobIds, AcquireNextJob(k, j)
      PROVE  worker'[k].seen = "none" /\ UNCHANGED role
             /\ \A i \in JobWorkers \ {k} : worker'[i] = worker[i]
  <2> DEFINE last == jobs[j].attempt_count + 1 >= MaxAttempts
             next == [IdleWorker EXCEPT !.pc = "acquired", !.job = j, !.last = last]
  <2>1. Proceed(k, next) /\ UNCHANGED role
    BY <1>1 DEF AcquireNextJob
  <2>2. next.seen = "none"
    BY DEF IdleWorker
  <2> HIDE DEF next
  <2> QED BY <1>r, <2>1, <2>2
<1>2. ASSUME HandlerReturns(k), role' \in {role, "member"}
      PROVE  /\ \A i \in JobWorkers \ {k} : worker'[i] = worker[i]
             /\ worker'[k].seen \in {"none", role, worker[k].seen}
             /\ worker'[k].pc \in {"idle", "acquired"} => worker'[k].seen = "none"
             /\ role' \in {role, "member"}
  BY <1>2, <1>i
<1>3. CASE DeferWhileRevoking(k) \/ AlreadySatisfied(k) \/ CrashWorker(k)
  BY <1>2, <1>3 DEF DeferWhileRevoking, AlreadySatisfied, CrashWorker
<1>4. ASSUME NEW row, JobFails(k) \/ CommitAndComplete(k, row) \/ FailGrant(k)
      PROVE  HandlerReturns(k)
  BY <1>4 DEF JobFails, CommitAndComplete, FailGrant
<1>5. CASE \/ OrganizationMembershipMissing(k) \/ MembershipFound(k)
           \/ AddRejected(k) \/ AddVerified(k) \/ AddRecovered(k)
           \/ MembershipNotFound(k) \/ HandlerThrows(k)
  <2>1. HandlerReturns(k)
    BY <1>4, <1>5
       DEF OrganizationMembershipMissing, MembershipFound, AddRejected, AddVerified,
           AddRecovered, MembershipNotFound, HandlerThrows, JobFails
  <2>2. UNCHANGED role
    BY <1>5
       DEF OrganizationMembershipMissing, MembershipFound, AddRejected, AddVerified,
           AddRecovered, MembershipNotFound, HandlerThrows
  <2> QED BY <1>2, <2>1, <2>2
<1>6. CASE StartGrantAccess(k)
  <2>1. PICK n : Proceed(k, [worker[k] EXCEPT !.pc = "started", !.snap = n]) /\ UNCHANGED role
    BY <1>6 DEF StartGrantAccess
  <2>2. LET next == [worker[k] EXCEPT !.pc = "started", !.snap = n]
        IN  next.seen = worker[k].seen /\ next.pc = "started"
    BY <1>a DEF WorkerState
  <2> QED BY <1>r, <2>1, <2>2
<1>7. CASE SendAdd(k) \/ GitHubAdds(k) \/ ConfirmedMembershipMissing(k)
  <2>1. /\ \E p \in {"adding", "added", "failing"} : Proceed(k, [worker[k] EXCEPT !.pc = p])
        /\ role' \in {role, "member"}
    BY <1>7 DEF SendAdd, GitHubAdds, ConfirmedMembershipMissing
  <2>2. \A p : LET next == [worker[k] EXCEPT !.pc = p]
               IN  next.seen = worker[k].seen /\ next.pc = p
    BY <1>a DEF WorkerState
  <2> QED BY <1>r, <2>1, <2>2
<1>8. CASE ReadMembership(k) \/ VerifyAdd(k) \/ AddFails(k)
  <2>1. /\ \E p \in {"decide", "verify", "recheck"} :
              Proceed(k, [worker[k] EXCEPT !.pc = p, !.seen = role])
        /\ UNCHANGED role
    BY <1>8, <1>s DEF ReadMembership, VerifyAdd, AddFails
  <2>2. \A p : LET next == [worker[k] EXCEPT !.pc = p, !.seen = role]
               IN  next.seen = role /\ next.pc = p
    BY <1>a DEF WorkerState
  <2> QED BY <1>r, <2>1, <2>2
<1> QED
  BY <1>1, <1>3, <1>5, <1>6, <1>7, <1>8 DEF WorkerNext, HandlerStep

\* How a handler gets to look: it starts on its row, or goes on.
LEMMA HandlerLooks ==
    ASSUME TypeInv, NEW k \in JobWorkers, WorkerNext(k), worker[k].pc # "idle", Looking(k)'
    PROVE  /\ worker'[k].job = JobOf(k) /\ UNCHANGED jobs
           /\ \/ /\ UNCHANGED grants /\ Looking(k)
              \/ /\ Row(k).membership_mutation_state = "membership_confirmed"
                 /\ UNCHANGED grants
<1>a. /\ worker \in [JobWorkers -> WorkerState] /\ worker[k] \in WorkerState
      /\ Row(k) \in DbGrant /\ Row(k) = grants[GrantOf(k)] /\ GrantOf(k) \in Grants
      /\ grants \in [Grants -> DbGrant]
  BY BusyWorker DEF TypeInv, TypeOK, StoreTypeOK, WorkerTypeOK
<1>r. ASSUME NEW s, Proceed(k, s)
      PROVE  worker'[k] = s
  BY <1>r, HandlerProceeds
<1>i. ~HandlerReturns(k)
  BY <1>r DEF HandlerReturns, IdleWorker, Looking
<1>p. ASSUME NEW p, NEW x, Proceed(k, [worker[k] EXCEPT !.pc = p, !.seen = x])
      PROVE  /\ worker'[k].pc = p /\ worker'[k].job = worker[k].job
             /\ worker'[k].snap = worker[k].snap
  BY <1>a, <1>p, <1>r DEF WorkerState
<1>q. ASSUME NEW p, Proceed(k, [worker[k] EXCEPT !.pc = p])
      PROVE  worker'[k].pc = p
  BY <1>a, <1>q, <1>r DEF WorkerState
<1>1. CASE ReadMembership(k)
  <2>1. /\ worker[k].pc = "started" /\ UNCHANGED <<grants, jobs>>
        /\ Proceed(k, [worker[k] EXCEPT !.pc = "decide", !.seen = role])
    BY <1>1 DEF ReadMembership, storeVars
  <2>2. worker'[k].job = JobOf(k) /\ Mutation(k)' = Mutation(k)
    BY <1>p, <2>1 DEF JobOf, Mutation
  <2> QED BY <2>1, <2>2 DEF Looking
<1>2. CASE StartGrantAccess(k)
  <2> DEFINE row == IF Row(k).status = "revoking"
                    THEN ReclaimStrandedReactivation(Row(k)) ELSE Row(k)
             snap == [status |-> row.status,
                      membership_created_by_app |-> row.membership_created_by_app,
                      membership_mutation_state |-> row.membership_mutation_state]
  <2>1. /\ SetGrant(GrantOf(k), row) /\ UNCHANGED jobs
        /\ Row(k).status = "revoking" => Flagged(Row(k))
        /\ Proceed(k, [worker[k] EXCEPT !.pc = "started", !.snap = snap])
    BY <1>2 DEF StartGrantAccess, ReactivationStranded, Flagged
  <2>2. row.membership_mutation_state = Row(k).membership_mutation_state
    BY <1>a, ReturnToPendingType DEF ReclaimStrandedReactivation
  <2>3. snap.membership_mutation_state = row.membership_mutation_state
    OBVIOUS
  <2> HIDE DEF snap, row
  <2>4. worker'[k].snap = snap /\ worker'[k].job = JobOf(k)
    BY <1>a, <1>r, <2>1 DEF WorkerState, JobOf
  <2>5. Row(k).membership_mutation_state = "membership_confirmed"
    BY <2>2, <2>3, <2>4 DEF Looking, Mutation
  <2>6. UNCHANGED grants
    BY <1>a, <2>1, <2>5 DEF Flagged, SetGrant, row
  <2> QED BY <2>1, <2>4, <2>5, <2>6
<1>3. ~ \E j \in JobIds : AcquireNextJob(k, j)
  BY DEF AcquireNextJob
<1>4. CASE SendAdd(k) \/ GitHubAdds(k) \/ ConfirmedMembershipMissing(k)
  BY <1>4, <1>q DEF SendAdd, GitHubAdds, ConfirmedMembershipMissing, Looking
<1>5. CASE VerifyAdd(k) \/ AddFails(k)
  BY <1>5, <1>p DEF VerifyAdd, AddFails, Looking
<1>6. ASSUME NEW row, JobFails(k) \/ CommitAndComplete(k, row) \/ FailGrant(k)
      PROVE  FALSE
  BY <1>6, <1>i DEF JobFails, CommitAndComplete, FailGrant
<1>7. ~ \/ OrganizationMembershipMissing(k) \/ MembershipFound(k)
        \/ AddRejected(k) \/ AddVerified(k) \/ AddRecovered(k)
        \/ MembershipNotFound(k) \/ HandlerThrows(k)
  BY <1>6
     DEF OrganizationMembershipMissing, MembershipFound, AddRejected, AddVerified,
         AddRecovered, MembershipNotFound, HandlerThrows, JobFails
<1>8. ~ (DeferWhileRevoking(k) \/ AlreadySatisfied(k) \/ CrashWorker(k))
  BY <1>i DEF DeferWhileRevoking, AlreadySatisfied, CrashWorker
<1> QED
  BY <1>1, <1>2, <1>3, <1>4, <1>5, <1>7, <1>8 DEF WorkerNext, HandlerStep

-----------------------------------------------------------------------------
(* WaitInv is inductive *)

LEMMA SameGrantLater ==
    ASSUME TypeInv, FenceInv, NEW i \in JobWorkers, worker[i].pc # "idle",
           worker'[i] = worker[i],
           jobs'[JobOf(i)].grant = jobs[JobOf(i)].grant
    PROVE  GrantOf(i)' = GrantOf(i) /\ Row(i)' = grants'[GrantOf(i)]
           /\ (Looking(i)' <=> Looking(i))
BY BusyWorker DEF JobOf, GrantOf, Row, Looking, Mutation

\* A row that waits as it should, the others untouched.
LEMMA OthersAwait ==
    ASSUME GrantsAwaitJobs, NEW g \in Grants,
           \A h \in Grants \ {g} : grants'[h] = grants[h],
           \A h \in Grants \ {g} : HasUnfinishedJob(h)' <=> HasUnfinishedJob(h),
           Awaits(grants'[g], HasUnfinishedJob(g)')
    PROVE  GrantsAwaitJobs'
<1> SUFFICES ASSUME NEW h \in Grants
             PROVE  Awaits(grants'[h], HasUnfinishedJob(h)')
  BY DEF GrantsAwaitJobs
<1>1. CASE h = g
  BY <1>1
<1>2. CASE h # g
  <2>1. grants'[h] = grants[h] /\ (HasUnfinishedJob(h)' <=> HasUnfinishedJob(h))
    BY <1>2
  <2>2. Awaits(grants[h], HasUnfinishedJob(h))
    BY DEF GrantsAwaitJobs
  <2> QED BY <2>1, <2>2 DEF Awaits
<1> QED BY <1>1, <1>2

LEMMA HandlerWaits ==
    ASSUME ExpiryInv, FenceInv, WaitInv, NEW k \in JobWorkers, WorkerNext(k),
           worker[k].pc # "idle", Handled(k)
    PROVE  WaitInv'
<1>g. PICK g \in Grants : g = GrantOf(k)
  BY BusyWorker DEF ExpiryInv
<1> DEFINE old == grants[g]
           new == grants'[g]
<1>a. /\ TypeInv /\ JobOf(k) \in JobIds /\ g \in Grants
      /\ jobs[JobOf(k)].grant = g /\ Unfinished(JobOf(k)) /\ HasUnfinishedJob(g)
      /\ Row(k) = grants[g]
  BY <1>g, BusyWorker DEF ExpiryInv, GrantOf, FenceInv, WorkerFenced, Unfinished, HasUnfinishedJob
<1>b. /\ \A h \in Grants \ {g} : grants'[h] = grants[h]
      /\ RowHandled(k, old, new)
      /\ \A i \in JobIds : /\ jobs'[i].grant = jobs[i].grant
                           /\ Unfinished(i)' => Unfinished(i)
                           /\ jobs[i].grant # g => (Unfinished(i)' <=> Unfinished(i))
  BY <1>a, <1>g DEF Handled, JobsAlone
<1>c. worker[k].seen # "maintainer"
  BY DEF WaitInv, NoMaintainer
<1>d. new.status \in {"active", "already_present", "grant_failed"} \/ HasUnfinishedJob(g)'
  <2>1. \/ jobs'[JobOf(k)].status \in {"queued", "running"}
        \/ new.status \in {"active", "already_present", "grant_failed"}
    BY <1>c, <1>g DEF Handled
  <2>2. jobs'[JobOf(k)].status \in {"queued", "running"} => HasUnfinishedJob(g)'
    BY <1>a, <1>b DEF HasUnfinishedJob, Unfinished
  <2> QED BY <2>1, <2>2
<1>l. worker[k].pc = "decide" /\ Mutation(k) = "membership_confirmed" => ~Flagged(old)
  BY <1>a DEF WaitInv, HandlersLook, Looking
<1>e. /\ old.status # "revoking" /\ ~Flagged(old) /\ old.status # "revoke_failed"
         => new.status # "revoke_failed" /\ ~Flagged(new)
      /\ new.status = "revoke_failed" /\ new.membership_mutation_state = "membership_confirmed"
           => new = old
      /\ new.status \in {"active", "already_present"} /\ new.membership_created_by_app = 1
           /\ Flagged(new) => new = old
  <2>1. CASE new = old
    BY <2>1
  <2>2. CASE Noted(old, new)
    BY <2>2 DEF Noted, Flagged
  <2>3. CASE TakenOver(old, new)
    BY <2>3 DEF TakenOver
  <2>4. CASE Decided(k, old, new)
    BY <1>c, <1>l, <2>4 DEF Decided, Flagged
  <2>5. CASE /\ old.status # "revoking" /\ new.status = "grant_failed"
             /\ Flagged(new) => Flagged(old)
    BY <2>5
  <2> QED BY <1>b, <2>1, <2>2, <2>3, <2>4, <2>5 DEF RowHandled
<1>1. NoMaintainer'
  BY SeenOrRead, <1>a DEF WaitInv, NoMaintainer
<1>2. Awaits(grants'[g], HasUnfinishedJob(g)')
  <2>1. HasUnfinishedJob(g)' \/ new.status \in {"active", "already_present", "grant_failed"}
    BY <1>d
  <2>2. /\ old.status \in {"active", "already_present"}
             /\ old.membership_created_by_app = 1 => ~Flagged(old)
        /\ old.status = "revoke_failed" => old.membership_mutation_state # "membership_confirmed"
    BY <1>a DEF WaitInv, GrantsAwaitJobs, Awaits
  <2> QED BY <1>e, <2>1, <2>2 DEF Awaits
<1>3. GrantsAwaitJobs'
  <2>1. \A h \in Grants \ {g} : HasUnfinishedJob(h)' <=> HasUnfinishedJob(h)
    BY <1>b DEF HasUnfinishedJob
  <2> QED BY <1>a, <1>b, <1>2, <2>1, OthersAwait DEF WaitInv
<1>4. ASSUME NEW i \in JobWorkers, Looking(i)'
      PROVE  Row(i)'.status # "revoke_failed" /\ ~Flagged(Row(i)')
  <2>1. CASE i = k
    <3>1. /\ worker'[k].job = JobOf(k) /\ UNCHANGED <<grants, jobs>>
          /\ Looking(k) \/ Row(k).membership_mutation_state = "membership_confirmed"
      BY <1>a, <1>4, <2>1, HandlerLooks
    <3>2. Row(k)' = Row(k)
      BY <3>1 DEF Row, GrantOf, JobOf
    <3>3. CASE Looking(k)
      BY <2>1, <3>2, <3>3 DEF WaitInv, HandlersLook
    <3>4. CASE Row(k).membership_mutation_state = "membership_confirmed"
      BY <1>a, <2>1, <3>2, <3>4 DEF WaitInv, GrantsAwaitJobs, Awaits, Flagged
    <3> QED BY <3>1, <3>3, <3>4
  <2>2. CASE i # k
    <3>1. worker'[i] = worker[i] /\ worker[i].pc # "idle"
      BY <1>a, <1>4, <2>2, SeenOrRead DEF Looking
    <3>2. JobOf(i) \in JobIds /\ GrantOf(i) \in Grants /\ Row(i) = grants[GrantOf(i)]
      BY <1>a, <3>1, BusyWorker
    <3>3. Looking(i) /\ Row(i)' = grants'[GrantOf(i)]
      BY <1>a, <1>b, <1>4, <3>1, <3>2, SameGrantLater
    <3>4. /\ Row(i).status # "revoke_failed" /\ ~Flagged(Row(i))
          /\ Row(i).status # "revoking"
      BY <3>3 DEF WaitInv, HandlersLook, FenceInv, WorkerFenced, Looking
    <3> QED BY <1>b, <1>e, <3>2, <3>3, <3>4
  <2> QED BY <2>1, <2>2
<1>5. HandlersLook'
  BY <1>4 DEF HandlersLook
<1> QED BY <1>1, <1>3, <1>5 DEF WaitInv

LEMMA RunWaits ==
    ASSUME ExpiryInv, FenceInv, HandBackInv, WaitInv, NEW w \in Sweepers, Runs(w),
           UNCHANGED worker, role' \in {role, "none"}
    PROVE  WaitInv'
<1>a. TypeInv
  BY DEF ExpiryInv
<1>b. NoMaintainer'
  BY DEF WaitInv, NoMaintainer
\* A handler is not on a grant that a run has to do with.
<1>l. ASSUME NEW g \in Grants, \A h \in Grants \ {g} : grants'[h] = grants[h],
             \A j \in JobIds : Unfinished(j) => jobs'[j].grant = jobs[j].grant,
             \A i \in JobWorkers : Looking(i) => GrantOf(i) # g
      PROVE  HandlersLook'
  <2> SUFFICES ASSUME NEW i \in JobWorkers, Looking(i)'
               PROVE  Row(i)'.status # "revoke_failed" /\ ~Flagged(Row(i)')
    BY DEF HandlersLook
  <2>1. worker[i].pc # "idle" /\ worker'[i] = worker[i]
    BY DEF Looking
  <2>2. JobOf(i) \in JobIds /\ GrantOf(i) \in Grants /\ Row(i) = grants[GrantOf(i)]
        /\ Unfinished(JobOf(i))
    BY <1>a, <2>1, BusyWorker DEF FenceInv, WorkerFenced, Unfinished
  <2>3. Looking(i) /\ Row(i)' = grants'[GrantOf(i)]
    BY <1>a, <1>l, <2>1, <2>2, SameGrantLater
  <2>4. Row(i)' = Row(i)
    BY <1>l, <2>2, <2>3
  <2> QED BY <2>3, <2>4 DEF WaitInv, HandlersLook
<1>1. CASE RunsOn(w)
  <2>1. UNCHANGED <<grants, jobs>>
    BY <1>1 DEF RunsOn
  <2>2. GrantsAwaitJobs'
    BY <2>1 DEF WaitInv, GrantsAwaitJobs, HasUnfinishedJob, Unfinished
  <2>3. HandlersLook'
    BY <2>1 DEF WaitInv, HandlersLook, Looking, Mutation, Row, GrantOf, JobOf
  <2> QED BY <1>b, <2>2, <2>3 DEF WaitInv
<1>2. ASSUME NEW g \in Grants, TakesLease(w, g)
      PROVE  WaitInv'
  <2>1. /\ Revocable(w, g) /\ UNCHANGED jobs
        /\ \A h \in Grants \ {g} : grants'[h] = grants[h]
        /\ grants[g].status \in {"active", "revoke_failed", "already_present", "revoking"}
        /\ grants'[g].status = "revoking"
        /\ grants'[g].membership_created_by_app = grants[g].membership_created_by_app
        /\ Flagged(grants'[g]) <=> Flagged(grants[g])
    BY <1>2 DEF TakesLease, LeaseAvailable, Flagged
  <2>2. ~HasUnfinishedJob(g)
    BY <1>a, <2>1, RevocableHasNoJob DEF HasUnfinishedJob
  <2>3. ~(Flagged(grants[g]) /\ grants[g].membership_created_by_app = 1)
    BY <2>1, <2>2 DEF WaitInv, GrantsAwaitJobs, Awaits
  <2>4. \A h \in Grants : HasUnfinishedJob(h)' <=> HasUnfinishedJob(h)
    BY <2>1 DEF HasUnfinishedJob, Unfinished
  <2>5. GrantsAwaitJobs'
    BY <2>1, <2>3, <2>4 DEF WaitInv, GrantsAwaitJobs, Awaits
  <2>6. \A i \in JobWorkers : Looking(i) => GrantOf(i) # g
    BY <1>a, <2>2, BusyWorker
       DEF HasUnfinishedJob, Looking, GrantOf, FenceInv, WorkerFenced, Unfinished
  <2>7. HandlersLook'
    BY <1>l, <2>1, <2>6
  <2> QED BY <1>b, <2>5, <2>7 DEF WaitInv
<1>3. CASE Settles(w)
  <2>g. PICK g \in Grants : g = sweeper[w].grant
    BY <1>3, <1>a, BusySweeper DEF Settles, Leases
  <2> DEFINE old == grants[g]
             new == grants'[g]
  <2>1. /\ Leases(w) /\ old.status = "revoking" /\ Outcome(w, old, new)
        /\ \A h \in Grants \ {g} : grants'[h] = grants[h]
    BY <1>3, <2>g DEF Settles, Leases, Held
  <2>2. /\ old.membership_created_by_app = sweeper[w].byApp
        /\ sweeper[w].pc # "leased" => sweeper[w].byApp = 1
    BY <2>g, <2>1 DEF HandBackInv, RunsRemember, Leases, Held
  <2>3. \A j \in JobIds : jobs'[j] = jobs[j] \/ (~Unfinished(j) /\ jobs'[j].grant = g)
    <3>1. CASE FreeJobs # {} /\ jobs' = CreateJob(g)
      BY <1>a, <3>1, CreatedJob
    <3> QED BY <2>g, <2>1, <3>1 DEF Outcome
  <2>4. \A h \in Grants \ {g} : HasUnfinishedJob(h)' <=> HasUnfinishedJob(h)
    BY <2>3 DEF HasUnfinishedJob, Unfinished
  <2>5. HasUnfinishedJob(g) => Flagged(old)
    BY <2>1 DEF HandBackInv, JobsFlagged, HasUnfinishedJob
  <2>6. Flagged(old) /\ old.membership_created_by_app = 1 => HasUnfinishedJob(g)
    BY <2>1 DEF WaitInv, GrantsAwaitJobs, Awaits
  <2>7. ASSUME UNCHANGED jobs,
               new.membership_mutation_state = old.membership_mutation_state,
               new.membership_created_by_app = old.membership_created_by_app,
               \/ new.status = "revoked"
               \/ new.status = "pending" /\ Flagged(old) /\ sweeper[w].pc # "leased"
               \/ new.status = "revoke_failed"
        PROVE  GrantsAwaitJobs'
    <3>1. HasUnfinishedJob(g)' <=> HasUnfinishedJob(g)
      BY <2>7 DEF HasUnfinishedJob, Unfinished
    <3>2. new.status = "pending" => HasUnfinishedJob(g)'
      BY <2>2, <2>6, <2>7, <3>1
    <3>3. /\ Flagged(new) /\ new.membership_created_by_app = 1 => HasUnfinishedJob(g)'
          /\ HasUnfinishedJob(g)' => new.membership_mutation_state # "membership_confirmed"
          /\ new.status \notin {"active", "already_present"}
      BY <2>5, <2>6, <2>7, <3>1 DEF Flagged
    <3>4. Awaits(new, HasUnfinishedJob(g)')
      BY <3>2, <3>3 DEF Awaits
    <3> QED BY <2>1, <2>4, <3>4, OthersAwait DEF WaitInv
  <2>8. ASSUME FreeJobs # {}, jobs' = CreateJob(g), new.status = "pending"
        PROVE  GrantsAwaitJobs'
    <3>1. HasUnfinishedJob(g)'
      BY <1>a, <2>8, CreatedJob DEF HasUnfinishedJob
    <3>2. Awaits(new, HasUnfinishedJob(g)')
      BY <2>8, <3>1 DEF Awaits
    <3> QED BY <2>1, <2>4, <3>2, OthersAwait DEF WaitInv
  <2>9. GrantsAwaitJobs'
    BY <2>g, <2>1, <2>7, <2>8 DEF Outcome
  <2>10. \A i \in JobWorkers : Looking(i) => GrantOf(i) # g
    BY <2>1 DEF Looking, Row, FenceInv, WorkerFenced
  <2>11. HandlersLook'
    BY <1>l, <2>1, <2>3, <2>10
  <2> QED BY <1>b, <2>9, <2>11 DEF WaitInv
<1> QED BY <1>1, <1>2, <1>3 DEF Runs

LEMMA ApprovalWaits ==
    ASSUME ExpiryInv, FenceInv, WaitInv, NEW g \in Grants, Approves(g),
           UNCHANGED <<worker, role>>
    PROVE  WaitInv'
<1> DEFINE old == grants[g]
           new == grants'[g]
<1>a. TypeInv
  BY DEF ExpiryInv
<1>b. NoMaintainer'
  BY DEF WaitInv, NoMaintainer
<1>1. \A h \in Grants \ {g} : grants'[h] = grants[h]
  BY DEF Approves
<1>2. \A j \in JobIds : jobs'[j] = jobs[j] \/ (~Unfinished(j) /\ jobs'[j].grant = g)
  <2>1. CASE FreeJobs # {} /\ jobs' = CreateJob(g)
    BY <1>a, <2>1, CreatedJob
  <2> QED BY <2>1 DEF Approves
<1>3. \A h \in Grants \ {g} : HasUnfinishedJob(h)' <=> HasUnfinishedJob(h)
  BY <1>2 DEF HasUnfinishedJob, Unfinished
<1>4. \/ /\ new.status = "active" /\ old.status = "active"
         /\ new.membership_created_by_app = old.membership_created_by_app
         /\ new.membership_mutation_state = old.membership_mutation_state
      \/ new.status \in {"pending", "revoking"} /\ HasUnfinishedJob(g)'
  <2>1. FreeJobs # {} /\ jobs' = CreateJob(g) => HasUnfinishedJob(g)'
    BY <1>a, CreatedJob DEF HasUnfinishedJob
  <2> QED BY <2>1 DEF Approves, Approved
<1>5. GrantsAwaitJobs'
  <2>1. Awaits(old, HasUnfinishedJob(g))
    BY DEF WaitInv, GrantsAwaitJobs
  <2>2. Awaits(new, HasUnfinishedJob(g)')
    BY <1>4, <2>1 DEF Awaits, Flagged
  <2> QED BY <1>1, <1>3, <2>2, OthersAwait DEF WaitInv
<1>6. \/ old.status = "none"
      \/ old.status \in {"revoking", "revoke_failed"}
      \/ new.status # "revoke_failed" /\ (Flagged(new) <=> Flagged(old))
  BY DEF Approves, Approved, Flagged
<1>7. ASSUME NEW i \in JobWorkers, Looking(i)'
      PROVE  Row(i)'.status # "revoke_failed" /\ ~Flagged(Row(i)')
  <2>1. worker[i].pc # "idle" /\ worker'[i] = worker[i]
    BY <1>7 DEF Looking
  <2>2. JobOf(i) \in JobIds /\ GrantOf(i) \in Grants /\ Row(i) = grants[GrantOf(i)]
        /\ Unfinished(JobOf(i))
    BY <1>a, <2>1, BusyWorker DEF FenceInv, WorkerFenced, Unfinished
  <2>3. Looking(i) /\ Row(i)' = grants'[GrantOf(i)]
    BY <1>a, <1>2, <1>7, <2>1, <2>2, SameGrantLater
  <2>4. /\ Row(i).status # "revoke_failed" /\ ~Flagged(Row(i))
        /\ Row(i).status # "revoking"
    BY <2>3 DEF WaitInv, HandlersLook, FenceInv, WorkerFenced, Looking
  <2>5. Row(i).status # "none"
    <3>1. HasActiveRequests(GrantOf(i), clock)
      BY <2>2 DEF FenceInv, JobsInTime, GrantOf
    <3> QED BY <2>2, <3>1 DEF HasActiveRequests, ExpiryInv, NoRowNoRequest
  <2> QED BY <1>1, <1>6, <2>2, <2>3, <2>4, <2>5
<1>8. HandlersLook'
  BY <1>7 DEF HandlersLook
<1> QED BY <1>b, <1>5, <1>8 DEF WaitInv

\* A step that leaves the rows, the handlers and the queue as they are.
LEMMA QuietWaits ==
    ASSUME WaitInv, UNCHANGED <<grants, jobs, worker>>, role' # "maintainer"
    PROVE  WaitInv'
<1>1. NoMaintainer'
  BY DEF WaitInv, NoMaintainer
<1>2. GrantsAwaitJobs'
  BY DEF WaitInv, GrantsAwaitJobs, HasUnfinishedJob, Unfinished
<1>3. HandlersLook'
  BY DEF WaitInv, HandlersLook, Looking, Mutation, Row, GrantOf, JobOf
<1> QED BY <1>1, <1>2, <1>3 DEF WaitInv

LEMMA AcquireWaits ==
    ASSUME TypeInv, FenceInv, WaitInv, NEW k \in JobWorkers, NEW j \in JobIds,
           AcquireNextJob(k, j)
    PROVE  WaitInv'
<1>1. UNCHANGED <<grants, role>> /\ JobsUndisturbed
  BY AcquireUndisturbed DEF AcquireNextJob
<1> DEFINE last == jobs[j].attempt_count + 1 >= MaxAttempts
           next == [IdleWorker EXCEPT !.pc = "acquired", !.job = j, !.last = last]
<1>2. Proceed(k, next) /\ next.pc = "acquired" /\ next.seen = "none"
  BY DEF AcquireNextJob, IdleWorker
<1> HIDE DEF next
<1>3. worker'[k] = next /\ \A i \in JobWorkers \ {k} : worker'[i] = worker[i]
  BY <1>2, HandlerProceeds
<1>4. NoMaintainer'
  BY <1>1, <1>2, <1>3 DEF WaitInv, NoMaintainer
<1>5. GrantsAwaitJobs'
  BY <1>1 DEF WaitInv, GrantsAwaitJobs, HasUnfinishedJob, JobsUndisturbed
<1>6. ASSUME NEW i \in JobWorkers, Looking(i)'
      PROVE  Row(i)'.status # "revoke_failed" /\ ~Flagged(Row(i)')
  <2>1. worker'[i] = worker[i] /\ worker[i].pc # "idle"
    BY <1>2, <1>3, <1>6 DEF Looking
  <2>2. JobOf(i) \in JobIds /\ GrantOf(i) \in Grants /\ Row(i) = grants[GrantOf(i)]
    BY <2>1, BusyWorker
  <2>3. Looking(i) /\ Row(i)' = grants'[GrantOf(i)]
    BY <1>1, <1>6, <2>1, <2>2, SameGrantLater DEF JobsUndisturbed
  <2> QED BY <1>1, <2>2, <2>3 DEF WaitInv, HandlersLook
<1>7. HandlersLook'
  BY <1>6 DEF HandlersLook
<1> QED BY <1>4, <1>5, <1>7 DEF WaitInv

LEMMA RunsLeaveRole ==
    ASSUME NEW w \in Sweepers, SweeperNext(w)
    PROVE  role' \in {role, "none"}
BY DEF SweeperNext, RevokeStep, SweepStart, SkipGrant, AcquireLease, FinishPreexisting,
       ReadRole, CompleteSuccessfulRevoke, ProtectMaintainer, AbandonRemoval, BeginCancel,
       CancelRevocation, BeginRemoval, GitHubRemoves, VerifyRemoval, RemovalNotVerified,
       CallFails, CrashSweeper, storeVars

LEMMA StepWaits ==
    ASSUME Ordinary, MembersOnly, ExpiryInv, FenceInv, HandBackInv, WaitInv, [Next]_vars
    PROVE  WaitInv'
<1>a. TypeInv /\ role # "maintainer"
  BY DEF ExpiryInv, WaitInv, NoMaintainer
<1>1. ASSUME NEW w \in Sweepers, Sweep(w)
      PROVE  WaitInv'
  BY <1>1, <1>a, SweepRuns, RunsLeaveRole, RunWaits DEF Sweep
<1>2. ASSUME NEW k \in JobWorkers, Work(k)
      PROVE  WaitInv'
  <2>1. CASE worker[k].pc # "idle"
    BY <1>2, <1>a, <2>1, WorkHandled, HandlerWaits DEF Work
  <2>2. CASE worker[k].pc = "idle"
    <3>1. PICK j \in JobIds : AcquireNextJob(k, j)
      BY <1>2, <2>2, IdleAcquires DEF Work
    <3> QED BY <1>a, <3>1, AcquireWaits
  <2> QED BY <2>1, <2>2
<1>3. CASE Approve
  BY <1>3, <1>a, ApproveApproves, ApprovalWaits DEF Approve, CreateGrantIntent
<1>4. CASE Webhook
  BY <1>4 DEF Webhook, FenceInv, NoEvents, HandleMembershipEvent
<1>5. CASE Promote \/ Demote \/ Depart \/ Arrive
  <2>1. UNCHANGED <<grants, jobs, worker>> /\ role' # "maintainer"
    BY <1>5 DEF Promote, Demote, Depart, Arrive, OwnerActs, Admitted, MembersOnly
  <2> QED BY <2>1, QuietWaits
<1>6. CASE Tick
  BY <1>6, <1>a, QuietWaits DEF Tick
<1>7. CASE UNCHANGED vars
  BY <1>7, <1>a, QuietWaits DEF vars, storeVars
<1> QED BY <1>1, <1>2, <1>3, <1>4, <1>5, <1>6, <1>7 DEF Next

LEMMA InitWaits == ASSUME MembersOnly PROVE Init => WaitInv
<1> SUFFICES ASSUME Init PROVE WaitInv
  OBVIOUS
<1>1. \A k \in JobWorkers : worker[k].pc = "idle" /\ worker[k].seen = "none"
  BY DEF Init, WorkerInit, IdleWorker
<1>2. \A g \in Grants : grants[g].status = "none"
  BY DEF Init, StoreInit, NoGrant
<1>3. role # "maintainer"
  BY DEF Init, StoreInit, MembersOnly
<1> QED BY <1>1, <1>2, <1>3 DEF WaitInv, NoMaintainer, GrantsAwaitJobs, Awaits, HandlersLook,
                               Looking

\* No approval is forgotten: as long as a grant waits for its access, or is to
\* be handed back by the revocation under way, a job is there that gives it,
\* whatever fails, crashes or is left over.
THEOREM WaitersHaveJobs ==
    ASSUME Ordinary, MembersOnly PROVE Spec => []WaitingHasJob
<1>1. ExpiryInv /\ FenceInv /\ HandBackInv /\ WaitInv /\ [Next]_vars => WaitInv'
  BY StepWaits
<1>2. WaitInv => WaitingHasJob
  BY DEF WaitInv, GrantsAwaitJobs, Awaits, WaitingHasJob, Flagged
<1> QED BY <1>1, <1>2, InitWaits, InvariantHolds, FenceHolds, HandBackHolds, PTL DEF Spec

-----------------------------------------------------------------------------
(* An active grant has its member                                          *)
(*                                                                         *)
(* With one row, and as long as only runs remove the member: a run removes *)
(* only while the row is being revoked, and no handler is on it.           *)

MembersStay == "departure" \notin Admits

\* A handler that has seen the membership is past its start, and still right.
HandlersRight ==
    \A k \in JobWorkers :
        worker[k].seen # "none" => role # "none" /\ worker[k].pc \notin {"idle", "acquired"}

MemberInv == ActiveHasMember /\ HandlersRight

LEMMA HandlerKeepsMember ==
    ASSUME TypeInv, FenceInv, MemberInv, NEW k \in JobWorkers, WorkerNext(k)
    PROVE  MemberInv'
<1>1. /\ \A i \in JobWorkers \ {k} : worker'[i] = worker[i]
      /\ worker'[k].seen \in {"none", role, worker[k].seen}
      /\ worker'[k].pc \in {"idle", "acquired"} => worker'[k].seen = "none"
      /\ role' \in {role, "member"}
  BY SeenOrRead
<1>2. HandlersRight'
  BY <1>1 DEF MemberInv, HandlersRight
<1>3. ASSUME NEW g \in Grants, grants'[g].status = "active"
      PROVE  grants[g].status = "active" \/ worker[k].seen # "none"
  <2>1. CASE worker[k].pc = "idle"
    BY <1>3, <2>1, IdleAcquires, AcquireUndisturbed
  <2>2. CASE worker[k].pc # "idle"
    <3>1. Handled(k)
      BY <2>2, WorkHandled
    <3>2. CASE g = GrantOf(k)
      <4>1. RowHandled(k, grants[g], grants'[g])
        BY <3>1, <3>2 DEF Handled
      <4> QED BY <1>3, <4>1 DEF RowHandled, Noted, TakenOver, Decided
    <3>3. CASE g # GrantOf(k)
      BY <1>3, <3>1, <3>3 DEF Handled
    <3> QED BY <3>2, <3>3
  <2> QED BY <2>1, <2>2
<1>4. ActiveHasMember'
  BY <1>1, <1>3 DEF MemberInv, HandlersRight, ActiveHasMember
<1> QED BY <1>2, <1>4 DEF MemberInv

\* Only a DELETE takes the role away.
LEMMA RunsRemove ==
    ASSUME NEW w \in Sweepers, SweeperNext(w)
    PROVE  \/ UNCHANGED role
           \/ sweeper[w].pc = "deleting" /\ UNCHANGED grants
BY DEF SweeperNext, RevokeStep, SweepStart, SkipGrant, AcquireLease, FinishPreexisting,
       ReadRole, CompleteSuccessfulRevoke, ProtectMaintainer, AbandonRemoval, BeginCancel,
       CancelRevocation, BeginRemoval, GitHubRemoves, VerifyRemoval, RemovalNotVerified,
       CallFails, CrashSweeper, storeVars

LEMMA RunKeepsMember ==
    ASSUME OneRow, TypeInv, FenceInv, MemberInv, NEW w \in Sweepers, SweeperNext(w), Runs(w),
           UNCHANGED worker
    PROVE  MemberInv'
<1>1. ASSUME NEW g \in Grants, grants'[g].status = "active"
      PROVE  grants[g].status = "active"
  BY <1>1 DEF Runs, RunsOn, TakesLease, Settles, Outcome
<1>2. CASE UNCHANGED role
  BY <1>1, <1>2 DEF MemberInv, ActiveHasMember, HandlersRight
<1>3. CASE sweeper[w].pc = "deleting" /\ UNCHANGED grants
  <2>1. sweeper[w].grant \in Grants /\ grants[sweeper[w].grant].status = "revoking"
    BY <1>3, BusySweeper DEF FenceInv, SweeperFenced, OwnsLease, OwnsRevokeLease, Busy
  <2>2. \A g \in Grants : grants[g].status = "revoking"
    BY <2>1 DEF OneRow
  <2>3. ActiveHasMember'
    BY <1>3, <2>2 DEF ActiveHasMember
  <2>4. ASSUME NEW k \in JobWorkers
        PROVE  worker[k].seen = "none"
    <3>1. worker[k].pc # "idle" => GrantOf(k) \in Grants /\ Row(k) = grants[GrantOf(k)]
      BY BusyWorker
    <3> QED BY <2>2, <3>1 DEF MemberInv, HandlersRight, FenceInv, WorkerFenced
  <2> QED BY <2>3, <2>4 DEF MemberInv, HandlersRight
<1> QED BY <1>2, <1>3, RunsRemove

LEMMA StepKeepsMember ==
    ASSUME Ordinary, MembersStay, OneRow, ExpiryInv, FenceInv, MemberInv, [Next]_vars
    PROVE  MemberInv'
<1>a. TypeInv
  BY DEF ExpiryInv
<1>b. ASSUME UNCHANGED <<grants, worker>>, role' = role \/ role' # "none"
      PROVE  MemberInv'
  BY <1>b DEF MemberInv, ActiveHasMember, HandlersRight
<1>1. ASSUME NEW w \in Sweepers, Sweep(w)
      PROVE  MemberInv'
  BY <1>1, <1>a, SweepRuns, RunKeepsMember DEF Sweep
<1>2. ASSUME NEW k \in JobWorkers, Work(k)
      PROVE  MemberInv'
  BY <1>2, <1>a, HandlerKeepsMember DEF Work
<1>3. CASE Approve
  <2>1. UNCHANGED <<worker, role>>
    BY <1>3 DEF Approve, CreateGrantIntent
  <2>2. PICK g \in Grants : Approves(g)
    BY <1>3, <1>a, ApproveApproves DEF Approve
  <2>3. \A h \in Grants : grants'[h].status = "active" => grants[h].status = "active"
    BY <2>2 DEF Approves, Approved
  <2> QED BY <2>1, <2>3 DEF MemberInv, ActiveHasMember, HandlersRight
<1>4. CASE Webhook
  BY <1>4 DEF Webhook, FenceInv, NoEvents, HandleMembershipEvent
<1>5. CASE Promote \/ Demote \/ Arrive
  BY <1>5, <1>b DEF Promote, Demote, Arrive, OwnerActs
<1>6. CASE Depart
  BY <1>6 DEF Depart, OwnerActs, Admitted, MembersStay
<1>7. CASE Tick
  BY <1>7, <1>b DEF Tick
<1>8. CASE UNCHANGED vars
  BY <1>8, <1>b DEF vars, storeVars
<1> QED BY <1>1, <1>2, <1>3, <1>4, <1>5, <1>6, <1>7, <1>8 DEF Next

LEMMA InitMember == Init => MemberInv
<1> SUFFICES ASSUME Init PROVE MemberInv
  OBVIOUS
<1>1. \A k \in JobWorkers : worker[k].seen = "none"
  BY DEF Init, WorkerInit, IdleWorker
<1>2. \A g \in Grants : grants[g].status = "none"
  BY DEF Init, StoreInit, NoGrant
<1> QED BY <1>1, <1>2 DEF MemberInv, ActiveHasMember, HandlersRight

\* A grant that says active has its member: no run removes the member of a
\* grant that a handler is about to call active, or has.  For one row, and
\* without departures: the job of a failed grant can outlive it, and call it
\* active over the removal that ends the next grant of the pair.
THEOREM ActiveGrantsHaveMembers ==
    ASSUME Ordinary, MembersStay, OneRow PROVE Spec => []ActiveHasMember
<1>1. ExpiryInv /\ FenceInv /\ MemberInv /\ [Next]_vars => MemberInv'
  BY StepKeepsMember
<1>2. MemberInv => ActiveHasMember
  BY DEF MemberInv
<1> QED BY <1>1, <1>2, InitMember, InvariantHolds, FenceHolds, PTL DEF Spec

-----------------------------------------------------------------------------
(* The app's membership is on the books                                     *)
(*                                                                          *)
(* A job that gives up leaves its grant as grant_failed, which no sweep     *)
(* looks at, and what it added is lost from sight.  So the argument goes on *)
(* until a job gives up, and a job that gave up stays so.                   *)

\* What holds of a row, by whether it has a job and by the role at GitHub.
Booked(row, hasJob, seat) ==
    /\ row.status # "already_present"
    /\ row.revoked_at => row.status = "revoked"
    /\ row.status = "revoked" => seat = "none"
    /\ row.status = "grant_failed" => seat = "none" \/ hasJob
    /\ row.status \in {"pending", "grant_failed"}
         => row.membership_mutation_state # "membership_confirmed"

GrantsBooked == \A g \in Grants : Booked(grants[g], HasUnfinishedJob(g), role)

\* A run that found nobody is right as long as it holds the lease.
RunsSawNobody ==
    \A w \in Sweepers :
        Leases(w) /\ sweeper[w].pc \in {"read", "verified"} /\ sweeper[w].seen = "none"
        => role = "none"

\* What a handler with locals s works on: a row it may not take for confirmed,
\* and a job whose attempts are used up if it is to give up.
Books(s, row, attempts, seat) ==
    /\ s.pc = "adding" => seat = "none"
    /\ s.last => attempts >= MaxAttempts
    /\ s.pc # "acquired" =>
         /\ s.snap.membership_mutation_state # "membership_confirmed"
         /\ row.membership_mutation_state # "membership_confirmed"

HandlerBooks(k) ==
    worker[k].pc # "idle" =>
        Books(worker[k], Row(k), jobs[JobOf(k)].attempt_count, role)

BooksInv ==
    /\ role # "none" => Grants # {}
    /\ GrantsBooked
    /\ RunsSawNobody
    /\ \A k \in JobWorkers : HandlerBooks(k)

\* All that is known of a state.
LifeInv == ExpiryInv /\ FenceInv /\ HandBackInv /\ WaitInv /\ OriginInv /\ BooksInv

-----------------------------------------------------------------------------
(* The steps of a handler *)

LEMMA BusyRow ==
    ASSUME LifeInv, NEW k \in JobWorkers, worker[k].pc # "idle"
    PROVE  /\ worker[k] \in WorkerState /\ JobOf(k) \in JobIds /\ GrantOf(k) \in Grants
           /\ Row(k) = grants[GrantOf(k)] /\ Row(k) \in DbGrant
           /\ jobs[JobOf(k)] \in Job /\ jobs[JobOf(k)].grant = GrantOf(k)
           /\ Unfinished(JobOf(k)) /\ HasUnfinishedJob(GrantOf(k))
           /\ jobs[JobOf(k)].attempt_count \in Nat
           /\ Row(k).status \notin {"none", "revoked", "already_present"}
           /\ ~Row(k).revoked_at
           /\ Row(k).membership_created_by_app = 1
           /\ worker[k].pc # "acquired" => Row(k).status # "revoking"
<1>1. /\ worker[k] \in WorkerState /\ JobOf(k) \in JobIds /\ GrantOf(k) \in Grants
      /\ Row(k) = grants[GrantOf(k)] /\ Row(k) \in DbGrant
  BY BusyWorker DEF LifeInv, ExpiryInv
<1>2. jobs[JobOf(k)] \in Job /\ jobs[JobOf(k)].grant = GrantOf(k)
  BY <1>1 DEF LifeInv, ExpiryInv, TypeInv, TypeOK, StoreTypeOK, GrantOf
<1>3. /\ jobs[JobOf(k)].status = "running"
      /\ worker[k].pc # "acquired" => Row(k).status # "revoking"
  BY DEF LifeInv, FenceInv, WorkerFenced
<1>4. Unfinished(JobOf(k)) /\ HasUnfinishedJob(GrantOf(k))
  BY <1>1, <1>2, <1>3 DEF Unfinished, HasUnfinishedJob
<1>5. Row(k).membership_created_by_app = 1
  BY <1>1, RowFields DEF LifeInv, OriginInv, GrantsOurs, Foreign
<1>6. Row(k).status # "revoked"
  BY <1>1, <1>4, <1>5 DEF LifeInv, HandBackInv, RevokedHasNoJob
<1>7. Row(k).status # "none"
  <2>1. HasActiveRequests(GrantOf(k), clock)
    BY <1>1, <1>4, <1>2 DEF LifeInv, FenceInv, JobsInTime
  <2> QED BY <1>1, <2>1 DEF HasActiveRequests, LifeInv, ExpiryInv, NoRowNoRequest
<1>8. Row(k).status # "already_present" /\ ~Row(k).revoked_at
  BY <1>1, <1>6 DEF LifeInv, BooksInv, GrantsBooked, Booked
<1>9. jobs[JobOf(k)].attempt_count \in Nat
  BY <1>2 DEF Job
<1> QED BY <1>1, <1>2, <1>3, <1>4, <1>5, <1>6, <1>7, <1>8, <1>9

\* With one row, the runs lose their lease with the row's status.
LEMMA HandledRuns ==
    ASSUME OneRow, LifeInv, NEW k \in JobWorkers, worker[k].pc # "idle",
           NEW g \in Grants, NEW new, SetGrant(g, new), UNCHANGED sweeper,
           \/ new.status # "revoking"
           \/ new = grants[g] /\ UNCHANGED role
    PROVE  RunsSawNobody' /\ \A h \in Grants : grants'[h] = new
<1>1. grants \in [Grants -> DbGrant] /\ TypeInv
  BY DEF LifeInv, ExpiryInv, TypeInv, TypeOK, StoreTypeOK
<1>2. \A h \in Grants : grants'[h] = new
  BY <1>1 DEF SetGrant, OneRow
<1>3. ASSUME NEW w \in Sweepers, Leases(w)'
      PROVE  Leases(w) /\ UNCHANGED role
  <2>1. Busy(w) /\ sweeper[w].grant \in Grants
    BY <1>1, <1>3, BusySweeper DEF Leases, Busy
  <2>2. sweeper[w].grant = g /\ grants'[g] = new
    BY <1>2, <2>1 DEF OneRow
  <2>3. new.status = "revoking"
    BY <1>3, <2>2 DEF Leases, Held
  <2> QED BY <1>3, <2>1, <2>2, <2>3 DEF Leases, Held, Busy
<1>4. RunsSawNobody'
  BY <1>3 DEF LifeInv, BooksInv, RunsSawNobody
<1> QED BY <1>2, <1>4

LEMMA ReturnBooked ==
    ASSUME OneRow, OneWorker, LifeInv, NEW k \in JobWorkers, worker[k].pc # "idle",
           NEW g \in Grants, g = GrantOf(k), NEW j \in JobIds, j = JobOf(k),
           NEW new, SetGrant(g, new), HandlerReturns(k), UNCHANGED sweeper,
           jobs'[j].grant = g,
           Booked(new, Unfinished(j)', role'),
           \/ new.status # "revoking"
           \/ new = grants[g] /\ UNCHANGED role
    PROVE  BooksInv'
<1>1. RunsSawNobody' /\ \A h \in Grants : grants'[h] = new
  BY HandledRuns
<1>2. GrantsBooked'
  <2>1. Unfinished(j)' => HasUnfinishedJob(g)'
    BY DEF HasUnfinishedJob
  <2>2. Booked(new, HasUnfinishedJob(g)', role')
    BY <2>1 DEF Booked
  <2> QED BY <1>1, <2>2 DEF OneRow, GrantsBooked
<1>3. \A i \in JobWorkers : worker'[i].pc = "idle"
  <2>1. worker'[k] = IdleWorker
    BY HandlerProceeds DEF HandlerReturns, LifeInv, ExpiryInv
  <2> QED BY <2>1 DEF OneWorker, IdleWorker
<1> QED BY <1>1, <1>2, <1>3 DEF BooksInv, HandlerBooks

LEMMA GoOnBooked ==
    ASSUME OneRow, OneWorker, LifeInv, NEW k \in JobWorkers, worker[k].pc # "idle",
           NEW g \in Grants, g = GrantOf(k), NEW j \in JobIds, j = JobOf(k),
           NEW new, SetGrant(g, new), NEW s, Proceed(k, s), s.job = j,
           UNCHANGED <<sweeper, jobs>>, s.pc # "idle",
           Books(s, new, jobs[j].attempt_count, role'),
           Booked(new, TRUE, role'),
           \/ new.status # "revoking"
           \/ new = grants[g] /\ UNCHANGED role
    PROVE  BooksInv'
<1>1. RunsSawNobody' /\ \A h \in Grants : grants'[h] = new
  BY HandledRuns
<1>a. Unfinished(j) /\ jobs[j].grant = g
  BY BusyRow
<1>2. GrantsBooked'
  <2>1. HasUnfinishedJob(g)'
    BY <1>a DEF HasUnfinishedJob, Unfinished
  <2>2. Booked(new, HasUnfinishedJob(g)', role')
    BY <2>1 DEF Booked
  <2> QED BY <1>1, <2>2 DEF OneRow, GrantsBooked
<1>3. worker'[k] = s /\ \A i \in JobWorkers : i = k
  BY HandlerProceeds DEF OneWorker, LifeInv, ExpiryInv
<1>4. \A i \in JobWorkers : HandlerBooks(i)'
  <2>1. JobOf(k)' = j /\ Row(k)' = new
    BY <1>1, <1>3, <1>a DEF JobOf, GrantOf, Row
  <2>2. HandlerBooks(k)'
    BY <1>3, <2>1 DEF HandlerBooks
  <2> QED BY <1>3, <2>2
<1> QED BY <1>1, <1>2, <1>4 DEF BooksInv

\* A decision made on a member's role calls the grant active, and no more.
LEMMA ActiveRows ==
    ASSUME NEW row \in DbGrant
    PROVE  /\ Activated(row).status = "active"
           /\ Activated(row).revoked_at = row.revoked_at
           /\ Activated(Confirmed(row)).status = "active"
           /\ Activated(Confirmed(row)).revoked_at = row.revoked_at
           /\ Claimed(row).status = "active"
           /\ Claimed(row).revoked_at = row.revoked_at
<1>1. ASSUME NEW r \in DbGrant
      PROVE  Activated(r).status = "active" /\ Activated(r).revoked_at = r.revoked_at
  BY UpdateGrantStatusAndMembershipType DEF Activated, GrantStatus
<1>2. Confirmed(row) \in DbGrant /\ Confirmed(row).revoked_at = row.revoked_at
  BY UpdateMutationStateType DEF Confirmed, MutationState
<1>3. LET new == ConfirmMembershipCreatedByAppAfterVerifiedAdd(row)
      IN  new.status = "active" /\ new.revoked_at = row.revoked_at
  BY ConfirmMembershipType
<1>4. /\ Activated(Confirmed(row)).status = "active"
      /\ Activated(Confirmed(row)).revoked_at = row.revoked_at
  BY <1>1, <1>2
<1>5. /\ Claimed(row).status = "active"
      /\ Claimed(row).revoked_at = row.revoked_at
  <2> HIDE DEF Confirmed, Activated
  <2> QED BY <1>3, <1>4 DEF Claimed
<1> QED BY <1>1, <1>4, <1>5

\* The end of a job that is done, and of one that will be tried again.
LEMMA JobsAfter ==
    ASSUME TypeInv, NEW j \in JobIds
    PROVE  /\ jobs' = CompleteJob(j) \/ jobs' = FailJob(j) =>
                jobs'[j].grant = jobs[j].grant /\ ~Unfinished(j)'
           /\ jobs' = ReleaseJobForRetry(j) \/ jobs' = DeferJob(j) =>
                jobs'[j].grant = jobs[j].grant /\ Unfinished(j)'
<1>1. jobs \in [JobIds -> Job]
  BY DEF TypeInv, TypeOK, StoreTypeOK
<1>2. jobs' = CompleteJob(j) \/ jobs' = FailJob(j) =>
         jobs'[j].grant = jobs[j].grant /\ ~Unfinished(j)'
  BY <1>1 DEF CompleteJob, FailJob, Unfinished, Job
<1>3. jobs' = ReleaseJobForRetry(j) \/ jobs' = DeferJob(j) =>
         jobs'[j].grant = jobs[j].grant /\ Unfinished(j)'
  BY <1>1 DEF ReleaseJobForRetry, DeferJob, Unfinished, Job
<1> QED BY <1>2, <1>3

\* An attempt that fails is tried again, or the job gives up.
LEMMA FailureBooked ==
    ASSUME OneRow, OneWorker, LifeInv, NEW k \in JobWorkers, worker[k].pc # "idle",
           JobFails(k), UNCHANGED <<sweeper, role>>
    PROVE  BooksInv' \/ GaveUp'
<1>j. PICK j \in JobIds, g \in Grants : j = JobOf(k) /\ g = GrantOf(k)
  BY BusyRow
<1>a. /\ TypeInv /\ Row(k) = grants[g] /\ jobs[j].grant = g /\ HasUnfinishedJob(g)
      /\ grants \in [Grants -> DbGrant] /\ jobs \in [JobIds -> Job]
  BY <1>j, BusyRow DEF LifeInv, ExpiryInv, TypeInv, TypeOK, StoreTypeOK
<1>1. CASE worker[k].last
  <2>1. jobs[j].attempt_count >= MaxAttempts
    BY <1>1, <1>j DEF LifeInv, BooksInv, HandlerBooks, Books
  <2>2. jobs' = FailJob(j)
    BY <1>1, <1>j DEF JobFails
  <2>3. jobs'[j].status = "failed" /\ jobs'[j].attempt_count = jobs[j].attempt_count
    BY <1>a, <2>2 DEF FailJob, Job
  <2> QED BY <2>1, <2>3 DEF GaveUp
<1>2. CASE ~worker[k].last
  <2>1. jobs' = ReleaseJobForRetry(j) /\ SetGrant(g, grants[g]) /\ HandlerReturns(k)
    BY <1>2, <1>j, <1>a DEF JobFails, SetGrant
  <2>2. Booked(grants[g], TRUE, role)
    BY <1>a DEF LifeInv, BooksInv, GrantsBooked, Booked
  <2>3. jobs'[j].grant = g /\ Unfinished(j)'
    BY <1>a, <2>1, JobsAfter
  <2>4. Booked(grants[g], Unfinished(j)', role')
    BY <2>2, <2>3 DEF Booked
  <2>5. BooksInv'
    BY <1>j, <2>1, <2>3, <2>4, ReturnBooked
  <2> QED BY <2>5
<1> QED BY <1>1, <1>2

\* A handler that calls its grant active is done.
LEMMA CommitBooked ==
    ASSUME OneRow, OneWorker, LifeInv, NEW k \in JobWorkers, worker[k].pc # "idle",
           NEW row, CommitAndComplete(k, row), UNCHANGED <<sweeper, role>>,
           row.status = "active", row.revoked_at = Row(k).revoked_at
    PROVE  BooksInv'
<1>j. PICK j \in JobIds, g \in Grants : j = JobOf(k) /\ g = GrantOf(k)
  BY BusyRow
<1>a. TypeInv /\ jobs[j].grant = g /\ ~row.revoked_at
  BY <1>j, BusyRow DEF LifeInv, ExpiryInv
<1>1. IndexAccepts(g, row)
  BY DEF IndexAccepts, ActiveGrants, OneRow
<1>2. SetGrant(g, row) /\ jobs' = CompleteJob(j) /\ HandlerReturns(k)
  BY <1>1, <1>j DEF CommitAndComplete
<1>3. jobs'[j].grant = g /\ ~Unfinished(j)'
  BY <1>a, <1>2, JobsAfter
<1>4. Booked(row, Unfinished(j)', role')
  BY <1>a DEF Booked
<1> QED BY <1>j, <1>2, <1>3, <1>4, ReturnBooked

\* A handler that gives up before the add leaves nobody in the team.
LEMMA FailGrantBooked ==
    ASSUME OneRow, OneWorker, LifeInv, NEW k \in JobWorkers,
           worker[k].pc \in {"started", "adding"}, role = "none", FailGrant(k),
           UNCHANGED <<sweeper, role>>
    PROVE  BooksInv'
<1>j. PICK j \in JobIds, g \in Grants : j = JobOf(k) /\ g = GrantOf(k)
  BY BusyRow
<1>a. TypeInv /\ jobs[j].grant = g /\ Row(k) \in DbGrant
  BY <1>j, BusyRow DEF LifeInv, ExpiryInv
<1> DEFINE row == UpdateGrantStatus(Row(k), "grant_failed", "other")
<1>2. SetGrant(g, row) /\ jobs' = FailJob(j) /\ HandlerReturns(k)
  BY <1>j DEF FailGrant
<1>3. /\ row.status = "grant_failed" /\ ~row.revoked_at
      /\ row.membership_mutation_state = Row(k).membership_mutation_state
  BY <1>a, UpdateGrantStatusType DEF GrantStatus
<1>4. Row(k).membership_mutation_state # "membership_confirmed"
  BY DEF LifeInv, BooksInv, HandlerBooks, Books
<1> HIDE DEF row
<1>6. jobs'[j].grant = g /\ ~Unfinished(j)'
  BY <1>a, <1>2, JobsAfter
<1>7. Booked(row, Unfinished(j)', role')
  BY <1>3, <1>4 DEF Booked
<1> QED BY <1>j, <1>2, <1>3, <1>6, <1>7, ReturnBooked

LEMMA HandlerBooked ==
    ASSUME OneRow, OneWorker, MembersOnly, LifeInv, NEW k \in JobWorkers,
           worker[k].pc # "idle", WorkerNext(k), UNCHANGED sweeper
    PROVE  BooksInv' \/ GaveUp'
<1>j. PICK j \in JobIds, g \in Grants : j = JobOf(k) /\ g = GrantOf(k)
  BY BusyRow
<1> DEFINE row == Row(k)
           n == jobs[j].attempt_count
<1>a. /\ TypeInv /\ grants \in [Grants -> DbGrant] /\ worker[k] \in WorkerState
      /\ role \in Roles /\ role # "maintainer" /\ worker[k].seen # "maintainer"
  BY BusyRow
     DEF LifeInv, ExpiryInv, TypeInv, TypeOK, StoreTypeOK, BooksInv, WaitInv, NoMaintainer
<1>b. /\ row = grants[g] /\ row \in DbGrant /\ jobs[j].grant = g
      /\ Unfinished(j) /\ HasUnfinishedJob(g) /\ n \in Nat
      /\ row.status \notin {"none", "revoked", "already_present"} /\ ~row.revoked_at
      /\ row.membership_created_by_app = 1
      /\ worker[k].pc # "acquired" => row.status # "revoking"
  BY <1>j, BusyRow
<1>c. /\ Booked(row, TRUE, role) /\ Books(worker[k], row, n, role)
      /\ worker[k].job = j
  BY <1>j, <1>b DEF LifeInv, BooksInv, GrantsBooked, Booked, HandlerBooks, JobOf
<1>k. /\ worker[k].pc = "decide" /\ Mutation(k) = "not_started" => worker[k].seen = "none"
      /\ worker[k].pc = "decide" /\ worker[k].seen = "none" => role = "none"
      /\ ~Preexisting(k)
  BY DEF LifeInv, OriginInv, HandlerKnows, Preexisting
<1>e. SetGrant(g, row) <=> UNCHANGED grants
  BY <1>a, <1>b DEF SetGrant
<1>s. UNCHANGED storeVars => UNCHANGED <<grants, jobs, role>>
  BY DEF storeVars
<1> HIDE DEF row, n
\* The handler goes on over a row it leaves alone.
<1>g. ASSUME NEW s, Proceed(k, s), s.job = j, s.pc # "idle", UNCHANGED <<grants, jobs>>,
             worker[k].pc # "acquired" \/ UNCHANGED role,
             role' = role \/ role' = "member",
             Books(s, row, n, role')
      PROVE  BooksInv'
  <2>1. Booked(row, TRUE, role')
    BY <1>b, <1>c DEF Booked
  <2>2. SetGrant(g, row)
    BY <1>e, <1>g
  <2> QED BY <1>j, <1>b, <1>g, <2>1, <2>2, GoOnBooked DEF n
<1>1. CASE DeferWhileRevoking(k)
  <2>1. /\ jobs' = DeferJob(j) /\ HandlerReturns(k) /\ UNCHANGED <<grants, role>>
    BY <1>1, <1>j DEF DeferWhileRevoking
  <2>2. jobs'[j].grant = g /\ Unfinished(j)'
    BY <1>a, <1>b, <2>1, JobsAfter
  <2>3. Booked(row, Unfinished(j)', role')
    BY <1>c, <2>1, <2>2 DEF Booked
  <2>4. UNCHANGED role
    BY <2>1
  <2>5. SetGrant(g, row)
    BY <1>e, <2>1
  <2> QED BY <1>j, <1>b, <2>1, <2>2, <2>3, <2>4, <2>5, ReturnBooked
<1>2. CASE AlreadySatisfied(k)
  <2>1. /\ jobs' = CompleteJob(j) /\ HandlerReturns(k) /\ UNCHANGED <<grants, role>>
        /\ row.status \in {"active", "already_present"}
    BY <1>2, <1>j DEF AlreadySatisfied, row
  <2>3. jobs'[j].grant = g /\ ~Unfinished(j)'
    BY <1>a, <1>b, <2>1, JobsAfter
  <2>4. Booked(row, Unfinished(j)', role')
    BY <1>b, <2>1 DEF Booked
  <2> QED BY <1>j, <1>a, <1>b, <1>e, <2>1, <2>3, <2>4, ReturnBooked
<1>3. CASE StartGrantAccess(k)
  <2> DEFINE new == IF row.status = "revoking" THEN ReclaimStrandedReactivation(row) ELSE row
             snap == [status |-> new.status,
                      membership_created_by_app |-> new.membership_created_by_app,
                      membership_mutation_state |-> new.membership_mutation_state]
             next == [worker[k] EXCEPT !.pc = "started", !.snap = snap]
  <2>1. /\ row.status \notin {"active", "already_present"}
        /\ row.status = "revoking" => ReactivationStranded(row, clock)
        /\ SetGrant(g, new) /\ Proceed(k, next) /\ UNCHANGED <<jobs, role>>
    BY <1>3, <1>j DEF StartGrantAccess, row
  <2>2. /\ next.pc = "started" /\ next.job = j /\ next.last = worker[k].last
        /\ next.snap.membership_mutation_state = new.membership_mutation_state
    BY <1>a, <1>c DEF WorkerState
  <2>3. /\ new.status \in {"pending", "revoke_failed", "grant_failed"} /\ ~new.revoked_at
        /\ new.membership_mutation_state # "membership_confirmed"
    <3>1. CASE row.status = "revoking"
      BY <1>b, <2>1, <3>1, ReturnToPendingType
         DEF ReclaimStrandedReactivation, ReactivationStranded
    <3>2. CASE row.status # "revoking"
      <4>1. row.status \in {"pending", "revoke_failed", "grant_failed"}
        BY <1>b, <2>1, <3>2, RowFields DEF GrantStatus
      <4>2. row.status = "revoke_failed"
              => row.membership_mutation_state # "membership_confirmed"
        BY <1>b DEF LifeInv, WaitInv, GrantsAwaitJobs, Awaits
      <4>3. row.membership_mutation_state # "membership_confirmed"
        BY <1>c, <4>1, <4>2 DEF Booked
      <4> QED BY <1>b, <3>2, <4>1, <4>3
    <3> QED BY <3>1, <3>2
  <2> HIDE DEF new, next
  <2>4. Books(next, new, jobs[j].attempt_count, role')
    BY <1>c, <2>2, <2>3 DEF Books, n
  <2>5. Booked(new, TRUE, role')
    BY <2>3 DEF Booked
  <2> QED BY <1>j, <2>1, <2>2, <2>3, <2>4, <2>5, GoOnBooked
<1>4. CASE ReadMembership(k)
  <2> DEFINE next == [worker[k] EXCEPT !.pc = "decide", !.seen = role]
  <2>1. worker[k].pc = "started" /\ Proceed(k, next) /\ UNCHANGED <<grants, jobs, role>>
    BY <1>4, <1>s DEF ReadMembership
  <2>2. next.pc = "decide" /\ next.job = j /\ next.snap = worker[k].snap /\ next.last = worker[k].last
    BY <1>a, <1>c DEF WorkerState
  <2> HIDE DEF next
  <2>3. Books(next, row, n, role')
    BY <1>c, <2>1, <2>2 DEF Books
  <2> QED BY <1>g, <2>1, <2>2, <2>3
<1>5. CASE MembershipFound(k)
  <2>1. /\ worker[k].pc = "decide" /\ worker[k].seen = "member"
        /\ Mutation(k) \in {"reactivation_required", "add_intent_recorded", "add_request_sent"}
    <3>1. worker[k].pc = "decide" /\ worker[k].seen # "none"
      BY <1>5 DEF MembershipFound
    <3>2. worker[k].seen \in Roles /\ Mutation(k) \in MutationState
      BY <1>a DEF WorkerState, Snapshot, Mutation
    <3>3. Mutation(k) # "membership_confirmed"
      BY <1>c, <3>1 DEF Books, Mutation
    <3> QED BY <1>a, <1>k, <3>1, <3>2, <3>3 DEF Roles, MutationState
  <2>2. CommitAndComplete(k, Activated(Confirmed(Row(k)))) /\ UNCHANGED <<role>>
    <3>1. Reactivated(k) = Activated(Confirmed(Row(k))) /\ Recovered(k) = Activated(Confirmed(Row(k)))
      BY <1>k, <2>1 DEF Reactivated, Recovered
    <3> HIDE DEF Activated, Confirmed, CommitAndComplete
    <3> QED BY <1>5, <2>1, <3>1 DEF MembershipFound, Uncertain
  <2>3. LET new == Activated(Confirmed(Row(k)))
        IN  new.status = "active" /\ new.revoked_at = Row(k).revoked_at
    BY <1>b, ActiveRows DEF row
  <2> QED BY <2>2, <2>3, CommitBooked
<1>6. CASE ConfirmedMembershipMissing(k)
  BY <1>6, <1>c DEF ConfirmedMembershipMissing, Books, Mutation
<1>7. CASE SendAdd(k)
  <2> DEFINE new == UpdateMutationState(row, "add_request_sent")
             next == [worker[k] EXCEPT !.pc = "adding"]
  <2>1. /\ worker[k].pc = "decide" /\ role = "none" /\ SetGrant(g, new)
        /\ Proceed(k, next) /\ UNCHANGED <<jobs, role>>
    BY <1>7, <1>j, <1>k DEF SendAdd, row
  <2>2. next.pc = "adding" /\ next.job = j /\ next.snap = worker[k].snap /\ next.last = worker[k].last
    BY <1>a, <1>c DEF WorkerState
  <2>3. /\ new.status = row.status /\ new.revoked_at = row.revoked_at
        /\ new.membership_mutation_state = "add_request_sent"
    BY <1>b, UpdateMutationStateType DEF MutationState
  <2> HIDE DEF next, new
  <2>4. Books(next, new, jobs[j].attempt_count, role')
    BY <1>c, <2>1, <2>2, <2>3 DEF Books, n
  <2>5. Booked(new, TRUE, role')
    BY <1>b, <2>1, <2>3 DEF Booked
  <2> QED BY <1>j, <1>b, <2>1, <2>2, <2>3, <2>4, <2>5, GoOnBooked
<1>8. CASE GitHubAdds(k)
  <2> DEFINE next == [worker[k] EXCEPT !.pc = "added"]
  <2>1. /\ worker[k].pc = "adding" /\ Proceed(k, next) /\ role' = "member"
        /\ UNCHANGED <<grants, jobs>>
    BY <1>8 DEF GitHubAdds
  <2>2. next.pc = "added" /\ next.job = j /\ next.snap = worker[k].snap /\ next.last = worker[k].last
    BY <1>a, <1>c DEF WorkerState
  <2> HIDE DEF next
  <2>3. Books(next, row, n, role')
    BY <1>c, <2>1, <2>2 DEF Books
  <2> QED BY <1>g, <2>1, <2>2, <2>3
<1>9. CASE VerifyAdd(k)
  <2> DEFINE next == [worker[k] EXCEPT !.pc = "verify", !.seen = role]
  <2>1. worker[k].pc = "added" /\ Proceed(k, next) /\ UNCHANGED <<grants, jobs, role>>
    BY <1>9, <1>s DEF VerifyAdd
  <2>2. /\ next.pc = "verify" /\ next.job = j /\ next.snap = worker[k].snap /\ next.last = worker[k].last
        /\ next.seen = role
    BY <1>a, <1>c DEF WorkerState
  <2> HIDE DEF next
  <2>3. Books(next, row, n, role')
    BY <1>c, <2>1, <2>2 DEF Books
  <2> QED BY <1>g, <2>1, <2>2, <2>3
<1>10. CASE AddVerified(k)
  <2>1. /\ worker[k].seen \in Roles \ {"none", "maintainer"}
        /\ CommitAndComplete(k, IF worker[k].seen = "maintainer"
                                THEN UpdateGrantStatus(Claimed(Row(k)), "active", "elevated")
                                ELSE Claimed(Row(k)))
        /\ UNCHANGED role
    BY <1>10, <1>a DEF AddVerified, WorkerState
  <2>2. CommitAndComplete(k, Claimed(Row(k)))
    BY <2>1
  <2>3. Claimed(Row(k)).status = "active" /\ Claimed(Row(k)).revoked_at = Row(k).revoked_at
    BY <1>b, ActiveRows DEF row
  <2> QED BY <2>1, <2>2, <2>3, CommitBooked
<1>11. CASE AddRecovered(k)
  <2>1. /\ worker[k].seen = "member" /\ UNCHANGED role
        /\ CommitAndComplete(k, Activated(Confirmed(Row(k))))
    BY <1>11, <1>a DEF AddRecovered, WorkerState, Roles
  <2>2. LET new == Activated(Confirmed(Row(k)))
        IN  new.status = "active" /\ new.revoked_at = Row(k).revoked_at
    BY <1>b, ActiveRows DEF row
  <2> QED BY <2>1, <2>2, CommitBooked
<1>12. CASE MembershipNotFound(k)
  BY <1>12, FailureBooked DEF MembershipNotFound
<1>13. CASE OrganizationMembershipMissing(k)
  BY <1>13, FailGrantBooked DEF OrganizationMembershipMissing
<1>14. CASE AddRejected(k)
  <2>1. worker[k].pc = "adding" /\ FailGrant(k) /\ UNCHANGED role
    BY <1>14 DEF AddRejected
  <2>2. role = "none"
    BY <1>c, <2>1 DEF Books
  <2> QED BY <2>1, <2>2, FailGrantBooked
<1>15. CASE AddFails(k)
  <2> DEFINE next == [worker[k] EXCEPT !.pc = "recheck", !.seen = role]
  <2>1. /\ worker[k].pc \in {"adding", "added"} /\ Proceed(k, next)
        /\ UNCHANGED <<grants, jobs, role>>
    BY <1>15 DEF AddFails
  <2>2. /\ next.pc = "recheck" /\ next.job = j /\ next.snap = worker[k].snap /\ next.last = worker[k].last
        /\ next.seen = role
    BY <1>a, <1>c DEF WorkerState
  <2> HIDE DEF next
  <2>3. Books(next, row, n, role')
    BY <1>c, <2>1, <2>2 DEF Books
  <2> QED BY <1>g, <2>1, <2>2, <2>3
<1>16. CASE HandlerThrows(k)
  BY <1>16, FailureBooked DEF HandlerThrows
<1>17. CASE CrashWorker(k)
  <2>1. HandlerReturns(k) /\ UNCHANGED jobs
    BY <1>17 DEF CrashWorker
  <2>2. PICK new \in DbGrant :
           /\ SetGrant(g, new) /\ new.status = row.status /\ new.revoked_at = row.revoked_at
           /\ \/ new = row /\ UNCHANGED role
              \/ new = row /\ worker[k].pc = "adding" /\ role' = "member"
              \/ /\ worker[k].pc = "decide" /\ UNCHANGED role
                 /\ new.membership_mutation_state = "add_intent_recorded"
    <3>1. CASE UNCHANGED <<grants, role>>
      BY <1>b, <1>e, <3>1
    <3>2. CASE worker[k].pc = "adding" /\ role' = "member" /\ UNCHANGED grants
      BY <1>b, <1>e, <3>2
    <3>3. CASE /\ worker[k].pc = "decide" /\ UNCHANGED role
               /\ SetGrant(GrantOf(k), UpdateMutationState(Row(k), "add_intent_recorded"))
      BY <1>b, <1>j, <3>3, UpdateMutationStateType DEF MutationState, row
    <3> QED BY <1>17, <3>1, <3>2, <3>3 DEF CrashWorker
  <2>3. Unfinished(j)' /\ jobs'[j].grant = g
    BY <1>b, <2>1 DEF Unfinished
  <2>4. Booked(new, Unfinished(j)', role')
    BY <1>b, <1>c, <2>2, <2>3 DEF Booked
  <2>5. new.status # "revoking" \/ (new = grants[g] /\ UNCHANGED role)
    BY <1>b, <2>2
  <2> QED BY <1>j, <2>1, <2>2, <2>3, <2>4, <2>5, ReturnBooked
<1>18. ASSUME NEW i \in JobIds, AcquireNextJob(k, i)
       PROVE  BooksInv'
  BY <1>18 DEF AcquireNextJob
<1> QED
  BY <1>1, <1>2, <1>3, <1>4, <1>5, <1>6, <1>7, <1>8, <1>9, <1>10, <1>11, <1>12, <1>13,
     <1>14, <1>15, <1>16, <1>17, <1>18 DEF WorkerNext, HandlerStep

\* A worker takes a job that nobody holds.
LEMMA TakeBooked ==
    ASSUME Ordinary, OneWorker, LifeInv, NEW k \in JobWorkers, NEW j \in JobIds,
           AcquireNextJob(k, j), UNCHANGED sweeper
    PROVE  BooksInv'
<1>a. TypeInv /\ jobs \in [JobIds -> Job]
  BY DEF LifeInv, ExpiryInv, TypeInv, TypeOK, StoreTypeOK
<1> DEFINE last == jobs[j].attempt_count + 1 >= MaxAttempts
           next == [IdleWorker EXCEPT !.pc = "acquired", !.job = j, !.last = last]
<1>1. /\ Proceed(k, next)
      /\ jobs' = [jobs EXCEPT ![j].status = "running", ![j].attempt_count = @ + 1]
      /\ UNCHANGED <<grants, role>>
  BY DEF AcquireNextJob
<1>2. next.pc = "acquired" /\ next.job = j /\ next.last = last
  BY DEF IdleWorker
<1> HIDE DEF next
<1>3. worker'[k] = next /\ \A i \in JobWorkers : i = k
  BY <1>a, <1>1, HandlerProceeds DEF OneWorker
<1>4. jobs'[j].attempt_count = jobs[j].attempt_count + 1
  BY <1>a, <1>1 DEF Job
<1>5. \A i \in JobWorkers : HandlerBooks(i)'
  <2>1. JobOf(k)' = j
    BY <1>2, <1>3 DEF JobOf
  <2>2. next.last => jobs'[j].attempt_count >= MaxAttempts
    BY <1>2, <1>4 DEF last
  <2>3. HandlerBooks(k)'
    BY <1>2, <1>3, <2>1, <2>2 DEF HandlerBooks, Books
  <2> QED BY <1>3, <2>3
<1>6. GrantsBooked'
  <2>1. JobsUndisturbed
    BY <1>a, AcquireUndisturbed
  <2>2. \A g \in Grants : HasUnfinishedJob(g)' <=> HasUnfinishedJob(g)
    BY <2>1 DEF JobsUndisturbed, HasUnfinishedJob
  <2> SUFFICES ASSUME NEW g \in Grants
               PROVE  Booked(grants'[g], HasUnfinishedJob(g)', role')
    BY DEF GrantsBooked
  <2>3. Booked(grants[g], HasUnfinishedJob(g), role)
    BY DEF LifeInv, BooksInv, GrantsBooked
  <2> QED BY <1>1, <2>2, <2>3 DEF Booked
<1>7. RunsSawNobody'
  BY <1>1 DEF LifeInv, BooksInv, RunsSawNobody, Leases, Busy, Held
<1> QED BY <1>1, <1>5, <1>6, <1>7 DEF LifeInv, BooksInv

-----------------------------------------------------------------------------
(* The other steps *)

\* The handlers look at what only they write, but for the role.
LEMMA OthersBooked ==
    ASSUME LifeInv, UNCHANGED worker, UNCHANGED jobs \/ \E g \in Grants : FreeJobs # {} /\ jobs' = CreateJob(g),
           \A g \in Grants : \/ grants'[g].membership_mutation_state = grants[g].membership_mutation_state
                             \/ grants'[g].membership_mutation_state # "membership_confirmed",
           UNCHANGED role \/ role' = "none"
    PROVE  \A k \in JobWorkers : HandlerBooks(k)'
<1>a. TypeInv
  BY DEF LifeInv, ExpiryInv
<1>1. \A j \in JobIds : jobs'[j] = jobs[j] \/ ~Unfinished(j)
  <2>1. ASSUME NEW g \in Grants, FreeJobs # {}, jobs' = CreateJob(g)
        PROVE  \A j \in JobIds : jobs'[j] = jobs[j] \/ ~Unfinished(j)
    BY <1>a, <2>1, CreatedJob
  <2> QED BY <2>1
<1>3. ASSUME NEW k \in JobWorkers, worker[k].pc # "idle"
      PROVE  HandlerBooks(k)'
  <2> DEFINE n == jobs[JobOf(k)].attempt_count
  <2>1. /\ JobOf(k) \in JobIds /\ GrantOf(k) \in Grants /\ Unfinished(JobOf(k))
        /\ Row(k) = grants[GrantOf(k)] /\ jobs[JobOf(k)].grant = GrantOf(k)
    BY <1>3, BusyRow
  <2>2. jobs'[JobOf(k)] = jobs[JobOf(k)]
    BY <1>1, <2>1
  <2>3. JobOf(k)' = JobOf(k) /\ Row(k)' = grants'[GrantOf(k)]
    BY <2>1, <2>2 DEF JobOf, GrantOf, Row
  <2>4. \/ Row(k)'.membership_mutation_state = Row(k).membership_mutation_state
        \/ Row(k)'.membership_mutation_state # "membership_confirmed"
    BY <2>1, <2>3
  <2>5. Books(worker[k], Row(k), n, role)
    BY <1>3 DEF LifeInv, BooksInv, HandlerBooks
  <2>6. Books(worker[k], Row(k)', n, role')
    BY <2>4, <2>5 DEF Books
  <2> QED BY <2>2, <2>3, <2>6 DEF HandlerBooks
<1> QED BY <1>3 DEF HandlerBooks

\* What a run saw when it last looked, and who removes.
LEMMA RunsLook ==
    ASSUME NEW w \in Sweepers, SweeperNext(w), sweeper \in [Sweepers -> SweeperState]
    PROVE  /\ sweeper'[w].pc \in {"read", "verified"} =>
                  sweeper'[w].seen = role /\ UNCHANGED role
           /\ \/ UNCHANGED role
              \/ sweeper[w].pc = "deleting" /\ role' = "none" /\ UNCHANGED <<grants, jobs>>
<1>1. ASSUME NEW s, Become(w, s)
      PROVE  sweeper'[w] = s
  BY <1>1 DEF Become
<1>2. IdleSweeper.pc = "idle"
  BY DEF IdleSweeper
<1>3. ASSUME RevokeReturns(w)
      PROVE  sweeper'[w].pc \in {"idle", "sweep"}
  <2> DEFINE next == IF sweeper[w].todo = {} THEN IdleSweeper
                     ELSE [IdleSweeper EXCEPT !.pc = "sweep", !.now = sweeper[w].now,
                                              !.todo = sweeper[w].todo]
  <2>1. Become(w, next)
    BY <1>3 DEF RevokeReturns
  <2>2. next.pc \in {"idle", "sweep"}
    BY DEF IdleSweeper
  <2> HIDE DEF next
  <2> QED BY <1>1, <2>1, <2>2
<1>4. ASSUME NEW p, NEW x,
             \/ Become(w, [sweeper[w] EXCEPT !.pc = p, !.sentAt = x])
             \/ Become(w, [sweeper[w] EXCEPT !.pc = p])
      PROVE  sweeper'[w].pc = p
  BY <1>1, <1>4 DEF SweeperState
<1>5. ASSUME NEW p, Become(w, [sweeper[w] EXCEPT !.pc = p, !.seen = role])
      PROVE  sweeper'[w].seen = role
  BY <1>1, <1>5 DEF SweeperState
<1>6. CASE ReadRole(w) \/ VerifyRemoval(w)
  BY <1>5, <1>6 DEF ReadRole, VerifyRemoval, storeVars
<1>7. CASE BeginCancel(w) \/ BeginRemoval(w)
  BY <1>4, <1>7 DEF BeginCancel, BeginRemoval, storeVars
<1>8. CASE GitHubRemoves(w)
  BY <1>4, <1>8 DEF GitHubRemoves
<1>9. CASE \/ FinishPreexisting(w) \/ CompleteSuccessfulRevoke(w) \/ ProtectMaintainer(w)
           \/ AbandonRemoval(w) \/ CancelRevocation(w) \/ RemovalNotVerified(w) \/ CallFails(w)
  <2>1. RevokeReturns(w)
    BY <1>9 DEF FinishPreexisting, CompleteSuccessfulRevoke, ProtectMaintainer, AbandonRemoval,
       CancelRevocation, RemovalNotVerified, CallFails, RecordFailure, Settle
  <2>2. UNCHANGED role
    BY <1>9 DEF FinishPreexisting, CompleteSuccessfulRevoke, ProtectMaintainer, AbandonRemoval,
       CancelRevocation, RemovalNotVerified, CallFails, storeVars
  <2> QED BY <1>3, <2>1, <2>2
<1>10. CASE CrashSweeper(w)
  BY <1>1, <1>2, <1>10 DEF CrashSweeper
<1>11. CASE SweepStart(w)
  <2> DEFINE next == [IdleSweeper EXCEPT !.pc = "sweep", !.now = clock,
                        !.todo = {g \in Grants : GetExpired(grants[g], clock)}]
  <2>1. Become(w, next) /\ UNCHANGED role /\ next.pc = "sweep"
    BY <1>11 DEF SweepStart, storeVars, IdleSweeper
  <2> HIDE DEF next
  <2> QED BY <1>1, <2>1
<1>12. ASSUME NEW g \in Grants, SkipGrant(w, g)
       PROVE  sweeper'[w].pc \in {"idle", "sweep"} /\ UNCHANGED role
  <2> DEFINE rest == sweeper[w].todo \ {g}
             next == IF rest = {} THEN IdleSweeper ELSE [sweeper[w] EXCEPT !.todo = rest]
  <2>1. next.pc \in {"idle", "sweep"}
    BY <1>12 DEF SkipGrant, SweeperState, IdleSweeper
  <2>2. Become(w, next) /\ UNCHANGED role
    BY <1>12 DEF SkipGrant, storeVars
  <2> HIDE DEF next
  <2> QED BY <1>1, <2>1, <2>2
<1>13. ASSUME NEW g \in Grants, NEW l \in LeaseIds, AcquireLease(w, g, l)
       PROVE  sweeper'[w].pc = "leased" /\ UNCHANGED role
  <2> DEFINE next == [sweeper[w] EXCEPT
                      !.pc = "leased", !.todo = @ \ {g}, !.grant = g, !.lease = l,
                      !.byApp = grants[g].membership_created_by_app,
                      !.attempts = grants[g].revoke_attempt_count]
  <2>1. Become(w, next) /\ UNCHANGED role
    BY <1>13 DEF AcquireLease
  <2>2. next.pc = "leased"
    BY DEF SweeperState
  <2> HIDE DEF next
  <2> QED BY <1>1, <2>1, <2>2
<1> QED BY <1>6, <1>7, <1>8, <1>9, <1>10, <1>11, <1>12, <1>13 DEF SweeperNext, RevokeStep

LEMMA RunBooked ==
    ASSUME OneRow, LifeInv, NEW w \in Sweepers, SweeperNext(w), Runs(w), UNCHANGED worker
    PROVE  BooksInv'
<1>a. TypeInv /\ sweeper \in [Sweepers -> SweeperState]
  BY DEF LifeInv, ExpiryInv, TypeInv, TypeOK, SweeperTypeOK
<1>1. /\ sweeper'[w].pc \in {"read", "verified"} => sweeper'[w].seen = role /\ UNCHANGED role
      /\ \/ UNCHANGED role
         \/ sweeper[w].pc = "deleting" /\ role' = "none" /\ UNCHANGED <<grants, jobs>>
  BY <1>a, RunsLook
<1>r. role' = role \/ role' = "none"
  BY <1>1
<1>2. CASE RunsOn(w)
  <2>1. UNCHANGED <<grants, jobs>>
    BY <1>2 DEF RunsOn
  <2>2. \A k \in JobWorkers : HandlerBooks(k)'
    BY <1>r, <2>1, OthersBooked
  <2>3. GrantsBooked'
    <3> SUFFICES ASSUME NEW g \in Grants
                 PROVE  Booked(grants'[g], HasUnfinishedJob(g)', role')
      BY DEF GrantsBooked
    <3>1. HasUnfinishedJob(g)' <=> HasUnfinishedJob(g)
      BY <2>1 DEF HasUnfinishedJob, Unfinished
    <3>2. Booked(grants[g], HasUnfinishedJob(g), role)
      BY DEF LifeInv, BooksInv, GrantsBooked
    <3> QED BY <1>r, <2>1, <3>1, <3>2 DEF Booked
  <2>4. RunsSawNobody'
    <3> SUFFICES ASSUME NEW v \in Sweepers, Leases(v)', sweeper'[v].pc \in {"read", "verified"},
                        sweeper'[v].seen = "none"
                 PROVE  role' = "none"
      BY DEF RunsSawNobody
    <3>1. CASE v = w
      BY <1>1, <3>1
    <3>2. CASE v # w
      <4>1. sweeper'[v] = sweeper[v]
        BY <3>2 DEF Runs
      <4>2. Leases(v)
        BY <2>1, <4>1 DEF Leases, Busy, Held
      <4> QED BY <1>r, <4>1, <4>2 DEF LifeInv, BooksInv, RunsSawNobody
    <3> QED BY <3>1, <3>2
  <2> QED BY <1>r, <2>2, <2>3, <2>4 DEF LifeInv, BooksInv
<1>3. ASSUME NEW g \in Grants, TakesLease(w, g)
      PROVE  BooksInv'
  <2>1. /\ UNCHANGED jobs /\ sweeper'[w].pc = "leased"
        /\ grants[g].status \in {"active", "revoke_failed", "already_present", "revoking"}
        /\ grants'[g].status = "revoking" /\ grants'[g].revoked_at = grants[g].revoked_at
        /\ grants'[g].membership_mutation_state = grants[g].membership_mutation_state
        /\ \A v \in Sweepers \ {w} : sweeper[v].lease # grants'[g].revoking_lease_id
        /\ \A v \in Sweepers \ {w} : sweeper'[v] = sweeper[v]
    BY <1>3 DEF TakesLease, LeaseAvailable, Runs
  <2>2. \A h \in Grants : h = g
    BY DEF OneRow
  <2>3. \A k \in JobWorkers : HandlerBooks(k)'
    BY <1>r, <2>1, <2>2, OthersBooked
  <2>4. ~grants[g].revoked_at
    BY <2>1 DEF LifeInv, BooksInv, GrantsBooked, Booked
  <2>5. GrantsBooked'
    BY <2>1, <2>2, <2>4 DEF GrantsBooked, Booked
  <2>6. RunsSawNobody'
    <3> SUFFICES ASSUME NEW v \in Sweepers, Leases(v)', sweeper'[v].pc \in {"read", "verified"}
                 PROVE  FALSE
      BY DEF RunsSawNobody
    <3>1. v # w
      BY <2>1
    <3>2. sweeper'[v] = sweeper[v] /\ sweeper[v].lease # grants'[g].revoking_lease_id
      BY <2>1, <3>1
    <3>3. sweeper[v].grant \in Grants
      BY <1>a, <3>2, BusySweeper DEF Busy
    <3> QED BY <2>2, <3>2, <3>3 DEF Leases, Held
  <2> QED BY <1>r, <2>3, <2>5, <2>6 DEF LifeInv, BooksInv
<1>4. CASE Settles(w)
  <2>g. PICK g \in Grants : g = sweeper[w].grant
    BY <1>4, <1>a, BusySweeper DEF Settles, Leases
  <2> DEFINE old == grants[g]
             new == grants'[g]
  <2>1. /\ Leases(w) /\ old.status = "revoking" /\ Outcome(w, old, new) /\ ~Busy(w)'
    BY <1>4, <2>g DEF Settles, Leases, Held
  <2>2. \A h \in Grants : h = g
    BY DEF OneRow
  <2>3. UNCHANGED jobs \/ (FreeJobs # {} /\ jobs' = CreateJob(g))
    BY <2>g, <2>1 DEF Outcome
  <2>4. \/ new.membership_mutation_state = old.membership_mutation_state
        \/ new.membership_mutation_state # "membership_confirmed"
    BY <2>1 DEF Outcome, Flagged
  <2>5. \A k \in JobWorkers : HandlerBooks(k)'
    BY <1>r, <2>2, <2>3, <2>4, OthersBooked
  <2>6. new.status = "revoked" => role' = "none"
    <3>1. old.membership_created_by_app = 1 /\ old.membership_created_by_app = sweeper[w].byApp
      <4>1. grants[g] \in DbGrant
        BY DEF LifeInv, ExpiryInv, TypeInv, TypeOK, StoreTypeOK
      <4>2. old.membership_created_by_app = 1
        BY <4>1, RowFields DEF LifeInv, OriginInv, GrantsOurs, Foreign
      <4> QED BY <2>g, <2>1, <4>2 DEF LifeInv, HandBackInv, RunsRemember, Leases, Held
    <3>2. new.status = "revoked"
            => sweeper[w].pc \in {"read", "verified"} /\ sweeper[w].seen = "none"
      BY <2>1, <3>1 DEF Outcome
    <3>3. new.status = "revoked" => role = "none"
      BY <2>1, <3>2 DEF LifeInv, BooksInv, RunsSawNobody
    <3> QED BY <1>r, <3>3
  <2>7. new.status = "pending" => new.membership_mutation_state = "reactivation_required"
    BY <2>1 DEF Outcome, Flagged
  <2>8. new.status \in {"revoked", "pending", "revoke_failed"} /\ (new.revoked_at <=> new.status = "revoked")
    BY <2>1 DEF Outcome
  <2>9. Booked(new, HasUnfinishedJob(g)', role')
    BY <2>6, <2>7, <2>8 DEF Booked
  <2>10. GrantsBooked'
    BY <2>2, <2>9 DEF GrantsBooked
  <2>11. RunsSawNobody'
    <3> SUFFICES ASSUME NEW v \in Sweepers, Leases(v)'
                 PROVE  FALSE
      BY DEF RunsSawNobody
    <3>1. v # w
      BY <2>1 DEF Leases, Busy
    <3>2. sweeper'[v] = sweeper[v]
      BY <3>1 DEF Runs
    <3>3. sweeper[v].grant \in Grants
      BY <1>a, <3>2, BusySweeper DEF Leases, Busy
    <3>4. new.status = "revoking"
      BY <2>2, <3>2, <3>3 DEF Leases, Held
    <3> QED BY <2>8, <3>4
  <2> QED BY <1>r, <2>5, <2>10, <2>11 DEF LifeInv, BooksInv
<1> QED BY <1>2, <1>3, <1>4 DEF Runs

LEMMA ApprovalBooked ==
    ASSUME OneRow, LifeInv, NEW g \in Grants, Approves(g),
           UNCHANGED <<sweeper, worker, role>>
    PROVE  BooksInv'
<1> DEFINE old == grants[g]
           new == grants'[g]
<1>a. TypeInv
  BY DEF LifeInv, ExpiryInv
<1>1. \A h \in Grants : h = g
  BY DEF OneRow
<1>2. /\ UNCHANGED jobs \/ (FreeJobs # {} /\ jobs' = CreateJob(g))
      /\ \/ new.membership_mutation_state = old.membership_mutation_state
         \/ new.membership_mutation_state # "membership_confirmed"
      /\ new.revoked_at => old.revoked_at
      /\ \/ new.status = "active"
         \/ new.status = "revoking" /\ old.status = "revoking"
              /\ new.revoking_lease_id = old.revoking_lease_id
         \/ /\ new.status = "pending" /\ old.status \in {"none", "pending", "revoke_failed"}
            /\ \/ old.status = "pending"
                    /\ new.membership_mutation_state = old.membership_mutation_state
               \/ new.membership_mutation_state # "membership_confirmed"
      /\ old.status # "revoked"
  BY DEF Approves, Approved, Flagged
<1>3. \A k \in JobWorkers : HandlerBooks(k)'
  BY <1>a, <1>1, <1>2, OthersBooked
<1>4. Booked(old, HasUnfinishedJob(g), role)
  BY DEF LifeInv, BooksInv, GrantsBooked
<1>5. Booked(new, HasUnfinishedJob(g)', role')
  BY <1>2, <1>4 DEF Booked
<1>6. GrantsBooked'
  BY <1>1, <1>5 DEF GrantsBooked
<1>7. RunsSawNobody'
  <2> SUFFICES ASSUME NEW v \in Sweepers, Leases(v)'
               PROVE  Leases(v)
    BY DEF LifeInv, BooksInv, RunsSawNobody
  <2>1. Busy(v) /\ sweeper[v].grant \in Grants
    BY <1>a, BusySweeper DEF Leases, Busy
  <2>2. sweeper[v].grant = g
    BY <1>1, <2>1
  <2>3. new.status = "revoking" /\ new.revoking_lease_id = sweeper[v].lease
    BY <2>2 DEF Leases, Held
  <2> QED BY <1>2, <2>1, <2>2, <2>3 DEF Leases, Held
<1> QED BY <1>a, <1>3, <1>6, <1>7 DEF LifeInv, BooksInv

\* Time passes, or the member leaves.
LEMMA QuietBooked ==
    ASSUME LifeInv, UNCHANGED <<grants, jobs, sweeper, worker>>,
           UNCHANGED role \/ role' = "none"
    PROVE  BooksInv'
<1>2. \A k \in JobWorkers : HandlerBooks(k)'
  BY OthersBooked
<1>3. GrantsBooked'
  <2> SUFFICES ASSUME NEW g \in Grants
               PROVE  Booked(grants'[g], HasUnfinishedJob(g)', role')
    BY DEF GrantsBooked
  <2>1. HasUnfinishedJob(g)' <=> HasUnfinishedJob(g)
    BY DEF HasUnfinishedJob, Unfinished
  <2>2. Booked(grants[g], HasUnfinishedJob(g), role)
    BY DEF LifeInv, BooksInv, GrantsBooked
  <2> QED BY <2>1, <2>2 DEF Booked
<1>4. RunsSawNobody'
  <2>1. \A v \in Sweepers : Leases(v)' <=> Leases(v)
    BY DEF Leases, Busy, Held
  <2> QED BY <2>1 DEF LifeInv, BooksInv, RunsSawNobody
<1> QED BY <1>2, <1>3, <1>4 DEF LifeInv, BooksInv

LEMMA StepBooked ==
    ASSUME Ordinary, MembersOnly, AddedByApp, OneRow, OneWorker, LifeInv, [Next]_vars
    PROVE  BooksInv' \/ GaveUp'
<1>a. TypeInv /\ FenceInv
  BY DEF LifeInv, ExpiryInv
<1>1. ASSUME NEW w \in Sweepers, Sweep(w)
      PROVE  BooksInv'
  BY <1>1, <1>a, SweepRuns, RunBooked DEF Sweep
<1>2. ASSUME NEW k \in JobWorkers, Work(k)
      PROVE  BooksInv' \/ GaveUp'
  <2>1. CASE worker[k].pc # "idle"
    BY <1>2, <2>1, HandlerBooked DEF Work
  <2>2. CASE worker[k].pc = "idle"
    <3>1. PICK j \in JobIds : AcquireNextJob(k, j)
      BY <1>2, <2>2, IdleAcquires DEF Work
    <3> QED BY <1>2, <3>1, TakeBooked DEF Work
  <2> QED BY <2>1, <2>2
<1>3. CASE Approve
  <2>1. PICK g \in Grants, d \in Durations : CreateGrantIntent(g, d)
    BY <1>3 DEF Approve
  <2>2. Approves(g) /\ UNCHANGED <<sweeper, worker, role>>
    BY <1>3, <1>a, <2>1, ApproveApproves DEF Approve, CreateGrantIntent
  <2> QED BY <2>2, ApprovalBooked
<1>4. CASE Webhook
  BY <1>4, <1>a DEF Webhook, FenceInv, NoEvents, HandleMembershipEvent
<1>5. CASE Promote \/ Demote \/ Arrive
  BY <1>5 DEF Promote, Demote, Arrive, OwnerActs, Admitted, MembersOnly, AddedByApp
<1>6. CASE Depart
  BY <1>6, QuietBooked DEF Depart, OwnerActs
<1>7. CASE Tick
  BY <1>7, QuietBooked DEF Tick
<1>8. CASE UNCHANGED vars
  BY <1>8, QuietBooked DEF vars, storeVars
<1> QED BY <1>1, <1>2, <1>3, <1>4, <1>5, <1>6, <1>7, <1>8 DEF Next

\* A job that has ended as failed is not touched again.
LEMMA GaveUpStays ==
    ASSUME Ordinary, ExpiryInv, FenceInv, GaveUp, [Next]_vars
    PROVE  GaveUp'
<1>a. TypeInv /\ jobs \in [JobIds -> Job]
  BY DEF ExpiryInv, TypeInv, TypeOK, StoreTypeOK
<1> SUFFICES \A i \in JobIds : jobs[i].status = "failed" => jobs'[i] = jobs[i]
  BY DEF GaveUp
<1>1. ASSUME UNCHANGED jobs \/ \E g \in Grants : FreeJobs # {} /\ jobs' = CreateJob(g)
      PROVE  \A i \in JobIds : jobs[i].status = "failed" => jobs'[i] = jobs[i]
  <2>1. ASSUME NEW g \in Grants, jobs' = CreateJob(g), FreeJobs # {}, NEW i \in JobIds
        PROVE  jobs[i].status = "failed" => jobs'[i] = jobs[i]
    <3> DEFINE id == CHOOSE j \in FreeJobs : TRUE
    <3>1. id \in JobIds /\ jobs[id].status = "unused"
      BY <2>1 DEF FreeJobs
    <3>2. jobs' = [jobs EXCEPT ![id] =
                     [status |-> "queued", grant |-> g, attempt_count |-> 0]]
      BY <2>1 DEF CreateJob
    <3> HIDE DEF id
    <3> QED BY <1>a, <2>1, <3>1, <3>2
  <2> QED BY <1>1, <2>1
<1>2. ASSUME NEW w \in Sweepers, Sweep(w)
      PROVE  UNCHANGED jobs \/ \E g \in Grants : FreeJobs # {} /\ jobs' = CreateJob(g)
  <2>1. Runs(w)
    BY <1>2, <1>a, SweepRuns DEF Sweep
  <2>2. CASE RunsOn(w) \/ \E g \in Grants : TakesLease(w, g)
    BY <2>2 DEF RunsOn, TakesLease
  <2>3. CASE Settles(w)
    <3>1. sweeper[w].grant \in Grants
      BY <1>a, <2>3, BusySweeper DEF Settles, Leases
    <3> QED BY <2>3, <3>1 DEF Settles, Outcome
  <2> QED BY <2>1, <2>2, <2>3 DEF Runs
<1>3. ASSUME NEW k \in JobWorkers, Work(k)
      PROVE  \A i \in JobIds : jobs[i].status = "failed" => jobs'[i] = jobs[i]
  <2>1. CASE worker[k].pc # "idle"
    <3>1. JobsAlone(JobOf(k))
      BY <1>3, <1>a, <2>1, WorkHandled DEF Work, Handled
    <3>2. jobs[JobOf(k)].status = "running"
      BY <2>1 DEF FenceInv, WorkerFenced
    <3> QED BY <3>1, <3>2 DEF JobsAlone
  <2>2. CASE worker[k].pc = "idle"
    <3>1. PICK j \in JobIds : AcquireNextJob(k, j)
      BY <1>3, <2>2, IdleAcquires DEF Work
    <3>2. /\ jobs[j].status \in {"queued", "running"}
          /\ jobs' = [jobs EXCEPT ![j].status = "running", ![j].attempt_count = @ + 1]
      BY <3>1 DEF AcquireNextJob, LockIsStale
    <3> QED BY <1>a, <3>2
  <2> QED BY <2>1, <2>2
<1>4. CASE Approve
  <2>1. PICK g \in Grants, d \in Durations : CreateGrantIntent(g, d)
    BY <1>4 DEF Approve
  <2>2. Approves(g)
    BY <1>4, <1>a, <2>1, ApproveApproves DEF Approve, CreateGrantIntent
  <2> QED BY <1>1, <2>2 DEF Approves
<1>5. CASE Webhook
  BY <1>5, <1>1 DEF Webhook, FenceInv, NoEvents, HandleMembershipEvent
<1>6. CASE Promote \/ Demote \/ Arrive \/ Depart \/ Tick \/ UNCHANGED vars
  BY <1>1, <1>6 DEF Promote, Demote, Arrive, Depart, OwnerActs, Tick, vars, storeVars
<1> QED BY <1>1, <1>2, <1>3, <1>4, <1>5, <1>6 DEF Next

LEMMA InitBooked == ASSUME AddedByApp PROVE Init => BooksInv
<1> SUFFICES ASSUME Init PROVE BooksInv
  OBVIOUS
<1>1. /\ role = "none"
      /\ \A g \in Grants : grants[g] = NoGrant
      /\ \A j \in JobIds : ~Unfinished(j)
  BY DEF Init, StoreInit, AddedByApp, Unfinished
<1>2. GrantsBooked
  BY <1>1 DEF GrantsBooked, Booked, NoGrant
<1>3. \A k \in JobWorkers : worker[k].pc = "idle"
  BY DEF Init, WorkerInit, IdleWorker
<1>4. RunsSawNobody
  BY <1>1 DEF RunsSawNobody
<1> QED BY <1>1, <1>2, <1>3, <1>4 DEF BooksInv, HandlerBooks

LEMMA BooksShow ==
    ASSUME LifeInv PROVE AppMembershipAccounted
<1> SUFFICES ASSUME origin = "app"
             PROVE  \E g \in Grants : /\ grants[g].membership_created_by_app = 1
                                      /\ ~grants[g].revoked_at
                                      /\ g \in ActiveGrants \/ HasUnfinishedJob(g)
  BY DEF AppMembershipAccounted
<1>1. role # "none" /\ \A g \in Grants : Begun(grants[g])
  BY DEF LifeInv, OriginInv, OriginKnown, AddsNoted
<1>2. PICK g \in Grants : TRUE
  BY <1>1 DEF LifeInv, BooksInv
<1>3. grants[g] \in DbGrant
  BY DEF LifeInv, ExpiryInv, TypeInv, TypeOK, StoreTypeOK
<1>4. grants[g].membership_created_by_app = 1 /\ grants[g].status # "none"
  BY <1>1, <1>3, RowFields DEF LifeInv, OriginInv, GrantsOurs, Foreign
<1>5. Booked(grants[g], HasUnfinishedJob(g), role)
  BY DEF LifeInv, BooksInv, GrantsBooked
<1>6. /\ ~grants[g].revoked_at /\ grants[g].status \notin {"revoked", "already_present"}
      /\ grants[g].status = "grant_failed" => HasUnfinishedJob(g)
  BY <1>1, <1>5 DEF Booked
<1>7. grants[g].status \in ManagedStatus \/ grants[g].status = "grant_failed"
  BY <1>3, <1>4, <1>6, RowFields DEF GrantStatus, ManagedStatus
<1> QED BY <1>4, <1>6, <1>7 DEF ActiveGrants

\* A membership the app created never drops off the books, through lost
\* answers, crashes, stalled runs, extensions and hand-backs, however many: a
\* grant the sweep can reach answers for it, or a job that has yet to look.  Only
\* a job that gives up drops what it added.
THEOREM MembershipAccounted ==
    ASSUME Ordinary, MembersOnly, AddedByApp, OneRow, OneWorker
    PROVE  Spec => []AppMembershipAccounted
<1> DEFINE Told == GaveUp \/ BooksInv
<1>1. ExpiryInv /\ FenceInv /\ HandBackInv /\ WaitInv /\ OriginInv /\ Told /\ [Next]_vars
      => Told'
  <2> SUFFICES ASSUME ExpiryInv, FenceInv, HandBackInv, WaitInv, OriginInv, Told, [Next]_vars
               PROVE  Told'
    OBVIOUS
  <2>1. CASE GaveUp
    BY <2>1, GaveUpStays
  <2>2. CASE BooksInv
    BY <2>2, StepBooked DEF LifeInv
  <2> QED BY <2>1, <2>2
<1>2. ExpiryInv /\ FenceInv /\ HandBackInv /\ WaitInv /\ OriginInv /\ Told
      => AppMembershipAccounted
  <2>1. GaveUp => AppMembershipAccounted
    BY DEF AppMembershipAccounted
  <2> QED BY <2>1, BooksShow DEF LifeInv
<1>3. ExpiryInv /\ FenceInv /\ WaitInv /\ HandBackInv /\ [Next]_vars => WaitInv'
  BY StepWaits
<1>4. TypeInv /\ OriginInv /\ [Next]_vars => OriginInv'
  BY OriginStep
<1>5. Init => OriginInv
  BY InitOrigin
<1>6. ExpiryInv => TypeInv
  BY DEF ExpiryInv
<1>7. Init => Told
  BY InitBooked
<1> HIDE DEF Told
<1> QED
  BY <1>1, <1>2, <1>3, <1>4, <1>5, <1>6, <1>7, InitWaits, InvariantHolds, FenceHolds,
     HandBackHolds, PTL DEF Spec
=============================================================================
