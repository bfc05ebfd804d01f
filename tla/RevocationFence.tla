--------------------------- MODULE RevocationFence ---------------------------
(***************************************************************************)
(* Why a DELETE is fenced: the inductive invariant behind RemovalIsFenced. *)
(***************************************************************************)
EXTENDS AccessLifecycle

\* The circumstances the lease is made for, and requests that outlast it: the
\* lease is 15 minutes, a request is for hours.
Ordinary ==
    /\ Admits \cap {"late_fence", "slow_import", "late_job", "webhook", "stolen_job"} = {}
    /\ \A d \in Durations : d > RevokeLease

Busy(w) == sweeper[w].pc \notin {"idle", "sweep"}
Held(w) == grants[sweeper[w].grant]

\* A lease dates from its run's now.  A request that revives the grant came
\* after that, and outlasts the lease.
SweeperFenced(w) ==
    /\ sweeper[w].now <= clock
    /\ Busy(w) =>
        /\ Held(w).status = "revoking" /\ Held(w).revoking_lease_id = sweeper[w].lease
            => Held(w).revoking_started_at = sweeper[w].now
        /\ \A e \in requested[sweeper[w].grant] :
              e <= sweeper[w].now \/ e > sweeper[w].now + RevokeLease
    /\ sweeper[w].pc = "cancel" =>
        OwnsLease(w) /\ HasActiveRequests(sweeper[w].grant, sweeper[w].now)
    /\ sweeper[w].pc = "deleting" =>
        /\ OwnsLease(w)
        /\ clock <= sweeper[w].sentAt + CallTimeout
        /\ sweeper[w].sentAt + CallTimeout < Held(w).revoking_started_at + RevokeLease

LeasesDiffer ==
    \A v, w \in Sweepers :
        Busy(v) /\ Busy(w) /\ sweeper[v].lease = sweeper[w].lease => v = w

\* No revocation starts under a handler's feet: its job is unfinished, so its
\* grant has a request that has not expired.
WorkerFenced(k) ==
    worker[k].pc # "idle" =>
        /\ jobs[JobOf(k)].status = "running"
        /\ worker[k].pc # "acquired" => Row(k).status # "revoking"

JobsHeldOnce ==
    \A i, k \in JobWorkers :
        worker[i].pc # "idle" /\ worker[k].pc # "idle" /\ JobOf(i) = JobOf(k) => i = k

JobsInTime ==
    \A j \in JobIds : Unfinished(j) => HasActiveRequests(jobs[j].grant, clock)

ExpiryIsRequested ==
    \A g \in Grants :
        grants[g].status # "none" => grants[g].effective_expires_at \in requested[g]

NoEvents == events = {} /\ hook.pc = "idle"

\* The invariant that makes RemovalIsFenced inductive: leases are dated and
\* unique, live jobs keep their grants from expiring, and a DELETE on the wire
\* times out before its lease does.
FenceInv ==
    /\ \A w \in Sweepers : SweeperFenced(w)
    /\ LeasesDiffer
    /\ \A k \in JobWorkers : WorkerFenced(k)
    /\ JobsHeldOnce
    /\ JobsInTime
    /\ ExpiryIsRequested
    /\ NoEvents
=============================================================================
