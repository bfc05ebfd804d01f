--------------------------- MODULE AccessLifecycle ---------------------------
(***************************************************************************)
(* The life of a temporary membership: requests are approved, job workers  *)
(* grant access, sweepers revoke it at expiry, webhooks and owners         *)
(* interfere, processes fail, and time passes.                             *)
(***************************************************************************)
EXTENDS RevocationService, GrantAccess, GrantService, MembershipWebhook

CONSTANT MaxTime  \* bound on the clock

ASSUME HorizonAssumption == MaxTime \in Nat

vars == <<storeVars, sweeper, worker, approved, events, hook>>

Init ==
    /\ StoreInit
    /\ SweeperInit
    /\ WorkerInit
    /\ approved = 0
    /\ HookInit

-----------------------------------------------------------------------------
(* The components *)

Sweep(w) == SweeperNext(w) /\ Announce /\ UNCHANGED <<worker, approved, hook>>

Work(k) == WorkerNext(k) /\ Announce /\ UNCHANGED <<sweeper, approved, hook>>

Approve ==
    /\ \E g \in Grants, d \in Durations : CreateGrantIntent(g, d)
    /\ UNCHANGED <<sweeper, worker, events, hook>>

Webhook ==
    /\ (\E e \in events : ReadLiveRole(e)) \/ HandleMembershipEvent
    /\ UNCHANGED <<sweeper, worker, approved>>

-----------------------------------------------------------------------------
(* The environment *)

OwnerActs(c, newRole, newOrigin) ==
    /\ Admitted(c)
    /\ Fault
    /\ role' = newRole
    /\ origin' = newOrigin
    /\ Announce
    /\ UNCHANGED <<clock, grants, requested, jobs, sweeper, worker, approved, hook>>

Promote == role = "member" /\ OwnerActs("promotion", "maintainer", origin)
Demote == role = "maintainer" /\ OwnerActs("promotion", "member", origin)
Depart == role # "none" /\ OwnerActs("departure", "none", "none")
Arrive == role = "none" /\ OwnerActs("arrival", "member", "owner")

\* A job, and every handler that has it, ends before its grant expires.
JobsLetTimePass ==
    \/ Admitted("late_job")
    \/ \A j \in JobIds :
         Unfinished(j) \/ (\E k \in JobWorkers : JobOf(k) = j)
         => clock + 1 < grants[jobs[j].grant].effective_expires_at

\* Some row waits for a later moment: its expiry, its next revocation
\* attempt, the end of its lease.  The clock stops when nothing does.
Awaited ==
    \E g \in Grants :
        LET row == grants[g]
        IN  \/ row.effective_expires_at > clock
            \/ row.next_revoke_attempt_at # NULL /\ row.next_revoke_attempt_at > clock
            \/ /\ row.revoking_started_at # NULL
               /\ row.revoking_started_at + RevokeLease > clock

\* A revocation is a handful of calls and takes no time, unless it stalls.
Stalled == \E w \in Sweepers : sweeper[w].pc # "idle"

Tick ==
    /\ clock < MaxTime
    /\ Awaited
    /\ IF Stalled /\ ~Admitted("stall") THEN Fault ELSE UNCHANGED faults
    /\ SweepersLetTimePass
    /\ JobsLetTimePass
    /\ hook.pc = "idle" \/ Admitted("slow_event")
    /\ clock' = clock + 1
    /\ UNCHANGED <<grants, requested, jobs, role, origin,
                   sweeper, worker, approved, events, hook>>

Next ==
    \/ \E w \in Sweepers : Sweep(w)
    \/ \E k \in JobWorkers : Work(k)
    \/ Approve
    \/ Webhook
    \/ Promote \/ Demote \/ Depart \/ Arrive
    \/ Tick

Spec == Init /\ [][Next]_vars

\* The scheduler and the job worker run in loops, GitHub answers, and time
\* goes by; faults, approvals and outside moves are not owed.
Fairness ==
    /\ \A w \in Sweepers :
         WF_vars((SweepStart(w) \/ RevokeStep(w)) /\ Announce
                 /\ UNCHANGED <<worker, approved, hook>>)
    /\ \A k \in JobWorkers :
         WF_vars((HandlerStep(k) \/ \E j \in JobIds : AcquireNextJob(k, j))
                 /\ Announce /\ UNCHANGED <<sweeper, approved, hook>>)
    /\ WF_vars(Webhook)
    /\ WF_vars(Tick)

FairSpec == Spec /\ Fairness

-----------------------------------------------------------------------------
(* Properties *)

\* Every row, job, run and handler keeps to its type: no path of the code
\* records an absent role, a status or a lease that has no meaning.
TypeOK ==
    /\ StoreTypeOK
    /\ SweeperTypeOK
    /\ WorkerTypeOK
    /\ approved \in Nat
    /\ HookTypeOK

HasUnfinishedJob(g) == \E j \in JobIds : jobs[j].grant = g /\ Unfinished(j)

\* No request that a grant carries outlives it: extending, reactivating and
\* reviving a grant never cut an approved request short.
ExpiryCoversRequests ==
    \A g \in Grants : \A e \in requested[g] : e <= grants[g].effective_expires_at

\* While a DELETE is on the wire its sender holds a fresh lease, so that
\* neither another sweeper nor the takeover of a stranded reactivation can
\* touch the grant.
RemovalIsFenced ==
    \A w \in Sweepers : sweeper[w].pc = "deleting" => OwnsLease(w)

\* The app never adds and removes a member for one grant at the same time.
NoAddDuringRemoval ==
    \A w \in Sweepers, k \in JobWorkers :
        sweeper[w].pc = "deleting" /\ worker[k].pc = "adding"
        => GrantOf(k) # sweeper[w].grant

\* A membership that was there before LightGrant, and never left since, is
\* never being removed.
PreexistingProtected ==
    \A w \in Sweepers : sweeper[w].pc = "deleting" => origin # "preexisting"

\* A job has used up its attempts.
GaveUp == \E j \in JobIds : jobs[j].status = "failed" /\ jobs[j].attempt_count >= MaxAttempts

\* A membership the app created is on the books, unless a job has given up: a
\* grant the sweep can reach answers for it, or a job that has yet to look will.
AppMembershipAccounted ==
    origin = "app" =>
        \/ GaveUp
        \/ \E g \in Grants : /\ grants[g].membership_created_by_app = 1
                             /\ ~grants[g].revoked_at
                             /\ g \in ActiveGrants \/ HasUnfinishedJob(g)

\* No managed grant disowns a membership the app created.
OriginRemembered ==
    origin = "app" =>
        \A g \in ActiveGrants : grants[g].membership_created_by_app = 1

\* A grant that says active has its member at GitHub.
ActiveHasMember ==
    \A g \in Grants : grants[g].status = "active" => role # "none"

\* A grant that waits for access has a job to give it.
WaitingHasJob ==
    \A g \in Grants :
        (\/ grants[g].status = "pending"
         \/ /\ grants[g].status = "revoking"
            /\ grants[g].membership_mutation_state = "reactivation_required"
            /\ grants[g].membership_created_by_app = 1)
        => HasUnfinishedJob(g)

\* Temporary access ends: a membership the app created does not stay on when
\* every request for it has expired.
ExpiredAccessRemoved ==
    []<>(origin = "app" => \E g \in Grants : HasActiveRequests(g, clock))

\* Every approved request is answered: a grant does not wait for ever.
PendingSettles ==
    \A g \in Grants : (grants[g].status = "pending") ~> (grants[g].status # "pending")

\* A revocation does not stay under way for ever.
RevokingSettles ==
    \A g \in Grants : (grants[g].status = "revoking") ~> (grants[g].status # "revoking")

\* A grant is recorded as revoked once and for all: what was approved while the
\* membership was being removed has been handed back.  The run for a membership
\* that is not ours does not look for that, and a job may revive its grant.
RevokedIsFinal ==
    [][\A g \in Grants :
          grants[g].status = "revoked" /\ grants[g].membership_created_by_app = 1
          => grants'[g].status = "revoked"]_vars
=============================================================================
