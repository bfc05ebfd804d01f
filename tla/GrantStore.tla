------------------------------ MODULE GrantStore ------------------------------
(***************************************************************************)
(* What the components of LightGrant share: the SQLite tables they read    *)
(* and write, the wall clock, and the team membership at GitHub.           *)
(*                                                                         *)
(* The grants of the model are the rows of one (organization, team, user)  *)
(* key, so there is one membership at GitHub.                              *)
(***************************************************************************)
EXTENDS GrantRepository

CONSTANTS
    Grants,       \* ids of rows of grants
    JobIds,       \* ids of grant_access jobs
    MaxAttempts,  \* JOB_MAX_ATTEMPTS
    Admits,       \* the circumstances a run admits, see Circumstances
    MaxFaults     \* bound on failed API calls, crashes and outside moves

(***************************************************************************)
(* Circumstances outside the normal operation the design relies on:        *)
(*   preexisting  the user may be in the team before LightGrant acts       *)
(*   stall        a sweeper may stall at will: without it, each tick that  *)
(*                passes over a busy one counts as a fault                 *)
(*   late_fence   a revocation reaches its fence within one request        *)
(*                timeout of the end of its lease                          *)
(*   slow_import  the clock may advance over the dynamic import that sits  *)
(*                between a revocation's fence and its cancellation        *)
(*   late_job     a grant_access job outlives its grant's expiry           *)
(*   promotion    an owner turns the member into a maintainer or back      *)
(*   departure    an owner removes the member by hand                      *)
(*   arrival      an owner adds the user by hand                           *)
(*   webhook      GitHub delivers membership events                        *)
(*   slow_event   the clock may advance while an event is being handled    *)
(*   stolen_job   a handler outlives the 60 s lock of its job, and another  *)
(*                process takes the job over                               *)
(***************************************************************************)
Circumstances == {"preexisting", "stall", "late_fence", "slow_import", "late_job",
                  "promotion", "departure", "arrival", "webhook", "slow_event",
                  "stolen_job"}

ASSUME StoreAssumption ==
    /\ MaxAttempts \in Nat \ {0}
    /\ MaxFaults \in Nat
    /\ Admits \subseteq Circumstances

VARIABLES
    clock,     \* Date.now()
    grants,    \* table grants
    requested, \* requested_expires_at of the approved requests linked to a grant
    jobs,      \* the grant_access rows of table jobs
    role,      \* GitHub: the user's role in the team
    origin,    \* GitHub: who created that membership (history variable)
    faults     \* faults so far

storeVars == <<clock, grants, requested, jobs, role, origin, faults>>

Job == [status: {"unused", "queued", "running", "completed", "failed"},
        grant: Grants \cup {NULL},
        attempt_count: Nat]

Origins == {"none", "preexisting", "app", "owner"}

StoreTypeOK ==
    /\ clock \in Nat
    /\ grants \in [Grants -> DbGrant]
    /\ requested \in [Grants -> SUBSET Nat]
    /\ jobs \in [JobIds -> Job]
    /\ role \in Roles
    /\ origin \in Origins
    /\ faults \in Nat

StoreInit ==
    /\ clock = 0
    /\ grants = [g \in Grants |-> NoGrant]
    /\ requested = [g \in Grants |-> {}]
    /\ jobs = [j \in JobIds |->
                  [status |-> "unused", grant |-> NULL, attempt_count |-> 0]]
    /\ \/ role = "none" /\ origin = "none"
       \/ /\ "preexisting" \in Admits
          /\ role \in {"member", "maintainer"}
          /\ origin = "preexisting"
    /\ faults = 0

-----------------------------------------------------------------------------
(* Queries over several rows *)

\* hasActiveRequests
HasActiveRequests(g, now) == \E e \in requested[g] : e > now

\* findActiveGrant: by the unique index there is at most one.
ActiveGrants == {g \in Grants : grants[g].status \in ManagedStatus}

\* The partial unique index accepts this row for g.  A statement it rejects
\* throws, and its transaction rolls back.
IndexAccepts(g, row) ==
    row.status \in ManagedStatus => ActiveGrants \subseteq {g}

-----------------------------------------------------------------------------
(* Statements on table jobs, as functions of the table *)

FreeJobs == {j \in JobIds : jobs[j].status = "unused"}

\* createJob of type grant_access
CreateJob(g) ==
    LET id == CHOOSE j \in FreeJobs : TRUE
    IN  [jobs EXCEPT ![id] =
            [status |-> "queued", grant |-> g, attempt_count |-> 0]]

CompleteJob(j) == [jobs EXCEPT ![j].status = "completed"]
FailJob(j) == [jobs EXCEPT ![j].status = "failed"]
ReleaseJobForRetry(j) == [jobs EXCEPT ![j].status = "queued"]

\* deferJob gives the attempt back: attempt_count = MAX(attempt_count - 1, 0).
DeferJob(j) ==
    [jobs EXCEPT ![j].status = "queued",
                 ![j].attempt_count = IF @ > 0 THEN @ - 1 ELSE 0]

Unfinished(j) == jobs[j].status \in {"queued", "running"}

-----------------------------------------------------------------------------
(* Faults *)

Admitted(c) == c \in Admits

Fault == faults < MaxFaults /\ faults' = faults + 1

SetGrant(g, row) == grants' = [grants EXCEPT ![g] = row]
=============================================================================
