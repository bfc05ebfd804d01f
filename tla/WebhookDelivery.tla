--------------------------- MODULE WebhookDelivery ---------------------------
(***************************************************************************)
(* One row of webhook_deliveries, from GitHub's first request to the last  *)
(* attempt at it.  The route, the admin endpoint and the reprocess_webhook *)
(* jobs all end in processDelivery, which takes a lease on the row; the    *)
(* job worker looks for rows whose lease has run out.                      *)
(*                                                                         *)
(* There is one process: a crash ends every call that is under way.        *)
(* MembershipWebhook models what handling the event does to the grants.    *)
(***************************************************************************)
EXTENDS Naturals

CONSTANTS
    NULL,
    Calls,           \* concurrent calls of processDelivery
    JobIds,          \* ids of reprocess_webhook jobs
    ProcessingLease, \* leaseDurationMs, in ticks
    ReadTimeout,     \* GITHUB_REQUEST_TIMEOUT_MS, in ticks
    JobLock,         \* leaseDurationSeconds of acquireNextJobs, in ticks
    RecoveryLimit,   \* attempts after which a lost delivery is given up
    MaxAttempts,     \* JOB_MAX_ATTEMPTS
    MaxRequests,     \* bound on requests of GitHub and of administrators
    MaxFaults        \* bound on failed reads and crashes

ASSUME DeliveryAssumption ==
    /\ NULL \notin Nat
    /\ ProcessingLease \in Nat \ {0}
    /\ ReadTimeout \in Nat \ {0}
    /\ JobLock \in Nat \ {0}
    /\ RecoveryLimit \in Nat /\ MaxAttempts \in Nat \ {0}
    /\ MaxRequests \in Nat /\ MaxFaults \in Nat

VARIABLES
    clock,    \* Date.now()
    kind,     \* what the payload holds
    row,      \* the row of webhook_deliveries
    jobs,     \* the reprocess_webhook jobs for it
    call,     \* the calls of processDelivery, by id
    handled,  \* the event has been handled to its end (history)
    acked,    \* GitHub has been answered 200 (history)
    requests, \* requests so far
    faults,   \* faults so far
    overrun   \* a read has outlived its lease and, since then, some read has
              \* been under way at every moment (history)

vars == <<clock, kind, row, jobs, call, handled, acked, requests, faults, overrun>>

\* A membership event of this organization, of another one, or another event.
Kinds == {"membership", "foreign", "other"}

\* "none" is the delivery that has not arrived yet.
Row == [status           : {"none", "received", "processing", "processed", "failed"},
        lease_expires_at : Nat \cup {NULL},
        attempt_count    : Nat]

Job == [status        : {"unused", "queued", "running", "completed", "failed"},
        attempt_count : Nat,
        locked_at     : Nat]

\* "entered": before the lease.  "reading": the live role is being read.
Call == [pc    : {"idle", "entered", "reading"},
         via   : {"route", "admin", "job"},
         job   : JobIds \cup {NULL},
         since : Nat]

IdleCall == [pc |-> "idle", via |-> "route", job |-> NULL, since |-> 0]

Init ==
    /\ clock = 0
    /\ kind \in Kinds
    /\ row = [status |-> "none", lease_expires_at |-> NULL, attempt_count |-> 0]
    /\ jobs = [j \in JobIds |->
                  [status |-> "unused", attempt_count |-> 0, locked_at |-> 0]]
    /\ call = [c \in Calls |-> IdleCall]
    /\ handled = FALSE
    /\ acked = FALSE
    /\ requests = 0
    /\ faults = 0
    /\ overrun = FALSE

-----------------------------------------------------------------------------
(* Calls *)

Enter(c, by, j) ==
    call' = [call EXCEPT ![c] = [pc |-> "entered", via |-> by, job |-> j, since |-> clock]]

JobRuns == \E c \in Calls : call[c].pc # "idle" /\ call[c].via = "job"

\* executeJob completes its job, or throws into handleJobFailure.
JobAfter(j, processed) ==
    [jobs EXCEPT ![j].status =
        IF processed THEN "completed"
        ELSE IF jobs[j].attempt_count >= MaxAttempts THEN "failed"
        ELSE "queued"]

\* processDelivery returns to its caller: the route answers 200 or 500.
Returns(c, processed) ==
    /\ call' = [call EXCEPT ![c] = IdleCall]
    /\ acked' = (acked \/ (processed /\ call[c].via = "route"))
    /\ jobs' = IF call[c].via = "job" THEN JobAfter(call[c].job, processed) ELSE jobs

-----------------------------------------------------------------------------
(* Callers *)

Request ==
    /\ requests < MaxRequests
    /\ requests' = requests + 1

LeaseRuns == row.lease_expires_at # NULL /\ row.lease_expires_at > clock

\* The route, up to its import of the service: a request is registered, or
\* found to be a duplicate and answered at once.
Receive(c) ==
    /\ call[c].pc = "idle"
    /\ Request
    /\ row' = IF row.status = "none" THEN [row EXCEPT !.status = "received"] ELSE row
    /\ IF row.status = "processed" \/ (row.status = "processing" /\ LeaseRuns)
       THEN acked' = (acked \/ row.status = "processed") /\ UNCHANGED call
       ELSE Enter(c, "route", NULL) /\ UNCHANGED acked
    /\ UNCHANGED <<clock, kind, jobs, handled, faults, overrun>>

\* POST /setup/webhooks/reprocess, for this delivery or for all failed ones.
AdminReprocess(c) ==
    /\ call[c].pc = "idle"
    /\ row.status # "none"
    /\ Request
    /\ Enter(c, "admin", NULL)
    /\ UNCHANGED <<clock, kind, row, jobs, handled, acked, faults, overrun>>

\* The job worker runs one job at a time; a running job it does not run was
\* orphaned by a crash.
AcquireJob(c, j) ==
    /\ call[c].pc = "idle"
    /\ ~JobRuns
    /\ \/ jobs[j].status = "queued"
       \/ jobs[j].status = "running" /\ jobs[j].locked_at + JobLock <= clock
    /\ jobs' = [jobs EXCEPT ![j] = [status |-> "running", locked_at |-> clock,
                                    attempt_count |-> jobs[j].attempt_count + 1]]
    /\ Enter(c, "job", j)
    /\ UNCHANGED <<clock, kind, row, handled, acked, requests, faults, overrun>>

-----------------------------------------------------------------------------
(* processDelivery *)

\* Deviation: the lease of a row under processing is not looked at.
AcquirableWhileLeased(now) == row.status \in {"received", "processing", "failed"}

\* Deviation: a processed row is opened again.
AcquirableAgain(now) ==
    \/ row.status \in {"received", "processed", "failed"}
    \/ row.status = "processing" /\ row.lease_expires_at <= now

\* The WHERE clause of the compare-and-set.
Acquirable(now) ==
    \/ row.status \in {"received", "failed"}
    \/ row.status = "processing" /\ row.lease_expires_at <= now

NotAcquired(c) ==
    /\ call[c].pc = "entered"
    /\ ~Acquirable(clock)
    /\ Returns(c, FALSE)
    /\ UNCHANGED <<clock, kind, row, handled, requests, faults, overrun>>

\* The compare-and-set, and what follows it up to the next await: the event
\* of another organization fails, one that is no membership event is done.
AcquireLease(c) ==
    LET leased == [status |-> "processing",
                   lease_expires_at |-> clock + ProcessingLease,
                   attempt_count |-> row.attempt_count + 1]
    IN  /\ call[c].pc = "entered"
        /\ Acquirable(clock)
        /\ \/ /\ kind = "membership"
              /\ row' = leased
              /\ call' = [call EXCEPT ![c].pc = "reading", ![c].since = clock]
              /\ UNCHANGED <<jobs, handled, acked>>
           \/ /\ kind = "foreign"
              /\ row' = [leased EXCEPT !.status = "failed"]
              /\ Returns(c, FALSE)
              /\ UNCHANGED handled
           \/ /\ kind = "other"
              /\ row' = [leased EXCEPT !.status = "processed", !.lease_expires_at = NULL]
              /\ handled' = TRUE
              /\ Returns(c, TRUE)
        /\ UNCHANGED <<clock, kind, requests, faults, overrun>>

\* A read that ends ends the overrun if no other is under way.
ReadEnds(c) == overrun' = (overrun /\ \E d \in Calls \ {c} : call[d].pc = "reading")

\* The role is read, the grant reconciled, and the row closed, whoever holds
\* its lease by now.
FinishProcessing(c) ==
    /\ call[c].pc = "reading"
    /\ row' = [row EXCEPT !.status = "processed", !.lease_expires_at = NULL]
    /\ handled' = TRUE
    /\ ReadEnds(c)
    /\ Returns(c, TRUE)
    /\ UNCHANGED <<clock, kind, requests, faults>>

Fault == faults < MaxFaults /\ faults' = faults + 1

\* Deviation: the catch block records the failure but does not report it.
FailQuietly(c) ==
    /\ call[c].pc = "reading"
    /\ Fault
    /\ row' = [row EXCEPT !.status = "failed", !.lease_expires_at = NULL]
    /\ ReadEnds(c)
    /\ Returns(c, TRUE)
    /\ UNCHANGED <<clock, kind, handled, requests>>

\* The read is rejected or times out: the catch block, as unguarded.
FailProcessing(c) ==
    /\ call[c].pc = "reading"
    /\ Fault
    /\ row' = [row EXCEPT !.status = "failed", !.lease_expires_at = NULL]
    /\ ReadEnds(c)
    /\ Returns(c, FALSE)
    /\ UNCHANGED <<clock, kind, handled, requests>>

-----------------------------------------------------------------------------
(* Recovery, crashes and time *)

UnusedJobs == {j \in JobIds : jobs[j].status = "unused"}

\* Deviation: the abandoned row fails and is not queued again.
RecoverWithoutJob ==
    /\ ~JobRuns
    /\ row.status = "processing"
    /\ row.lease_expires_at <= clock
    /\ row' = [row EXCEPT !.status = "failed", !.lease_expires_at = NULL]
    /\ UNCHANGED <<clock, kind, jobs, call, handled, acked, requests, faults, overrun>>

\* A row whose lease has run out fails, and is queued again unless it has
\* been tried too often.
RecoverStaleDelivery ==
    /\ ~JobRuns
    /\ row.status = "processing"
    /\ row.lease_expires_at <= clock
    /\ row' = [row EXCEPT !.status = "failed", !.lease_expires_at = NULL]
    /\ IF row.attempt_count <= RecoveryLimit
       THEN \E j \in UnusedJobs : jobs' = [jobs EXCEPT ![j].status = "queued"]
       ELSE UNCHANGED jobs
    /\ UNCHANGED <<clock, kind, call, handled, acked, requests, faults, overrun>>

Crash ==
    /\ \E c \in Calls : call[c].pc # "idle"
    /\ Fault
    /\ call' = [c \in Calls |-> IdleCall]
    /\ overrun' = FALSE
    /\ UNCHANGED <<clock, kind, row, jobs, handled, acked, requests>>

\* Someone waits for a later moment: the end of a lease or of a job's lock.
Awaited ==
    \/ row.status = "processing" /\ LeaseRuns
    \/ \E c \in Calls : call[c].pc = "reading"
    \/ \E j \in JobIds : jobs[j].status = "running" /\ jobs[j].locked_at + JobLock > clock

\* The import before the lease takes no time; a read at most ReadTimeout.
Tick ==
    /\ Awaited
    /\ \A c \in Calls : call[c].pc # "entered"
    /\ \A c \in Calls : call[c].pc = "reading" => clock < call[c].since + ReadTimeout
    /\ clock' = clock + 1
    /\ overrun' = (overrun \/ \E c \in Calls : /\ call[c].pc = "reading"
                                               /\ clock' >= call[c].since + ProcessingLease)
    /\ UNCHANGED <<kind, row, jobs, call, handled, acked, requests, faults>>

Next ==
    \/ \E c \in Calls : \/ Receive(c) \/ AdminReprocess(c)
                        \/ NotAcquired(c) \/ AcquireLease(c)
                        \/ FinishProcessing(c) \/ FailProcessing(c)
    \/ \E c \in Calls, j \in JobIds : AcquireJob(c, j)
    \/ RecoverStaleDelivery
    \/ Crash
    \/ Tick

Spec == Init /\ [][Next]_vars

\* Calls go on, the job worker polls, time goes by; requests are not owed.
Fairness ==
    /\ \A c \in Calls : WF_vars(NotAcquired(c) \/ AcquireLease(c) \/ FinishProcessing(c))
    /\ WF_vars(\E c \in Calls, j \in JobIds : AcquireJob(c, j))
    /\ WF_vars(RecoverStaleDelivery)
    /\ WF_vars(Tick)

FairSpec == Spec /\ Fairness

-----------------------------------------------------------------------------
(* Properties *)

\* Rows, jobs and calls keep their types, and a row under processing has a
\* lease that can run out: recovery finds it by lease_expires_at.
DeliveryTypeOK ==
    /\ clock \in Nat
    /\ kind \in Kinds
    /\ row \in Row
    /\ row.status = "processing" => row.lease_expires_at # NULL
    /\ jobs \in [JobIds -> Job]
    /\ call \in [Calls -> Call]
    /\ handled \in BOOLEAN
    /\ acked \in BOOLEAN
    /\ requests \in Nat
    /\ faults \in Nat
    /\ overrun \in BOOLEAN

\* "Process a single webhook delivery with CAS-based concurrency protection":
\* one call at a time handles a delivery.  It does not hold, for the read may
\* take 60 s and the lease lasts 30 s.
ExclusiveProcessing ==
    \A c, d \in Calls : call[c].pc = "reading" /\ call[d].pc = "reading" => c = d

\* What the lease does exclude: a delivery that is redelivered, reprocessed by
\* hand or recovered while it is handled is handled by one call at a time,
\* unless a read has outlived its lease; and once all calls that overlapped
\* such a read are over, the lease excludes again.
LeaseExcludes == overrun \/ ExclusiveProcessing

\* What is processed stays processed: no late failure, recovery or redelivery
\* opens it again, unless a read has outlived its lease.
ProcessedIsFinal ==
    [][row.status = "processed" /\ ~overrun => row'.status = "processed"]_vars

\* GitHub is told 200, and the row says processed, only once the event has
\* been handled to its end.
AcknowledgedIsHandled == acked \/ row.status = "processed" => handled

Abandoned == row.status = "processing" /\ \A c \in Calls : call[c].pc = "idle"

\* A crash in the middle of an event does not lose it: a row that has not been
\* tried too often is found and the event handled in the end, unless something
\* else fails.
AbandonedIsHandled ==
    \A n \in 0 .. MaxFaults :
        (Abandoned /\ row.attempt_count <= RecoveryLimit /\ faults = n) ~> (handled \/ faults > n)
=============================================================================
