------------------------------ MODULE JobQueue ------------------------------
(***************************************************************************)
(* The table jobs (job-repository.ts) and the loop of a JobWorker that     *)
(* takes a batch of it and executes its jobs one after the other.  What a  *)
(* job does is left to the modules that extend this one.                   *)
(*                                                                         *)
(* Times are kept as what is left of them and what has gone by, so that no *)
(* clock bounds a run.  locked_by is left out: nothing reads it.  Jobs     *)
(* that are due are taken in any order (the code: in that of run_after).   *)
(***************************************************************************)
EXTENDS Integers, FiniteSets, SequencesExt

CONSTANTS
    Jobs,          \* ids of jobs
    Workers,       \* JobWorkers: one of each process that shares the database
    Batch,         \* jobs taken in one cycle (5)
    JobLock,       \* how long a job stays with its worker (60 s)
    MaxAttempts,   \* JOB_MAX_ATTEMPTS
    RetryDelay(_)  \* what releaseJobForRetry waits after an attempt

ASSUME QueueConstants ==
    /\ IsFiniteSet(Jobs) /\ IsFiniteSet(Workers)
    /\ Batch \in Nat \ {0} /\ MaxAttempts \in Nat \ {0}
    /\ JobLock \in Nat
    /\ \A n \in 1 .. MaxAttempts : RetryDelay(n) \in Nat

VARIABLES
    jobs,    \* the table
    worker   \* worker[w]: the rest of its batch and what it does with the first

JobStatus == {"none", "queued", "running", "completed", "failed"}

\* A row; "none" stands for an id that is not in the table.  wait is the time
\* until run_after, held the time since locked_at, as long as it matters.
DbJob == [status: JobStatus, attempt_count: Nat, wait: Nat, held: 0 .. JobLock]

NoJob == [status |-> "none", attempt_count |-> 0, wait |-> 0, held |-> 0]

\* What a worker remembers of a row it acquired.
Acquired == [job: Jobs, attempt: Nat \ {0}]

\* Where a worker is in the handler of the first job of its batch: before its
\* first statement, in a call that has gone out, after the effect that is left
\* to complete the job, or after an error that handleJobFailure has yet to see.
Phases == {"start", "calling", "done", "threw"}

\* age: how long the call has been out, as long as it matters.
IdleWorker == [batch |-> <<>>, phase |-> "start", age |-> 0]

Current(w) == Head(worker[w].batch).job
Attempt(w) == Head(worker[w].batch).attempt
In(w, phase) == worker[w].batch # <<>> /\ worker[w].phase = phase
Goto(w, phase) == worker' = [worker EXCEPT ![w].phase = phase, ![w].age = 0]

-----------------------------------------------------------------------------
(* Statements.  None of them looks at who holds the lock. *)

CreateJob(j) == [jobs EXCEPT ![j] = [NoJob EXCEPT !.status = "queued"]]
CompleteJob(j) == [jobs EXCEPT ![j].status = "completed"]
FailJob(j) == [jobs EXCEPT ![j].status = "failed"]
ReleaseJobForRetry(j, delay) == [jobs EXCEPT ![j].status = "queued", ![j].wait = delay]

\* Deviation: a job whose worker has died is never found.
NeverStale(row) == row.status = "running" /\ row.held > JobLock

Stale(row) == row.status = "running" /\ row.held >= JobLock

\* Rows that acquireNextJobs may take: queued or stale, and due.
Runnable == {j \in Jobs : (jobs[j].status = "queued" \/ Stale(jobs[j])) /\ jobs[j].wait = 0}

\* Batch of the runnable jobs, or all of them if there are fewer.
Batches ==
    UNION {SetToSeqs(S) : S \in {S \in SUBSET Runnable :
               Cardinality(S) <= Batch /\ (S = Runnable \/ Cardinality(S) = Batch)}}

\* acquireNextJobs: stale rows go back to the queue, the batch is locked.
AcquireNextJobs(w) ==
    \E q \in Batches :
        /\ jobs' = [j \in Jobs |->
                      IF j \in ToSet(q)
                      THEN [jobs[j] EXCEPT !.status = "running",
                                           !.attempt_count = @ + 1,
                                           !.held = 0]
                      ELSE IF Stale(jobs[j]) THEN [jobs[j] EXCEPT !.status = "queued"]
                      ELSE jobs[j]]
        /\ worker' = [worker EXCEPT ![w].batch =
                        [i \in DOMAIN q |-> [job |-> q[i], attempt |-> jobs[q[i]].attempt_count + 1]]]

\* executeJob and, after an error, handleJobFailure are through.
NextOfBatch(w) ==
    worker' = [worker EXCEPT ![w] = [IdleWorker EXCEPT !.batch = Tail(worker[w].batch)]]

\* A unit of time goes by, but not inside the code: a worker that holds a job
\* waits for nothing but its call.  Ages are counted up to oldest.
TimePasses(oldest) ==
    /\ \A w \in Workers : worker[w].batch = <<>> \/ In(w, "calling")
    /\ worker' = [w \in Workers |->
                     IF In(w, "calling")
                     THEN [worker[w] EXCEPT !.age = IF @ < oldest THEN @ + 1 ELSE @]
                     ELSE worker[w]]
    /\ jobs' = [j \in Jobs |->
                  [jobs[j] EXCEPT !.wait = IF @ > 0 THEN @ - 1 ELSE 0,
                                  !.held = IF @ < JobLock THEN @ + 1 ELSE @]]
=============================================================================
