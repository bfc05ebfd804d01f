------------------------ MODULE NotificationDelivery ------------------------
(***************************************************************************)
(* Messages to Slack: the jobs notify_request_result and                   *)
(* post_audit_notification, and the table notification_deliveries that     *)
(* keeps one row per idempotency key.                                      *)
(*                                                                         *)
(* A handler reads and claims its row in one step: between the two         *)
(* statements there is no await, and another process that slips in makes   *)
(* the claim fail, as if it had come first.  attempt_count and             *)
(* next_attempt_at of a row are left out: nothing reads them.              *)
(***************************************************************************)
EXTENDS JobQueue

CONSTANTS
    Topic,         \* Topic[j]: what job j is about, the key without its window
    Alerts,        \* topics whose key holds a window of time
    StuckAfter,    \* a row in sending for longer is taken for abandoned (300 s)
    MaxWindow,     \* bound on the windows of time (5 min each)
    MaxFaults      \* bound on failing calls and crashes

Topics == {Topic[j] : j \in Jobs}

ASSUME DeliveryConstants ==
    /\ DOMAIN Topic = Jobs
    /\ StuckAfter \in Nat
    /\ MaxWindow \in Nat /\ MaxFaults \in Nat

VARIABLES
    window,      \* now / 5 min
    key,         \* key[j]: the idempotencyKey in the payload
    deliveries,  \* notification_deliveries
    told,        \* history: the jobs whose message has reached Slack
    copies,      \* history: how often the message of a key has reached Slack
    doubts,      \* history: moments at which it became unknown whether the message
                 \* of a key has arrived or is yet to arrive
    overrun,     \* history: the keys one of whose calls was out when its row could
                 \* be found stuck, since when calls for them have always been out
    faults

vars == <<jobs, worker, window, key, deliveries, told, copies, doubts, overrun, faults>>

Keys == [topic: Topics, window: 0 .. MaxWindow]

DeliveryStatus == {"none", "sending", "sent", "failed", "dead"}

\* A row; age is the time since updated_at, as long as it matters.
Delivery == [status: DeliveryStatus, age: 0 .. StuckAfter + 1]

\* createJob, extractIdempotencyKey: the key as it is computed in a window.
KeyIn(j, n) == [topic |-> Topic[j], window |-> IF Topic[j] \in Alerts THEN n ELSE 0]

Init ==
    /\ window = 0
    /\ jobs = [j \in Jobs |-> NoJob]
    /\ worker = [w \in Workers |-> IdleWorker]
    /\ key = [j \in Jobs |-> KeyIn(j, 0)]
    /\ deliveries = [k \in Keys |-> [status |-> "none", age |-> 0]]
    /\ told = {}
    /\ copies = [k \in Keys |-> 0]
    /\ doubts = [k \in Keys |-> 0]
    /\ overrun = {}
    /\ faults = 0

SetDelivery(k, s) == [deliveries EXCEPT ![k] = [status |-> s, age |-> 0]]

-----------------------------------------------------------------------------
(* Steps of the program *)

Enqueue(j) ==
    /\ jobs[j].status = "none"
    /\ jobs' = CreateJob(j)
    /\ key' = [key EXCEPT ![j] = KeyIn(j, window)]
    /\ UNCHANGED <<worker, window, deliveries, told, copies, doubts, overrun, faults>>

\* Deviation: a row in sending is never found again.
NeverStuck(row) == row.status = "sending" /\ row.age > StuckAfter + 1

Stuck(row) == row.status = "sending" /\ row.age > StuckAfter

\* recoverLeasedNotifications
RecoverLeased ==
    [k \in Keys |-> IF Stuck(deliveries[k])
                    THEN [status |-> "failed", age |-> 0]
                    ELSE deliveries[k]]

\* runCycle of an idle worker that finds something to do.
RunCycle(w) ==
    /\ worker[w] = IdleWorker
    /\ Runnable # {} \/ \E k \in Keys : Stuck(deliveries[k])
    /\ deliveries' = RecoverLeased
    /\ AcquireNextJobs(w)
    /\ UNCHANGED <<window, key, told, copies, doubts, overrun, faults>>

\* The row says that the message has been sent.
AlreadySent(w) ==
    /\ In(w, "start")
    /\ deliveries[key[Current(w)]].status = "sent"
    /\ Goto(w, "done")
    /\ UNCHANGED <<jobs, window, key, deliveries, told, copies, doubts, overrun, faults>>

\* Deviation: the claim is not a compare-and-set.
ClaimableUnlessSent(k) == deliveries[k].status # "sent"

\* WHERE status IN ('pending', 'failed')
Claimable(k) == deliveries[k].status \in {"none", "failed"}

\* The row is claimed and the call of Slack goes out.
StartSend(w) ==
    /\ In(w, "start")
    /\ Claimable(key[Current(w)])
    /\ deliveries' = SetDelivery(key[Current(w)], "sending")
    /\ Goto(w, "calling")
    /\ UNCHANGED <<jobs, window, key, told, copies, doubts, overrun, faults>>

\* Somebody else is sending, or the row is dead: the handler throws.
NotClaimed(w) ==
    /\ In(w, "start")
    /\ deliveries[key[Current(w)]].status # "sent"
    /\ ~Claimable(key[Current(w)])
    /\ Goto(w, "threw")
    /\ UNCHANGED <<jobs, window, key, deliveries, told, copies, doubts, overrun, faults>>

\* A call of w for the message of k is on its way to Slack.
Sends(w, k) == In(w, "calling") /\ key[Current(w)] = k

\* The call of w is over.
CallEnds(w) == overrun' = {k \in overrun : \E v \in Workers \ {w} : Sends(v, k)}

\* Slack has the message of the job of w, once more.
Reaches(w) ==
    /\ told' = told \cup {Current(w)}
    /\ copies' = [copies EXCEPT ![key[Current(w)]] = @ + 1]

\* Deviation: the job is completed before the row is sent.
SentUnrecorded(w) ==
    /\ In(w, "calling")
    /\ Reaches(w)
    /\ CallEnds(w)
    /\ deliveries' = SetDelivery(key[Current(w)], "failed")
    /\ Goto(w, "done")
    /\ UNCHANGED <<jobs, window, key, doubts, faults>>

\* Slack has taken the message; whoever holds the row by now, it is sent.
SendSucceeds(w) ==
    /\ In(w, "calling")
    /\ Reaches(w)
    /\ CallEnds(w)
    /\ deliveries' = SetDelivery(key[Current(w)], "sent")
    /\ Goto(w, "done")
    /\ UNCHANGED <<jobs, window, key, doubts, faults>>

\* completeJob, whoever holds the job by now.
Complete(w) ==
    /\ In(w, "done")
    /\ jobs' = CompleteJob(Current(w))
    /\ NextOfBatch(w)
    /\ UNCHANGED <<window, key, deliveries, told, copies, doubts, overrun, faults>>

\* handleJobFailure of a notification, whoever holds the job by now.  The last
\* attempt marks the row of the key as it would be computed now.
HandleJobFailure(w) ==
    LET j == Current(w)
        k == KeyIn(j, window)
    IN  /\ In(w, "threw")
        /\ IF Attempt(w) >= MaxAttempts
           THEN /\ jobs' = FailJob(j)
                /\ deliveries' = IF deliveries[k].status = "none" THEN deliveries
                                 ELSE SetDelivery(k, "dead")
           ELSE /\ jobs' = ReleaseJobForRetry(j, RetryDelay(Attempt(w)))
                /\ UNCHANGED deliveries
        /\ NextOfBatch(w)
        /\ UNCHANGED <<window, key, told, copies, doubts, overrun, faults>>

Fault == faults < MaxFaults /\ faults' = faults + 1

\* What a send without a recorded answer leaves behind: reached says whether
\* Slack has the message.
InDoubt(w, reached) ==
    IF reached
    THEN /\ Reaches(w)
         /\ doubts' = [doubts EXCEPT ![key[Current(w)]] = @ + 1]
    ELSE UNCHANGED <<told, copies, doubts>>

\* The call fails, or its answer is lost: the catch block.
SendFails(w) ==
    /\ In(w, "calling")
    /\ Fault
    /\ \E reached \in BOOLEAN : InDoubt(w, reached)
    /\ CallEnds(w)
    /\ deliveries' = SetDelivery(key[Current(w)], "failed")
    /\ Goto(w, "threw")
    /\ UNCHANGED <<jobs, window, key>>

\* The process dies and comes back with a new worker.
Crash(w) ==
    /\ worker[w] # IdleWorker
    /\ Fault
    /\ IF In(w, "calling")
       THEN \E reached \in BOOLEAN : InDoubt(w, reached)
       ELSE UNCHANGED <<told, copies, doubts>>
    /\ CallEnds(w)
    /\ worker' = [worker EXCEPT ![w] = IdleWorker]
    /\ UNCHANGED <<jobs, window, key, deliveries>>

\* Keys one of whose calls is out for longer than StuckAfter from now on.
Overdue == {k \in Keys : \E w \in Workers : Sends(w, k) /\ worker[w].age = StuckAfter}

\* Nothing bounds a call: the WebClient is made without a timeout and tries
\* again for about half an hour.
Tick ==
    /\ TimePasses(StuckAfter + 1)
    /\ deliveries' = [k \in Keys |->
                        [deliveries[k] EXCEPT !.age = IF @ <= StuckAfter THEN @ + 1 ELSE @]]
    /\ doubts' = [k \in Keys |-> IF k \in Overdue THEN doubts[k] + 1 ELSE doubts[k]]
    /\ overrun' = overrun \cup Overdue
    /\ window' \in {window, window + 1} \cap 0 .. MaxWindow
    /\ UNCHANGED <<key, told, copies, faults>>

WorkerStep(w) ==
    \/ RunCycle(w)
    \/ AlreadySent(w) \/ StartSend(w) \/ NotClaimed(w)
    \/ SendSucceeds(w) \/ Complete(w) \/ HandleJobFailure(w)

Next ==
    \/ \E j \in Jobs : Enqueue(j)
    \/ \E w \in Workers : WorkerStep(w) \/ SendFails(w) \/ Crash(w)
    \/ Tick

Spec == Init /\ [][Next]_vars

\* The loop of a worker goes on whatever happened before; time passes.
FairSpec == Spec /\ (\A w \in Workers : WF_vars(WorkerStep(w))) /\ WF_vars(Tick)

-----------------------------------------------------------------------------
(* Properties *)

\* Every variable has its type, and a worker sends only for a job it holds.
DeliveryTypeOK ==
    /\ window \in 0 .. MaxWindow
    /\ jobs \in [Jobs -> DbJob]
    /\ worker \in [Workers -> [batch: Seq(Acquired), phase: Phases, age: 0 .. StuckAfter + 1]]
    /\ \A w \in Workers : worker[w].batch = <<>> => worker[w] = IdleWorker
    /\ key \in [Jobs -> Keys]
    /\ deliveries \in [Keys -> Delivery]
    /\ told \subseteq Jobs
    /\ copies \in [Keys -> Nat]
    /\ doubts \in [Keys -> Nat]
    /\ overrun \subseteq Keys
    /\ faults \in 0 .. MaxFaults

\* A message is repeated only when it is unknown whether an earlier send has
\* arrived or will: one that failed or was cut off after Slack had taken it, or
\* one that was still out when its row passed for abandoned.  Every such moment
\* accounts for one copy at most, whatever retries, stolen jobs and the
\* recovery of stuck rows make of it (job-worker.ts:81, 1773-1911).
RepeatedOnlyInDoubt == \A k \in Keys : copies[k] <= 1 + doubts[k]

\* A completed job has told what it was queued for (job-worker.ts:1846,
\* 1891), whichever worker completed it.
CompletedWasTold == \A j \in Jobs : jobs[j].status = "completed" => j \in told

\* Two workers do not send the same message at the same time, although both
\* may hold its job (job-repository.ts:114), unless a call has been out for so
\* long that its row passed for abandoned; and when all calls that overlapped
\* it are over, they exclude each other again.
OneSender ==
    \A v, w \in Workers :
        In(v, "calling") /\ In(w, "calling") /\ key[Current(v)] = key[Current(w)]
            => v = w \/ key[Current(v)] \in overrun

\* Every job comes to rest, completed or failed, although the statements that
\* release, fail and complete it do not ask who holds it and may bring back a
\* job that another worker has completed (job-repository.ts:168-254).
JobsSettle ==
    \A j \in Jobs :
        jobs[j].status = "queued" ~> [](jobs[j].status \in {"completed", "failed"})

\* One failed call or one crash, wherever it falls, never costs a message: the
\* attempts that find the row in sending do not use up those of the job before
\* the row is found stuck (job-worker.ts:81, 1717-1744).
QueuedIsTold ==
    \A j \in Jobs : jobs[j].status = "queued" ~> (j \in told \/ faults > 1)

\* What USER_MANUAL.md says of the table, that it guarantees that nobody
\* receives a duplicate.  It does not hold: nothing fails, and a call that
\* Slack answers after 300 s has been repeated by then.
NoDuplicates == \A k \in Keys : copies[k] <= 1

\* A row is dead only after the last attempt of a job with its key.
DeadIsOwn ==
    [][\A k \in Keys : deliveries'[k].status = "dead" /\ deliveries[k].status # "dead" =>
          \E j \in Jobs : key[j] = k /\ jobs'[j].status = "failed" /\ jobs[j].status # "failed"]_vars
=============================================================================
