---------------------- MODULE NotificationDelivery_proofs ----------------------
(***************************************************************************)
(* Proofs about NotificationDelivery, for any number of jobs, keys and     *)
(* workers, any lock of a job, calls of any length and any number of       *)
(* failures and crashes.                                                   *)
(*                                                                         *)
(* OneSender rests on SendersKnown: the row of a message that is on its    *)
(* way to Slack is in sending since the call went out, or dead, so that    *)
(* nobody can claim it before it passes for abandoned.                     *)
(***************************************************************************)
EXTENDS NotificationDelivery, FiniteSetTheorems, SequenceTheorems, TLAPS

WorkerType == [batch: Seq(Acquired), phase: Phases, age: 0 .. StuckAfter + 1]

\* The rows a worker has acquired are in the table.
Held == \A w \in Workers : \A i \in DOMAIN worker[w].batch :
            jobs[worker[w].batch[i].job].status # "none"

Sending(w) == In(w, "calling")

\* What is known of the row and the age of a call.
Known(row, age) ==
    /\ age <= StuckAfter
    /\ row.status = "dead" \/ (row.status = "sending" /\ row.age = age)

SendersKnown ==
    \A w \in Workers : Sending(w) =>
        key[Current(w)] \in overrun \/ Known(deliveries[key[Current(w)]], worker[w].age)

SendInv == DeliveryTypeOK /\ Held /\ SendersKnown /\ OneSender

-----------------------------------------------------------------------------

LEMMA HoldsJob ==
    ASSUME DeliveryTypeOK, NEW w \in Workers, worker[w].batch # <<>>
    PROVE  /\ worker[w] \in WorkerType
           /\ Current(w) \in Jobs /\ Attempt(w) \in Nat \ {0}
           /\ Tail(worker[w].batch) \in Seq(Acquired)
           /\ \A i \in DOMAIN Tail(worker[w].batch) :
                 \E k \in DOMAIN worker[w].batch :
                    Tail(worker[w].batch)[i] = worker[w].batch[k]
           /\ \E k \in DOMAIN worker[w].batch : Current(w) = worker[w].batch[k].job
           /\ key[Current(w)] \in Keys
<1> DEFINE s == worker[w].batch
<1>1. worker[w] \in WorkerType
  BY DEF DeliveryTypeOK, WorkerType
<1>2. s \in Seq(Acquired) /\ s # <<>>
  BY <1>1 DEF WorkerType
<1>3. Len(s) \in Nat \ {0} /\ Head(s) = s[1] /\ DOMAIN s = 1 .. Len(s) /\ s[1] \in Acquired
  BY <1>2
<1>4. /\ Tail(s) \in Seq(Acquired) /\ DOMAIN Tail(s) = 1 .. Len(s) - 1
      /\ \A i \in 1 .. Len(s) - 1 : Tail(s)[i] = s[i + 1]
  BY <1>2, <1>3
<1>5. \A i \in DOMAIN Tail(s) : i + 1 \in DOMAIN s /\ Tail(s)[i] = s[i + 1]
  BY <1>3, <1>4
<1>6. Current(w) \in Jobs /\ Attempt(w) \in Nat \ {0} /\ Current(w) = s[1].job
  BY <1>3 DEF Current, Attempt, Acquired
<1>7. 1 \in DOMAIN s
  BY <1>3
<1>8. key[Current(w)] \in Keys
  BY <1>6 DEF DeliveryTypeOK
<1> QED
  BY <1>1, <1>4, <1>5, <1>6, <1>7, <1>8

LEMMA KeyType ==
    ASSUME NEW j \in Jobs, window \in 0 .. MaxWindow
    PROVE  KeyIn(j, window) \in Keys
  BY DeliveryConstants DEF KeyIn, Keys, Topics

LEMMA SetDeliveryType ==
    ASSUME DeliveryTypeOK, NEW k \in Keys, NEW s \in DeliveryStatus
    PROVE  /\ SetDelivery(k, s) \in [Keys -> Delivery]
           /\ SetDelivery(k, s)[k].status = s /\ SetDelivery(k, s)[k].age = 0
           /\ \A l \in Keys \ {k} : SetDelivery(k, s)[l] = deliveries[l]
<1>1. [status |-> s, age |-> 0] \in Delivery
  BY DeliveryConstants DEF Delivery
<1> QED
  BY <1>1 DEF SetDelivery, DeliveryTypeOK

LEMMA AccountsType ==
    ASSUME DeliveryTypeOK, NEW w \in Workers, Current(w) \in Jobs, key[Current(w)] \in Keys,
           \E reached \in BOOLEAN : InDoubt(w, reached)
    PROVE  told' \subseteq Jobs /\ copies' \in [Keys -> Nat] /\ doubts' \in [Keys -> Nat]
<1>0. PICK k : k = key[Current(w)]
  OBVIOUS
<1>1. told \subseteq Jobs /\ copies \in [Keys -> Nat] /\ doubts \in [Keys -> Nat]
  BY DEF DeliveryTypeOK
<1>2. CASE UNCHANGED <<told, copies, doubts>>
  BY <1>1, <1>2
<1>3. CASE Reaches(w) /\ doubts' = [doubts EXCEPT ![k] = @ + 1]
  <2>1. copies' = [copies EXCEPT ![k] = @ + 1] /\ told' = told \cup {Current(w)}
    BY <1>0, <1>3 DEF Reaches
  <2>2. copies[k] + 1 \in Nat /\ doubts[k] + 1 \in Nat
    BY <1>0, <1>1
  <2>3. copies' \in [Keys -> Nat]
    BY <1>1, <2>1, <2>2
  <2>4. doubts' \in [Keys -> Nat]
    BY <1>1, <1>3, <2>2
  <2> QED
    BY <1>1, <2>1, <2>3, <2>4
<1> QED
  BY <1>0, <1>2, <1>3 DEF InDoubt

\* What acquireNextJobs hands out are rows of the table that it locks.
LEMMA BatchType ==
    ASSUME NEW q \in Batches
    PROVE  /\ q \in Seq(Jobs)
           /\ ToSet(q) \subseteq Jobs
<1> USE QueueConstants
<1>1. PICK S \in SUBSET Runnable : q \in SetToSeqs(S)
  BY DEF Batches
<1>2. S \subseteq Jobs
  BY DEF Runnable
<1>3. IsFiniteSet(S)
  BY <1>2, FS_Subset
<1>4. Cardinality(S) \in Nat
  BY <1>3, FS_CardinalityType
<1>5. q \in [1 .. Cardinality(S) -> S]
  BY <1>1 DEF SetToSeqs
<1>6. q \in [1 .. Cardinality(S) -> Jobs]
  BY <1>2, <1>5
<1>7. q \in Seq(Jobs)
  BY <1>4, <1>6
<1> QED
  BY <1>6, <1>7 DEF ToSet

-----------------------------------------------------------------------------
(* What a step does to the worker that takes it *)

\* w has gone on in its job, or to the next, and no longer waits for Slack.
GoneOn(w) ==
    /\ worker' \in [Workers -> WorkerType]
    /\ worker'[w].batch = <<>> => worker'[w] = IdleWorker
    /\ \A i \in DOMAIN worker'[w].batch :
          \E k \in DOMAIN worker[w].batch : worker'[w].batch[i] = worker[w].batch[k]
    /\ \A v \in Workers \ {w} : worker'[v] = worker[v]

LEMMA GotoFacts ==
    ASSUME DeliveryTypeOK, NEW w \in Workers, worker[w].batch # <<>>,
           NEW phase \in Phases, Goto(w, phase)
    PROVE  /\ GoneOn(w)
           /\ worker'[w].batch = worker[w].batch
           /\ worker'[w].phase = phase /\ worker'[w].age = 0
<1>1. worker \in [Workers -> WorkerType]
  BY DEF DeliveryTypeOK, WorkerType
<1>2. worker'[w] = [worker[w] EXCEPT !.phase = phase, !.age = 0]
  BY <1>1 DEF Goto
<1>3. 0 \in 0 .. StuckAfter + 1
  BY DeliveryConstants
<1>4. /\ worker'[w] \in WorkerType
      /\ worker'[w].batch = worker[w].batch
      /\ worker'[w].phase = phase /\ worker'[w].age = 0
  BY <1>1, <1>2, <1>3 DEF WorkerType
<1>5. /\ worker' \in [Workers -> WorkerType]
      /\ \A v \in Workers \ {w} : worker'[v] = worker[v]
  BY <1>1, <1>4 DEF Goto
<1> QED
  BY <1>4, <1>5 DEF GoneOn

LEMMA NextOfBatchFacts ==
    ASSUME DeliveryTypeOK, NEW w \in Workers, worker[w].batch # <<>>, NextOfBatch(w)
    PROVE  GoneOn(w) /\ worker'[w].phase = "start"
<1>1. worker \in [Workers -> WorkerType]
  BY DEF DeliveryTypeOK, WorkerType
<1> DEFINE x == [batch |-> Tail(worker[w].batch), phase |-> "start", age |-> 0]
<1>2. x \in WorkerType
  BY HoldsJob, DeliveryConstants DEF WorkerType, Phases
<1>3. worker' = [worker EXCEPT ![w] = x]
  <2>1. [IdleWorker EXCEPT !.batch = Tail(worker[w].batch)] = x
    BY DEF IdleWorker
  <2> QED
    BY <2>1 DEF NextOfBatch
<1>4. /\ x.batch = Tail(worker[w].batch) /\ x.phase = "start"
      /\ x.batch = <<>> => x = IdleWorker
  BY DEF IdleWorker
<1>5. \A i \in DOMAIN x.batch :
         \E k \in DOMAIN worker[w].batch : x.batch[i] = worker[w].batch[k]
  BY <1>4, HoldsJob
<1> HIDE DEF x
<1>6. /\ worker' \in [Workers -> WorkerType] /\ worker'[w] = x
      /\ \A v \in Workers \ {w} : worker'[v] = worker[v]
  BY <1>1, <1>2, <1>3
<1> QED
  BY <1>4, <1>5, <1>6 DEF GoneOn

\* The end of a call ends the overrun of its key only if nobody else sends it.
LEMMA CallEndsFacts ==
    ASSUME DeliveryTypeOK, NEW w \in Workers, CallEnds(w)
    PROVE  /\ overrun' \subseteq Keys
           /\ \A v \in Workers \ {w} :
                 Sending(v) /\ key[Current(v)] \in overrun => key[Current(v)] \in overrun'
  BY DEF CallEnds, DeliveryTypeOK, Sends, Sending

\* Rows that others wait for stay as they are, or die.
LEMMA GoneOnKeeps ==
    ASSUME SendInv, DeliveryTypeOK', NEW w \in Workers, GoneOn(w), ~Sending(w)',
           key' = key,
           \A v \in Workers \ {w} :
              Sending(v) /\ key[Current(v)] \in overrun => key[Current(v)] \in overrun',
           \A j \in Jobs : jobs[j].status # "none" => jobs'[j].status # "none",
           \A k \in Keys : \/ deliveries'[k] = deliveries[k]
                           \/ deliveries'[k].status = "dead"
                           \/ Sending(w) /\ k = key[Current(w)]
    PROVE  SendInv'
<1> USE DEF SendInv
<1>1. \A v \in Workers \ {w} : worker'[v] = worker[v]
  BY DEF GoneOn
<1>2. \A v \in Workers : \A i \in DOMAIN worker[v].batch : worker[v].batch[i].job \in Jobs
  <2> SUFFICES ASSUME NEW v \in Workers, NEW i \in DOMAIN worker[v].batch
               PROVE  worker[v].batch[i].job \in Jobs
    OBVIOUS
  <2>1. worker[v].batch \in Seq(Acquired)
    BY DEF DeliveryTypeOK
  <2>2. worker[v].batch[i] \in Acquired
    BY <2>1
  <2> QED
    BY <2>2 DEF Acquired
<1>3. Held'
  BY <1>1, <1>2 DEF Held, GoneOn
<1>4. \A v \in Workers : Sending(v)' =>
         v # w /\ Sending(v) /\ worker'[v] = worker[v] /\ Current(v)' = Current(v)
  BY <1>1 DEF Sending, In, Current
<1>5. OneSender'
  <2> SUFFICES ASSUME NEW u \in Workers, NEW v \in Workers, Sending(u)', Sending(v)',
                      key[Current(u)] = key[Current(v)]
               PROVE  u = v \/ key[Current(u)] \in overrun'
    BY <1>4 DEF OneSender, Sending
  <2>1. u # w /\ v # w /\ Sending(u) /\ Sending(v)
    BY <1>4
  <2>2. u = v \/ key[Current(u)] \in overrun
    BY <2>1 DEF OneSender, Sending
  <2> QED
    BY <2>1, <2>2
<1>6. SendersKnown'
  <2> SUFFICES ASSUME NEW v \in Workers, Sending(v)', key[Current(v)] \notin overrun'
               PROVE  Known(deliveries'[key[Current(v)]], worker[v].age)
    BY <1>4 DEF SendersKnown, Known
  <2>1. v # w /\ Sending(v)
    BY <1>4
  <2>2. key[Current(v)] \in Keys /\ key[Current(v)] \notin overrun
    BY <2>1, HoldsJob DEF Sending, In
  <2>3. Sending(w) => key[Current(v)] # key[Current(w)]
    BY <2>1, <2>2 DEF OneSender, Sending
  <2> QED
    BY <2>1, <2>2, <2>3 DEF SendersKnown, Known
<1> QED
  BY <1>3, <1>5, <1>6

-----------------------------------------------------------------------------
(* The steps *)

LEMMA HandlerSteps ==
    ASSUME SendInv, NEW w \in Workers,
           \/ AlreadySent(w) \/ NotClaimed(w) \/ SendSucceeds(w) \/ SendFails(w)
    PROVE  SendInv'
<1> USE DEF SendInv
<1>1. worker[w].batch # <<>>
  BY DEF AlreadySent, NotClaimed, SendSucceeds, SendFails, In
<1>2. PICK phase \in {"done", "threw"} : Goto(w, phase)
  BY DEF AlreadySent, NotClaimed, SendSucceeds, SendFails
<1>3. GoneOn(w) /\ ~Sending(w)'
  BY <1>1, <1>2, GotoFacts DEF Phases, Sending, In
<1>4. UNCHANGED <<jobs, window, key>>
  BY DEF AlreadySent, NotClaimed, SendSucceeds, SendFails
<1>o. /\ overrun' \subseteq Keys
      /\ \A v \in Workers \ {w} :
            Sending(v) /\ key[Current(v)] \in overrun => key[Current(v)] \in overrun'
  <2>1. CASE UNCHANGED overrun
    BY <2>1 DEF DeliveryTypeOK
  <2> QED
    BY <2>1, CallEndsFacts DEF AlreadySent, NotClaimed, SendSucceeds, SendFails
<1>5. key[Current(w)] \in Keys /\ Current(w) \in Jobs
  BY <1>1, HoldsJob
<1>6. /\ told' \subseteq Jobs /\ copies' \in [Keys -> Nat]
      /\ doubts' \in [Keys -> Nat] /\ faults' \in 0 .. MaxFaults
  <2>1. ASSUME Reaches(w)
        PROVE  told' \subseteq Jobs /\ copies' \in [Keys -> Nat]
    BY <2>1, <1>5 DEF Reaches, DeliveryTypeOK
  <2>2. CASE AlreadySent(w) \/ NotClaimed(w)
    BY <2>2 DEF AlreadySent, NotClaimed, DeliveryTypeOK
  <2>3. CASE SendSucceeds(w)
    BY <2>1, <2>3 DEF SendSucceeds, DeliveryTypeOK
  <2>4. CASE SendFails(w)
    <3>1. \E reached \in BOOLEAN : InDoubt(w, reached)
      BY <2>4 DEF SendFails
    <3>2. /\ told' \subseteq Jobs /\ copies' \in [Keys -> Nat]
          /\ doubts' \in [Keys -> Nat]
      BY <3>1, <1>5, AccountsType
    <3> QED
      BY <2>4, <3>2, DeliveryConstants DEF SendFails, Fault, DeliveryTypeOK
  <2> QED
    BY <2>2, <2>3, <2>4
<1>7. /\ deliveries' \in [Keys -> Delivery]
      /\ \A k \in Keys : deliveries'[k] = deliveries[k] \/ (Sending(w) /\ k = key[Current(w)])
  <2>1. CASE UNCHANGED deliveries
    BY <2>1 DEF DeliveryTypeOK
  <2>2. ASSUME NEW s \in {"sent", "failed"}, deliveries' = SetDelivery(key[Current(w)], s),
               Sending(w)
        PROVE  <1>7
    BY <2>2, <1>5, SetDeliveryType DEF DeliveryStatus
  <2> QED
    BY <2>1, <2>2 DEF AlreadySent, NotClaimed, SendSucceeds, SendFails, Sending
<1>8. DeliveryTypeOK'
  BY <1>3, <1>4, <1>6, <1>7, <1>o DEF DeliveryTypeOK, GoneOn, WorkerType
<1> QED
  BY <1>3, <1>4, <1>7, <1>8, <1>o, GoneOnKeeps

LEMMA JobEnds ==
    ASSUME SendInv, NEW w \in Workers, Complete(w) \/ HandleJobFailure(w)
    PROVE  SendInv'
<1> USE QueueConstants DEF SendInv
<1> DEFINE j == Current(w)
           k == KeyIn(j, window)
<1>1. worker[w].batch # <<>>
  BY DEF Complete, HandleJobFailure, In
<1>2. GoneOn(w) /\ ~Sending(w)'
  BY <1>1, NextOfBatchFacts DEF Complete, HandleJobFailure, Sending, In
<1>3. UNCHANGED <<window, key, told, copies, doubts, overrun, faults>>
  BY DEF Complete, HandleJobFailure
<1>4. j \in Jobs /\ Attempt(w) \in Nat \ {0}
  BY <1>1, HoldsJob
<1>5. k \in Keys
  BY <1>4, KeyType DEF DeliveryTypeOK
<1>6. /\ jobs' \in [Jobs -> DbJob]
      /\ \A i \in Jobs : jobs[i].status # "none" => jobs'[i].status # "none"
  <2>1. CASE jobs' = CompleteJob(j) \/ jobs' = FailJob(j)
    <3>1. PICK s \in {"completed", "failed"} : jobs' = [jobs EXCEPT ![j].status = s]
      BY <2>1 DEF CompleteJob, FailJob
    <3>2. jobs \in [Jobs -> DbJob] /\ jobs[j] \in DbJob
      BY <1>4 DEF DeliveryTypeOK
    <3>3. [jobs[j] EXCEPT !.status = s] \in DbJob
      BY <3>2 DEF DbJob, JobStatus
    <3>4. [jobs[j] EXCEPT !.status = s].status # "none"
      BY <3>2 DEF DbJob
    <3> QED
      BY <3>1, <3>2, <3>3, <3>4, <1>4
  <2>2. CASE jobs' = ReleaseJobForRetry(j, RetryDelay(Attempt(w))) /\ Attempt(w) < MaxAttempts
    <3>1. RetryDelay(Attempt(w)) \in Nat
      BY <2>2, <1>4
    <3> QED
      BY <2>2, <3>1, <1>4 DEF ReleaseJobForRetry, DeliveryTypeOK, DbJob, JobStatus
  <2> QED
    BY <2>1, <2>2, <1>4 DEF Complete, HandleJobFailure
<1>7. /\ deliveries' \in [Keys -> Delivery]
      /\ \A l \in Keys : deliveries'[l] = deliveries[l] \/ deliveries'[l].status = "dead"
  <2>1. CASE UNCHANGED deliveries
    BY <2>1 DEF DeliveryTypeOK
  <2>2. CASE deliveries' = SetDelivery(k, "dead")
    <3> HIDE DEF k
    <3> QED
      BY <2>2, <1>5, SetDeliveryType DEF DeliveryStatus
  <2> QED
    BY <2>1, <2>2 DEF Complete, HandleJobFailure
<1>8. DeliveryTypeOK'
  BY <1>2, <1>3, <1>6, <1>7 DEF DeliveryTypeOK, GoneOn, WorkerType
<1> QED
  BY <1>2, <1>3, <1>6, <1>7, <1>8, GoneOnKeeps

LEMMA CrashStep ==
    ASSUME SendInv, NEW w \in Workers, Crash(w)
    PROVE  SendInv'
<1> USE DEF SendInv
<1>1. /\ UNCHANGED <<jobs, window, key, deliveries>>
      /\ worker' = [worker EXCEPT ![w] = IdleWorker]
  BY DEF Crash
<1>2. IdleWorker \in WorkerType /\ IdleWorker.batch = <<>>
  BY DeliveryConstants DEF IdleWorker, WorkerType, Phases
<1>3. worker \in [Workers -> WorkerType]
  BY DEF DeliveryTypeOK, WorkerType
<1>4. GoneOn(w) /\ ~Sending(w)'
  BY <1>1, <1>2, <1>3 DEF GoneOn, Sending, In
<1>5. /\ told' \subseteq Jobs /\ copies' \in [Keys -> Nat]
      /\ doubts' \in [Keys -> Nat] /\ faults' \in 0 .. MaxFaults
  <2>1. CASE In(w, "calling")
    <3>1. \E reached \in BOOLEAN : InDoubt(w, reached)
      BY <2>1 DEF Crash
    <3>2. Current(w) \in Jobs /\ key[Current(w)] \in Keys
      BY <2>1, HoldsJob DEF In
    <3>3. told' \subseteq Jobs /\ copies' \in [Keys -> Nat] /\ doubts' \in [Keys -> Nat]
      BY <3>1, <3>2, AccountsType
    <3> QED
      BY <3>3, DeliveryConstants DEF Crash, Fault, DeliveryTypeOK
  <2>2. CASE ~In(w, "calling")
    BY <2>2, DeliveryConstants DEF Crash, Fault, DeliveryTypeOK
  <2> QED
    BY <2>1, <2>2
<1>o. /\ overrun' \subseteq Keys
      /\ \A v \in Workers \ {w} :
            Sending(v) /\ key[Current(v)] \in overrun => key[Current(v)] \in overrun'
  BY CallEndsFacts DEF Crash
<1>6. DeliveryTypeOK'
  BY <1>1, <1>4, <1>5, <1>o DEF DeliveryTypeOK, GoneOn, WorkerType
<1> QED
  BY <1>1, <1>4, <1>6, <1>o, GoneOnKeeps

LEMMA EnqueueStep ==
    ASSUME SendInv, NEW j \in Jobs, Enqueue(j)
    PROVE  SendInv'
<1> USE DEF SendInv
<1>1. /\ UNCHANGED <<worker, window, deliveries, told, copies, doubts, overrun, faults>>
      /\ jobs' = [jobs EXCEPT ![j] = [NoJob EXCEPT !.status = "queued"]]
      /\ key' = [key EXCEPT ![j] = KeyIn(j, window)]
      /\ jobs[j].status = "none"
  BY DEF Enqueue, CreateJob
<1>2. /\ [NoJob EXCEPT !.status = "queued"] \in DbJob
      /\ [NoJob EXCEPT !.status = "queued"].status # "none"
  BY QueueConstants DEF NoJob, DbJob, JobStatus
<1>3. KeyIn(j, window) \in Keys
  BY KeyType DEF DeliveryTypeOK
<1>4. DeliveryTypeOK'
  BY <1>1, <1>2, <1>3 DEF DeliveryTypeOK
<1>5. Held'
  <2>1. \A i \in Jobs : jobs[i].status # "none" => jobs'[i].status # "none"
    BY <1>1, <1>2 DEF DeliveryTypeOK
  <2> SUFFICES ASSUME NEW v \in Workers, NEW i \in DOMAIN worker[v].batch
               PROVE  jobs'[worker[v].batch[i].job].status # "none"
    BY <1>1 DEF Held
  <2>2. worker[v].batch \in Seq(Acquired)
    BY DEF DeliveryTypeOK
  <2>3. worker[v].batch[i] \in Acquired
    BY <2>2
  <2>4. worker[v].batch[i].job \in Jobs
    BY <2>3 DEF Acquired
  <2> QED
    BY <2>1, <2>4 DEF Held
<1>6. \A v \in Workers : worker[v].batch # <<>> => key'[Current(v)] = key[Current(v)]
  <2> SUFFICES ASSUME NEW v \in Workers, worker[v].batch # <<>>
               PROVE  key'[Current(v)] = key[Current(v)]
    OBVIOUS
  <2>1. Current(v) \in Jobs /\ jobs[Current(v)].status # "none"
    BY HoldsJob DEF Held
  <2> QED
    BY <1>1, <2>1 DEF DeliveryTypeOK
<1>7. SendersKnown'
  BY <1>1, <1>6 DEF SendersKnown, Known, Sending, In, Current
<1>8. OneSender'
  BY <1>1, <1>6 DEF OneSender, In, Current
<1> QED
  BY <1>4, <1>5, <1>7, <1>8

LEMMA StartSendStep ==
    ASSUME SendInv, NEW w \in Workers, StartSend(w)
    PROVE  SendInv'
<1> USE DEF SendInv
<1>0. PICK k : k = key[Current(w)]
  OBVIOUS
<1>1. worker[w].batch # <<>>
  BY DEF StartSend, In
<1>2. k \in Keys /\ deliveries[k].status \in {"none", "failed"}
  BY <1>0, <1>1, HoldsJob DEF StartSend, Claimable
<1>3. /\ UNCHANGED <<jobs, window, key, told, copies, doubts, overrun, faults>>
      /\ deliveries' = SetDelivery(k, "sending")
  BY <1>0 DEF StartSend
<1>4. /\ GoneOn(w) /\ worker'[w].batch = worker[w].batch
      /\ worker'[w].phase = "calling" /\ worker'[w].age = 0
  BY <1>1, GotoFacts DEF StartSend, Phases
<1>5. /\ deliveries' \in [Keys -> Delivery]
      /\ deliveries'[k].status = "sending" /\ deliveries'[k].age = 0
      /\ \A l \in Keys \ {k} : deliveries'[l] = deliveries[l]
  BY <1>2, <1>3, SetDeliveryType DEF DeliveryStatus
<1>6. DeliveryTypeOK'
  BY <1>3, <1>4, <1>5 DEF DeliveryTypeOK, GoneOn, WorkerType
<1>7. \A v \in Workers \ {w} : worker'[v] = worker[v]
  BY <1>4 DEF GoneOn
<1>8. Held'
  BY <1>3, <1>4, <1>7 DEF Held
<1>9. \A v \in Workers \ {w} : Sending(v) =>
         key[Current(v)] \in Keys /\ (key[Current(v)] # k \/ k \in overrun)
  BY <1>2, HoldsJob DEF SendersKnown, Known, Sending, In
<1>10. Current(w)' = Current(w)
  BY <1>4 DEF Current
<1>11. \A v \in Workers \ {w} : Sending(v)' => Sending(v) /\ Current(v)' = Current(v)
  BY <1>7 DEF Sending, In, Current
<1>12. OneSender'
  BY <1>0, <1>3, <1>9, <1>10, <1>11 DEF OneSender, Sending
<1>13. SendersKnown'
  <2> SUFFICES ASSUME NEW v \in Workers, Sending(v)', key[Current(v)'] \notin overrun
               PROVE  Known(deliveries'[key[Current(v)']], worker'[v].age)
    BY <1>3 DEF SendersKnown, Known
  <2>1. CASE v = w
    BY <2>1, <1>0, <1>4, <1>5, <1>10, DeliveryConstants DEF Known
  <2>2. CASE v # w
    BY <2>2, <1>5, <1>7, <1>9, <1>11 DEF SendersKnown, Known
  <2> QED
    BY <2>1, <2>2
<1> QED
  BY <1>6, <1>8, <1>12, <1>13

LEMMA RunCycleStep ==
    ASSUME SendInv, NEW w \in Workers, RunCycle(w)
    PROVE  SendInv'
<1> USE DEF SendInv
<1>1. UNCHANGED <<window, key, told, copies, doubts, overrun, faults>> /\ worker[w] = IdleWorker
  BY DEF RunCycle
<1>2. PICK q \in Batches :
        /\ jobs' = [j \in Jobs |->
                      IF j \in ToSet(q)
                      THEN [jobs[j] EXCEPT !.status = "running",
                                           !.attempt_count = @ + 1,
                                           !.held = 0]
                      ELSE IF Stale(jobs[j]) THEN [jobs[j] EXCEPT !.status = "queued"]
                      ELSE jobs[j]]
        /\ worker' = [worker EXCEPT ![w].batch =
                        [i \in DOMAIN q |-> [job |-> q[i], attempt |-> jobs[q[i]].attempt_count + 1]]]
  BY DEF RunCycle, AcquireNextJobs
<1>3. q \in Seq(Jobs) /\ ToSet(q) \subseteq Jobs
  BY BatchType
<1> DEFINE b == [i \in DOMAIN q |-> [job |-> q[i], attempt |-> jobs[q[i]].attempt_count + 1]]
           x == [batch |-> b, phase |-> "start", age |-> 0]
<1>4. /\ jobs' \in [Jobs -> DbJob]
      /\ \A j \in Jobs : jobs[j].status # "none" => jobs'[j].status # "none"
      /\ \A j \in ToSet(q) : jobs'[j].status # "none"
  <2> SUFFICES ASSUME NEW j \in Jobs
               PROVE  /\ jobs'[j] \in DbJob
                      /\ jobs[j].status # "none" => jobs'[j].status # "none"
                      /\ j \in ToSet(q) => jobs'[j].status # "none"
    BY <1>2, <1>3
  <2>0. jobs[j] \in DbJob
    BY DEF DeliveryTypeOK
  <2>1. CASE j \in ToSet(q)
    <3>1. jobs'[j] = [jobs[j] EXCEPT !.status = "running", !.attempt_count = @ + 1, !.held = 0]
      BY <2>1, <1>2
    <3>2. jobs[j].attempt_count + 1 \in Nat /\ 0 \in 0 .. JobLock
      BY <2>0, QueueConstants DEF DbJob
    <3>3. jobs'[j] \in DbJob
      BY <2>0, <3>1, <3>2 DEF DbJob, JobStatus
    <3>4. jobs'[j].status = "running"
      BY <2>0, <3>1 DEF DbJob
    <3> QED
      BY <3>3, <3>4
  <2>2. CASE j \notin ToSet(q)
    BY <2>0, <2>2, <1>2 DEF DbJob, JobStatus
  <2> QED
    BY <2>1, <2>2
<1>5. b \in Seq(Acquired) /\ DOMAIN b = DOMAIN q
  <2>1. q \in [1 .. Len(q) -> Jobs] /\ Len(q) \in Nat
    BY <1>3
  <2>2. \A i \in 1 .. Len(q) : b[i] \in Acquired
    <3> SUFFICES ASSUME NEW i \in 1 .. Len(q)
                 PROVE  [job |-> q[i], attempt |-> jobs[q[i]].attempt_count + 1] \in Acquired
      BY <2>1
    <3>1. q[i] \in Jobs /\ jobs[q[i]] \in DbJob
      BY <2>1 DEF DeliveryTypeOK
    <3>2. jobs[q[i]].attempt_count + 1 \in Nat \ {0}
      BY <3>1 DEF DbJob
    <3> QED
      BY <3>1, <3>2 DEF Acquired
  <2>3. b \in [1 .. Len(q) -> Acquired]
    BY <2>1, <2>2
  <2> QED
    BY <2>1, <2>3
<1>6. \A i \in DOMAIN b : b[i].job \in ToSet(q)
  BY DEF ToSet
<1>7. worker' = [worker EXCEPT ![w] = x]
  <2>1. [worker[w] EXCEPT !.batch = b] = x
    BY <1>1 DEF IdleWorker
  <2>2. worker' = [worker EXCEPT ![w] = [worker[w] EXCEPT !.batch = b]]
    BY <1>2
  <2> QED
    BY <2>1, <2>2
<1> HIDE DEF b
<1>8. /\ x \in WorkerType /\ x.batch = b /\ x.phase = "start"
      /\ b = <<>> => x = IdleWorker
  BY <1>5, DeliveryConstants DEF WorkerType, Phases, IdleWorker
<1> HIDE DEF x
<1>9. /\ worker' \in [Workers -> WorkerType] /\ worker'[w] = x
      /\ \A v \in Workers \ {w} : worker'[v] = worker[v]
  BY <1>7, <1>8 DEF DeliveryTypeOK, WorkerType
<1>10. deliveries' \in [Keys -> Delivery]
  <2>1. [status |-> "failed", age |-> 0] \in Delivery
    BY DeliveryConstants DEF Delivery, DeliveryStatus
  <2> QED
    BY <2>1 DEF RunCycle, RecoverLeased, DeliveryTypeOK
<1>11. DeliveryTypeOK'
  BY <1>1, <1>4, <1>8, <1>9, <1>10 DEF DeliveryTypeOK, WorkerType
<1>12. Held'
  <2> SUFFICES ASSUME NEW v \in Workers, NEW i \in DOMAIN worker'[v].batch
               PROVE  jobs'[worker'[v].batch[i].job].status # "none"
    BY DEF Held
  <2>1. CASE v = w
    BY <2>1, <1>4, <1>6, <1>8, <1>9
  <2>2. CASE v # w
    <3>1. worker'[v] = worker[v] /\ worker[v].batch \in Seq(Acquired)
      BY <2>2, <1>9 DEF DeliveryTypeOK
    <3>2. worker[v].batch[i] \in Acquired
      BY <3>1
    <3>3. worker[v].batch[i].job \in Jobs
      BY <3>2 DEF Acquired
    <3> QED
      BY <3>1, <3>3, <1>4 DEF Held
  <2> QED
    BY <2>1, <2>2
<1>13. \A v \in Workers : Sending(v)' => v # w /\ Sending(v) /\ worker'[v] = worker[v]
  BY <1>8, <1>9 DEF Sending, In
<1>14. OneSender'
  BY <1>1, <1>13 DEF OneSender, Sending, In, Current
<1>15. SendersKnown'
  <2> SUFFICES ASSUME NEW v \in Workers, Sending(v)', key[Current(v)] \notin overrun
               PROVE  Known(deliveries'[key[Current(v)]], worker[v].age)
    BY <1>1, <1>13 DEF SendersKnown, Known, Current
  <2>1. Sending(v) /\ key[Current(v)] \in Keys /\ worker[v].age \in 0 .. StuckAfter + 1
    BY <1>13, HoldsJob DEF Sending, In, WorkerType
  <2>2. ~Stuck(deliveries[key[Current(v)]])
    BY <2>1, DeliveryConstants DEF SendersKnown, Known, Stuck
  <2>3. deliveries'[key[Current(v)]] = deliveries[key[Current(v)]]
    BY <2>1, <2>2 DEF RunCycle, RecoverLeased
  <2> QED
    BY <2>1, <2>3 DEF SendersKnown, Known
<1> QED
  BY <1>11, <1>12, <1>14, <1>15

\* A row in sending ages with the call of its worker until it is overdue.
LEMMA TickStep ==
    ASSUME SendInv, Tick
    PROVE  SendInv'
<1> USE QueueConstants, DeliveryConstants DEF SendInv
<1>1. UNCHANGED <<key, told, copies, faults>> /\ window' \in 0 .. MaxWindow
  BY DEF Tick
<1>a. doubts' \in [Keys -> Nat]
  BY DEF Tick, DeliveryTypeOK
<1>b. overrun' = overrun \cup Overdue /\ overrun' \subseteq Keys
  BY DEF Tick, Overdue, DeliveryTypeOK
<1>2. \A w \in Workers :
        /\ worker[w] \in WorkerType
        /\ worker'[w] = IF Sending(w)
                        THEN [worker[w] EXCEPT !.age = IF @ < StuckAfter + 1 THEN @ + 1 ELSE @]
                        ELSE worker[w]
  BY DEF Tick, TimePasses, DeliveryTypeOK, WorkerType, Sending, In
<1>3. \A w \in Workers :
        /\ worker'[w] \in WorkerType
        /\ worker'[w].batch = worker[w].batch
        /\ worker'[w].phase = worker[w].phase
        /\ Sending(w) /\ worker[w].age <= StuckAfter => worker'[w].age = worker[w].age + 1
        /\ ~Sending(w) => worker'[w] = worker[w]
  <2> SUFFICES ASSUME NEW w \in Workers
               PROVE  <1>3!(w)
    OBVIOUS
  <2>1. CASE Sending(w)
    <3>0. PICK a : a = IF worker[w].age < StuckAfter + 1 THEN worker[w].age + 1
                       ELSE worker[w].age
      OBVIOUS
    <3>1. /\ a \in 0 .. StuckAfter + 1
          /\ worker[w].age <= StuckAfter => a = worker[w].age + 1
      <4>1. worker[w].age \in 0 .. StuckAfter + 1
        BY <1>2 DEF WorkerType
      <4>2. StuckAfter \in Nat
        OBVIOUS
      <4>3. worker[w].age <= StuckAfter <=> worker[w].age < StuckAfter + 1
        BY <4>1, <4>2
      <4> QED
        BY <3>0, <4>1, <4>2, <4>3
    <3>2. worker'[w] = [worker[w] EXCEPT !.age = a] /\ worker[w] \in WorkerType
      BY <1>2, <2>1, <3>0
    <3>3. worker'[w] = [batch |-> worker[w].batch, phase |-> worker[w].phase, age |-> a]
      BY <3>2 DEF WorkerType
    <3> QED
      BY <2>1, <3>1, <3>2, <3>3 DEF WorkerType
  <2>2. CASE ~Sending(w)
    BY <1>2, <2>2
  <2> QED
    BY <2>1, <2>2
<1>4. worker' \in [Workers -> WorkerType]
  <2>1. DOMAIN worker' = Workers /\ worker' = [w \in Workers |-> worker'[w]]
    BY DEF Tick, TimePasses
  <2> QED
    BY <1>3, <2>1
<1>5. \A w \in Workers : worker'[w].batch = <<>> => worker'[w] = IdleWorker
  BY <1>3 DEF DeliveryTypeOK, Sending, In
<1>6. /\ jobs' \in [Jobs -> DbJob]
      /\ \A j \in Jobs : jobs'[j].status = jobs[j].status
  <2> SUFFICES ASSUME NEW j \in Jobs
               PROVE  jobs'[j] \in DbJob /\ jobs'[j].status = jobs[j].status
    BY DEF Tick, TimePasses
  <2>1. jobs'[j] = [jobs[j] EXCEPT !.wait = IF @ > 0 THEN @ - 1 ELSE 0,
                                   !.held = IF @ < JobLock THEN @ + 1 ELSE @]
    BY DEF Tick, TimePasses
  <2>2. jobs[j] \in DbJob
    BY DEF DeliveryTypeOK
  <2>3. /\ (IF jobs[j].wait > 0 THEN jobs[j].wait - 1 ELSE 0) \in Nat
        /\ (IF jobs[j].held < JobLock THEN jobs[j].held + 1 ELSE jobs[j].held) \in 0 .. JobLock
    BY <2>2 DEF DbJob
  <2> QED
    BY <2>1, <2>2, <2>3 DEF DbJob
<1>7. \A k \in Keys :
        /\ deliveries'[k] \in Delivery
        /\ deliveries'[k].status = deliveries[k].status
        /\ deliveries[k].age <= StuckAfter => deliveries'[k].age = deliveries[k].age + 1
  <2> SUFFICES ASSUME NEW k \in Keys
               PROVE  <1>7!(k)
    OBVIOUS
  <2>1. deliveries'[k] = [deliveries[k] EXCEPT !.age = IF @ <= StuckAfter THEN @ + 1 ELSE @]
    BY DEF Tick
  <2>2. deliveries[k] \in Delivery
    BY DEF DeliveryTypeOK
  <2>3. (IF deliveries[k].age <= StuckAfter THEN deliveries[k].age + 1 ELSE deliveries[k].age)
           \in 0 .. StuckAfter + 1
    BY <2>2 DEF Delivery
  <2> QED
    BY <2>1, <2>2, <2>3 DEF Delivery
<1>8. deliveries' \in [Keys -> Delivery]
  BY <1>7 DEF Tick
<1>9. DeliveryTypeOK'
  BY <1>1, <1>a, <1>b, <1>4, <1>5, <1>6, <1>8 DEF DeliveryTypeOK, WorkerType
<1>10. Held'
  <2> SUFFICES ASSUME NEW w \in Workers, NEW i \in DOMAIN worker[w].batch
               PROVE  jobs'[worker[w].batch[i].job].status # "none"
    BY <1>3 DEF Held
  <2>1. worker[w].batch[i] \in Acquired
    BY DEF DeliveryTypeOK
  <2>2. worker[w].batch[i].job \in Jobs
    BY <2>1 DEF Acquired
  <2> QED
    BY <1>6, <2>2 DEF Held
<1>11. \A w \in Workers : (Sending(w)' <=> Sending(w)) /\ Current(w)' = Current(w)
  BY <1>3 DEF Sending, In, Current
<1>12. OneSender'
  BY <1>1, <1>b, <1>11 DEF OneSender, Sending
<1>13. SendersKnown'
  <2> SUFFICES ASSUME NEW w \in Workers, Sending(w), key[Current(w)] \notin overrun'
               PROVE  Known(deliveries'[key[Current(w)]], worker'[w].age)
    BY <1>1, <1>11 DEF SendersKnown, Known
  <2>1. key[Current(w)] \in Keys /\ worker[w].age \in 0 .. StuckAfter + 1
    BY <1>2, HoldsJob DEF Sending, In, WorkerType
  <2>2. key[Current(w)] \notin overrun /\ worker[w].age # StuckAfter
    BY <2>1, <1>b DEF Overdue, Sends, Sending
  <2>3. Known(deliveries[key[Current(w)]], worker[w].age)
    BY <2>2 DEF SendersKnown
  <2>4. worker'[w].age = worker[w].age + 1 /\ worker[w].age + 1 <= StuckAfter
    BY <1>3, <2>1, <2>2, <2>3 DEF Known
  <2> QED
    BY <1>7, <2>1, <2>3, <2>4 DEF Known
<1> QED
  BY <1>9, <1>10, <1>12, <1>13

-----------------------------------------------------------------------------

LEMMA SendInit ==
    ASSUME Init
    PROVE  SendInv
<1> USE QueueConstants, DeliveryConstants DEF Init
<1>1. IdleWorker \in WorkerType /\ IdleWorker.batch = <<>>
  BY DEF IdleWorker, WorkerType, Phases
<1>2. NoJob \in DbJob
  BY DEF NoJob, DbJob, JobStatus
<1>3. \A j \in Jobs : KeyIn(j, 0) \in Keys
  BY KeyType
<1>4. [status |-> "none", age |-> 0] \in Delivery
  BY DEF Delivery, DeliveryStatus
<1>5. DeliveryTypeOK
  BY <1>1, <1>2, <1>3, <1>4 DEF DeliveryTypeOK, WorkerType
<1>6. \A w \in Workers : worker[w].batch = <<>>
  BY <1>1
<1>7. Held /\ SendersKnown /\ OneSender
  BY <1>6 DEF Held, SendersKnown, OneSender, Sending, In
<1> QED
  BY <1>5, <1>7 DEF SendInv

LEMMA SendNext ==
    ASSUME SendInv, [Next]_vars
    PROVE  SendInv'
<1>1. ASSUME NEW j \in Jobs, Enqueue(j) PROVE SendInv'
  BY <1>1, EnqueueStep
<1>2. ASSUME NEW w \in Workers, WorkerStep(w) \/ SendFails(w) \/ Crash(w) PROVE SendInv'
  <2>1. CASE RunCycle(w)
    BY <2>1, RunCycleStep
  <2>2. CASE AlreadySent(w) \/ NotClaimed(w) \/ SendSucceeds(w) \/ SendFails(w)
    BY <2>2, HandlerSteps
  <2>3. CASE StartSend(w)
    BY <2>3, StartSendStep
  <2>4. CASE Complete(w) \/ HandleJobFailure(w)
    BY <2>4, JobEnds
  <2>5. CASE Crash(w)
    BY <2>5, CrashStep
  <2> QED
    BY <1>2, <2>1, <2>2, <2>3, <2>4, <2>5 DEF WorkerStep
<1>3. CASE Tick
  BY <1>3, TickStep
<1>4. CASE UNCHANGED vars
  BY <1>4 DEF vars, SendInv, DeliveryTypeOK, Held, SendersKnown, Known, Sending, OneSender,
              In, Current
<1> QED
  BY <1>1, <1>2, <1>3, <1>4 DEF Next

LEMMA SendInvHolds == Spec => []SendInv
<1>1. Init => SendInv
  BY SendInit
<1>2. SendInv /\ [Next]_vars => SendInv'
  BY SendNext
<1> QED
  BY <1>1, <1>2, PTL DEF Spec

\* Rows, jobs and workers have their types, and a worker without a job waits
\* for nothing, whatever is stolen, fails or crashes.
THEOREM TypeCorrect == Spec => []DeliveryTypeOK
<1>1. SendInv => DeliveryTypeOK
  BY DEF SendInv
<1> QED
  BY <1>1, SendInvHolds, PTL

\* No two workers send the same message at the same time, however short the
\* lock of a job is, unless a call for it has been out for so long that its row
\* passed for abandoned; and when the calls that overlapped it are over, none
\* do again (job-worker.ts:81, 1773-1911, job-repository.ts:114).
THEOREM SendersExclude == Spec => []OneSender
<1>1. SendInv => OneSender
  BY DEF SendInv
<1> QED
  BY <1>1, SendInvHolds, PTL

-----------------------------------------------------------------------------
(* Repeated messages *)

Senders(k) == {w \in Workers : Sends(w, k)}

\* The call that claimed the row of k is out.
Claimed(k) ==
    /\ deliveries[k].status = "sending"
    /\ \E w \in Senders(k) : worker[w].age = deliveries[k].age

\* One more call may be made for the row of k, now or once it is found stuck,
\* without a doubt more: 1 if so.
Spare(k) ==
    IF \/ deliveries[k].status \in {"sent", "dead"}
       \/ Claimed(k) /\ deliveries[k].age <= StuckAfter
    THEN 0 ELSE 1

\* The copies of a message that have arrived, that are on their way and that
\* can still be sent are one more than the doubts about it, at most.
Accounted(k) == copies[k] + Cardinality(Senders(k)) + Spare(k) <= 1 + doubts[k]

DoubtInv == \A k \in Keys : Accounted(k)

LEMMA SendersFinite ==
    ASSUME NEW k
    PROVE  IsFiniteSet(Senders(k)) /\ Cardinality(Senders(k)) \in Nat
<1>1. IsFiniteSet(Senders(k))
  BY QueueConstants, FS_Subset DEF Senders
<1> QED
  BY <1>1, FS_CardinalityType

LEMMA SpareType ==
    ASSUME NEW k
    PROVE  Spare(k) \in {0, 1} /\ Spare(k)' \in {0, 1}
  BY DEF Spare

\* A step that neither begins nor ends a call keeps the accounts when it frees
\* no row that is sent or dead or that its sender holds.
LEMMA NothingSent ==
    ASSUME SendInv, DoubtInv, UNCHANGED <<copies, doubts>>,
           NEW k \in Keys, Senders(k)' = Senders(k), Spare(k)' = 1 => Spare(k) = 1
    PROVE  Accounted(k)'
<1>1. copies[k] \in Nat /\ doubts[k] \in Nat
  BY DEF SendInv, DeliveryTypeOK
<1>2. PICK n \in Nat : n = Cardinality(Senders(k))
  BY SendersFinite
<1>3. Spare(k)' <= Spare(k) /\ Spare(k) \in Nat /\ Spare(k)' \in Nat
  BY SpareType
<1>4. copies[k] + n + Spare(k) <= 1 + doubts[k]
  BY <1>2 DEF DoubtInv, Accounted
<1>5. copies[k] + n + Spare(k)' <= 1 + doubts[k]
  BY <1>1, <1>3, <1>4
<1> QED
  BY <1>2, <1>5 DEF Accounted

\* The senders of a key whose row is left alone and that w does not send stay.
LEMMA OthersKeep ==
    ASSUME SendInv, NEW w \in Workers, NEW k \in Keys,
           \A v \in Workers \ {w} :
              worker'[v] = worker[v] /\ (Sending(v) => key'[Current(v)] = key[Current(v)]),
           ~Sends(w, k), ~Sends(w, k)', deliveries'[k] = deliveries[k]
    PROVE  Senders(k)' = Senders(k) /\ Spare(k)' = Spare(k)
<1>1. \A v \in Workers : Sends(v, k)' <=> Sends(v, k)
  <2> SUFFICES ASSUME NEW v \in Workers \ {w}
               PROVE  Sends(v, k)' <=> Sends(v, k)
    OBVIOUS
  <2> QED
    BY DEF Sends, Sending, In, Current
<1>2. Senders(k)' = Senders(k)
  BY <1>1 DEF Senders
<1>3. \A v \in Senders(k) : worker'[v] = worker[v]
  BY DEF Senders
<1>4. Claimed(k)' <=> Claimed(k)
  BY <1>2, <1>3 DEF Claimed
<1> QED
  BY <1>2, <1>4 DEF Spare

\* A call that ends leaves its copy, or a doubt, or a row to be sent again.
LEMMA SendEnds ==
    ASSUME SendInv, DoubtInv, NEW w \in Workers, Sending(w),
           GoneOn(w), ~Sending(w)', key' = key,
           NEW k \in Keys, k = key[Current(w)],
           \A l \in Keys \ {k} : /\ deliveries'[l] = deliveries[l]
                                 /\ copies'[l] = copies[l] /\ doubts'[l] = doubts[l],
           \/ copies'[k] = copies[k] /\ doubts'[k] = doubts[k]
           \/ copies'[k] = copies[k] + 1 /\ doubts'[k] = doubts[k] + 1
           \/ /\ copies'[k] = copies[k] + 1 /\ doubts'[k] = doubts[k]
              /\ deliveries'[k].status = "sent"
    PROVE  DoubtInv'
<1>1. \A v \in Workers \ {w} : worker'[v] = worker[v]
  BY DEF GoneOn
<1>2. ASSUME NEW l \in Keys \ {k}
      PROVE  Accounted(l)'
  <2>1. Senders(l)' = Senders(l) /\ Spare(l)' = Spare(l)
    BY <1>1, OthersKeep DEF Sends, Sending
  <2>2. copies'[l] = copies[l] /\ doubts'[l] = doubts[l] /\ Accounted(l)
    BY DEF DoubtInv
  <2> QED
    BY <2>1, <2>2 DEF Accounted
<1>3. Accounted(k)'
  <2>a. ~Sends(w, k)' /\ Sends(w, k)
    BY DEF Sends, Sending
  <2>b. \A v \in Workers \ {w} : Sends(v, k)' <=> Sends(v, k)
    BY <1>1 DEF Sends, In, Current
  <2>1. Senders(k)' = Senders(k) \ {w} /\ w \in Senders(k)
    BY <2>a, <2>b DEF Senders
  <2>2. PICK n \in Nat : n = Cardinality(Senders(k))
    BY SendersFinite
  <2>3. Cardinality(Senders(k)') = n - 1
    BY <2>1, <2>2, SendersFinite, FS_RemoveElement
  <2>4. copies[k] \in Nat /\ doubts[k] \in Nat
    BY DEF SendInv, DeliveryTypeOK
  <2>5. copies[k] + n + Spare(k) <= 1 + doubts[k]
    BY <2>2 DEF DoubtInv, Accounted
  <2>6. Spare(k) \in {0, 1} /\ Spare(k)' \in {0, 1}
    BY SpareType
  <2>7. deliveries'[k].status = "sent" => Spare(k)' = 0
    BY DEF Spare
  <2>8. copies'[k] + (n - 1) + Spare(k)' <= 1 + doubts'[k]
    BY <2>4, <2>5, <2>6, <2>7
  <2> QED
    BY <2>3, <2>8 DEF Accounted
<1> QED
  BY <1>2, <1>3 DEF DoubtInv

\* What the end of a call without an answer adds, it adds on both sides.
LEMMA DoubtCounts ==
    ASSUME SendInv, NEW w \in Workers, Sending(w),
           NEW k \in Keys, k = key[Current(w)],
           \E reached \in BOOLEAN : InDoubt(w, reached)
    PROVE  /\ \/ copies'[k] = copies[k] /\ doubts'[k] = doubts[k]
              \/ copies'[k] = copies[k] + 1 /\ doubts'[k] = doubts[k] + 1
           /\ \A l \in Keys \ {k} : copies'[l] = copies[l] /\ doubts'[l] = doubts[l]
<1>1. copies \in [Keys -> Nat] /\ doubts \in [Keys -> Nat]
  BY DEF SendInv, DeliveryTypeOK
<1>2. CASE UNCHANGED <<copies, doubts>>
  BY <1>2
<1>3. CASE /\ copies' = [copies EXCEPT ![k] = @ + 1]
           /\ doubts' = [doubts EXCEPT ![k] = @ + 1]
  BY <1>1, <1>3
<1> QED
  BY <1>2, <1>3 DEF InDoubt, Reaches

LEMMA DoubtStart ==
    ASSUME SendInv, DoubtInv, NEW w \in Workers, StartSend(w)
    PROVE  DoubtInv'
<1> USE DEF SendInv
<1>0. PICK k : k = key[Current(w)]
  OBVIOUS
<1>1. /\ UNCHANGED <<key, copies, doubts>> /\ worker[w].batch # <<>>
      /\ In(w, "start") /\ Goto(w, "calling") /\ Claimable(k)
      /\ deliveries' = SetDelivery(k, "sending")
  BY <1>0 DEF StartSend, In
<1>2. k \in Keys
  BY <1>0, <1>1, HoldsJob
<1>3. /\ GoneOn(w) /\ worker'[w].batch = worker[w].batch
      /\ worker'[w].phase = "calling" /\ worker'[w].age = 0
  BY <1>1, GotoFacts DEF Phases
<1>4. /\ deliveries'[k].status = "sending" /\ deliveries'[k].age = 0
      /\ \A l \in Keys \ {k} : deliveries'[l] = deliveries[l]
  BY <1>1, <1>2, SetDeliveryType DEF DeliveryStatus
<1>5. \A v \in Workers \ {w} : worker'[v] = worker[v]
  BY <1>3 DEF GoneOn
<1>6. Current(w)' = Current(w) /\ key' = key
  BY <1>1, <1>3 DEF Current
<1>7. ASSUME NEW l \in Keys \ {k}
      PROVE  Accounted(l)'
  <2>1. Senders(l)' = Senders(l) /\ Spare(l)' = Spare(l)
    BY <1>0, <1>4, <1>5, <1>6, OthersKeep DEF Sends
  <2> QED
    BY <1>1, <2>1 DEF DoubtInv, Accounted
<1>8. Accounted(k)'
  <2>1. w \notin Senders(k)
    BY <1>1 DEF Senders, Sends, In
  <2>2. Sends(w, k)'
    BY <1>0, <1>1, <1>3, <1>6 DEF Sends, In
  <2>3. \A v \in Workers \ {w} : Sends(v, k)' <=> Sends(v, k)
    BY <1>5, <1>6 DEF Sends, In, Current
  <2>4. Senders(k)' = Senders(k) \cup {w}
    BY <2>2, <2>3 DEF Senders
  <2>5. PICK n \in Nat : n = Cardinality(Senders(k))
    BY SendersFinite
  <2>6. Cardinality(Senders(k)') = n + 1
    BY <2>1, <2>4, <2>5, SendersFinite, FS_AddElement
  <2>7. Spare(k) = 1
    BY <1>1 DEF Spare, Claimable, Claimed
  <2>8. Spare(k)' = 0
    BY <1>3, <1>4, <2>4, DeliveryConstants DEF Spare, Claimed
  <2>9. copies[k] \in Nat /\ doubts[k] \in Nat
    BY <1>2 DEF DeliveryTypeOK
  <2>10. copies[k] + n + 1 <= 1 + doubts[k]
    BY <1>2, <2>5, <2>7 DEF DoubtInv, Accounted
  <2>11. copies[k] + (n + 1) + 0 <= 1 + doubts[k]
    BY <2>9, <2>10
  <2> QED
    BY <1>1, <2>6, <2>8, <2>11 DEF Accounted
<1> QED
  BY <1>7, <1>8 DEF DoubtInv

LEMMA DoubtEnds ==
    ASSUME SendInv, DoubtInv, NEW w \in Workers,
           SendSucceeds(w) \/ SendFails(w) \/ (Crash(w) /\ Sending(w))
    PROVE  DoubtInv'
<1> USE DEF SendInv
<1>0. PICK k : k = key[Current(w)]
  OBVIOUS
<1>1. Sending(w) /\ worker[w].batch # <<>> /\ key' = key
  BY DEF SendSucceeds, SendFails, Crash, Sending, In
<1>2. k \in Keys
  BY <1>0, <1>1, HoldsJob
<1>3. CASE SendSucceeds(w)
  <2>1. /\ copies' = [copies EXCEPT ![k] = @ + 1] /\ doubts' = doubts
        /\ deliveries' = SetDelivery(k, "sent") /\ Goto(w, "done")
    BY <1>0, <1>3 DEF SendSucceeds, Reaches
  <2>2. GoneOn(w) /\ ~Sending(w)'
    BY <1>1, <2>1, GotoFacts DEF Phases, Sending, In
  <2>3. /\ deliveries'[k].status = "sent"
        /\ \A l \in Keys \ {k} : deliveries'[l] = deliveries[l]
    BY <1>2, <2>1, SetDeliveryType DEF DeliveryStatus
  <2>4. /\ copies'[k] = copies[k] + 1 /\ doubts'[k] = doubts[k]
        /\ \A l \in Keys \ {k} : copies'[l] = copies[l] /\ doubts'[l] = doubts[l]
    BY <1>2, <2>1 DEF DeliveryTypeOK
  <2> QED
    BY <1>0, <1>1, <1>2, <2>2, <2>3, <2>4, SendEnds
<1>4. CASE SendFails(w)
  <2>1. /\ \E reached \in BOOLEAN : InDoubt(w, reached)
        /\ deliveries' = SetDelivery(k, "failed") /\ Goto(w, "threw")
    BY <1>0, <1>4 DEF SendFails
  <2>2. GoneOn(w) /\ ~Sending(w)'
    BY <1>1, <2>1, GotoFacts DEF Phases, Sending, In
  <2>3. \A l \in Keys \ {k} : deliveries'[l] = deliveries[l]
    BY <1>2, <2>1, SetDeliveryType DEF DeliveryStatus
  <2> QED
    BY <1>0, <1>1, <1>2, <2>1, <2>2, <2>3, DoubtCounts, SendEnds
<1>5. CASE Crash(w) /\ Sending(w)
  <2>1. /\ \E reached \in BOOLEAN : InDoubt(w, reached)
        /\ deliveries' = deliveries /\ worker' = [worker EXCEPT ![w] = IdleWorker]
    BY <1>5 DEF Crash, Sending
  <2>2. IdleWorker \in WorkerType /\ IdleWorker.batch = <<>>
    BY DeliveryConstants DEF IdleWorker, WorkerType, Phases
  <2>3. worker \in [Workers -> WorkerType]
    BY DEF DeliveryTypeOK, WorkerType
  <2>4. GoneOn(w) /\ ~Sending(w)'
    BY <2>1, <2>2, <2>3 DEF GoneOn, Sending, In
  <2> QED
    BY <1>0, <1>1, <1>2, <2>1, <2>4, DoubtCounts, SendEnds
<1> QED
  BY <1>3, <1>4, <1>5

\* The other steps of a worker, which begin and end no call.
LEMMA DoubtElse ==
    ASSUME SendInv, DoubtInv, NEW w \in Workers,
           \/ RunCycle(w) \/ AlreadySent(w) \/ NotClaimed(w) \/ Complete(w)
           \/ HandleJobFailure(w) \/ (Crash(w) /\ ~Sending(w))
    PROVE  DoubtInv'
<1> USE DEF SendInv
<1>1. UNCHANGED <<key, copies, doubts>>
  BY DEF RunCycle, AlreadySent, NotClaimed, Complete, HandleJobFailure, Crash, Sending
<1>2. ~Sending(w) /\ ~Sending(w)' /\ \A v \in Workers \ {w} : worker'[v] = worker[v]
  <2>1. CASE RunCycle(w)
    <3>1. PICK b : worker' = [worker EXCEPT ![w].batch = b]
      BY <2>1 DEF RunCycle, AcquireNextJobs
    <3>2. worker[w] = IdleWorker /\ worker[w].phase = "start"
      BY <2>1 DEF RunCycle, IdleWorker
    <3>3. worker'[w].phase = "start"
      BY <3>1, <3>2 DEF DeliveryTypeOK
    <3> QED
      BY <3>1, <3>2, <3>3 DEF DeliveryTypeOK, Sending, In
  <2>2. CASE AlreadySent(w) \/ NotClaimed(w)
    <3>1. In(w, "start") /\ (Goto(w, "done") \/ Goto(w, "threw"))
      BY <2>2 DEF AlreadySent, NotClaimed
    <3> QED
      BY <3>1, GotoFacts DEF Phases, GoneOn, Sending, In
  <2>3. CASE Complete(w) \/ HandleJobFailure(w)
    <3>1. (In(w, "done") \/ In(w, "threw")) /\ NextOfBatch(w)
      BY <2>3 DEF Complete, HandleJobFailure
    <3> QED
      BY <3>1, NextOfBatchFacts DEF GoneOn, Sending, In
  <2>4. CASE Crash(w) /\ ~Sending(w)
    BY <2>4 DEF Crash, IdleWorker, DeliveryTypeOK, Sending, In
  <2> QED
    BY <2>1, <2>2, <2>3, <2>4
<1>3. \A k \in Keys : Senders(k)' = Senders(k)
  <2> SUFFICES ASSUME NEW k \in Keys, NEW v \in Workers
               PROVE  Sends(v, k)' <=> Sends(v, k)
    BY DEF Senders
  <2>1. CASE v = w
    BY <2>1, <1>2 DEF Sends, Sending
  <2>2. CASE v # w
    BY <2>2, <1>1, <1>2 DEF Sends, In, Current
  <2> QED
    BY <2>1, <2>2
<1>4. \A k \in Keys : \A v \in Senders(k) : worker'[v] = worker[v]
  BY <1>2 DEF Senders, Sends, Sending
<1>5. ASSUME NEW k \in Keys, Spare(k) = 0
      PROVE  Spare(k)' = 0
  <2>1. CASE deliveries'[k] = deliveries[k]
    BY <2>1, <1>3, <1>4, <1>5 DEF Spare, Claimed
  <2>2. CASE deliveries'[k].status = "dead"
    BY <2>2 DEF Spare
  <2>3. CASE RunCycle(w)
    <3>1. deliveries[k].age \in 0 .. StuckAfter + 1
      BY DEF DeliveryTypeOK, Delivery
    <3>2. ~Stuck(deliveries[k])
      BY <1>5, <3>1, DeliveryConstants DEF Spare, Stuck
    <3>3. deliveries'[k] = deliveries[k]
      BY <2>3, <3>2 DEF RunCycle, RecoverLeased
    <3> QED
      BY <3>3, <2>1
  <2>4. CASE HandleJobFailure(w)
    <3>1. PICK l : l = KeyIn(Current(w), window)
      OBVIOUS
    <3>2. l \in Keys
      BY <2>4, <3>1, HoldsJob, KeyType DEF DeliveryTypeOK, HandleJobFailure, In
    <3>3. UNCHANGED deliveries \/ deliveries' = SetDelivery(l, "dead")
      BY <2>4, <3>1 DEF HandleJobFailure
    <3>4. deliveries'[k] = deliveries[k] \/ deliveries'[k].status = "dead"
      BY <3>2, <3>3, SetDeliveryType DEF DeliveryStatus
    <3> QED
      BY <2>1, <2>2, <3>4
  <2> QED
    BY <2>1, <2>3, <2>4 DEF AlreadySent, NotClaimed, Complete, Crash
<1> QED
  BY <1>1, <1>3, <1>5, NothingSent, SpareType DEF DoubtInv

\* Time makes a row stuck whose call is out only when the call is overdue.
LEMMA DoubtTick ==
    ASSUME SendInv, DoubtInv, Tick
    PROVE  DoubtInv'
<1> USE QueueConstants, DeliveryConstants DEF SendInv
<1> SUFFICES ASSUME NEW k \in Keys
             PROVE  Accounted(k)'
  BY DEF DoubtInv
<1>1. UNCHANGED <<key, copies>>
  BY DEF Tick
<1>2. ASSUME NEW v \in Workers
      PROVE  /\ worker'[v].batch = worker[v].batch /\ worker'[v].phase = worker[v].phase
             /\ In(v, "calling") /\ worker[v].age <= StuckAfter =>
                   worker'[v].age = worker[v].age + 1
             /\ worker[v].age \in 0 .. StuckAfter + 1
  <2>1. worker[v] \in WorkerType
    BY DEF DeliveryTypeOK, WorkerType
  <2>2. worker'[v] = IF In(v, "calling")
                     THEN [worker[v] EXCEPT !.age = IF @ < StuckAfter + 1 THEN @ + 1 ELSE @]
                     ELSE worker[v]
    BY DEF Tick, TimePasses
  <2>3. worker[v].age \in 0 .. StuckAfter + 1
    BY <2>1 DEF WorkerType
  <2>4. worker[v].age <= StuckAfter <=> worker[v].age < StuckAfter + 1
    BY <2>3
  <2> QED
    BY <2>1, <2>2, <2>3, <2>4 DEF WorkerType
<1>3. Senders(k)' = Senders(k)
  <2>1. \A v \in Workers : Sends(v, k)' <=> Sends(v, k)
    BY <1>1, <1>2 DEF Sends, In, Current
  <2> QED
    BY <2>1 DEF Senders
<1>4. /\ deliveries'[k].status = deliveries[k].status
      /\ deliveries[k].age \in 0 .. StuckAfter + 1
      /\ deliveries[k].age <= StuckAfter => deliveries'[k].age = deliveries[k].age + 1
  <2>1. deliveries[k] \in Delivery
    BY DEF DeliveryTypeOK
  <2>2. deliveries'[k] = [deliveries[k] EXCEPT !.age = IF @ <= StuckAfter THEN @ + 1 ELSE @]
    BY DEF Tick
  <2> QED
    BY <2>1, <2>2 DEF Delivery
<1>5. /\ doubts[k] \in Nat /\ copies[k] \in Nat
      /\ doubts'[k] = IF k \in Overdue THEN doubts[k] + 1 ELSE doubts[k]
  BY DEF Tick, DeliveryTypeOK
<1>6. ASSUME Spare(k) = 0, k \notin Overdue
      PROVE  Spare(k)' = 0
  <2>1. CASE deliveries[k].status \in {"sent", "dead"}
    BY <2>1, <1>4 DEF Spare
  <2>2. CASE Claimed(k) /\ deliveries[k].age <= StuckAfter
    <3>1. PICK v \in Senders(k) : worker[v].age = deliveries[k].age
      BY <2>2 DEF Claimed
    <3>2. Sends(v, k) /\ In(v, "calling") /\ v \in Workers
      BY <3>1 DEF Senders, Sends
    <3>3. worker[v].age # StuckAfter
      BY <1>6, <3>2 DEF Overdue
    <3>4. deliveries'[k].age = deliveries[k].age + 1 /\ deliveries[k].age + 1 <= StuckAfter
      BY <1>4, <2>2, <3>1, <3>3
    <3>5. worker'[v].age = deliveries'[k].age
      BY <1>2, <2>2, <3>1, <3>2, <3>4
    <3>6. Claimed(k)'
      BY <1>3, <1>4, <2>2, <3>1, <3>5 DEF Claimed
    <3> QED
      BY <3>4, <3>6 DEF Spare
  <2> QED
    BY <1>6, <2>1, <2>2 DEF Spare
<1>7. PICK n \in Nat : n = Cardinality(Senders(k))
  BY SendersFinite
<1>8. copies[k] + n + Spare(k) <= 1 + doubts[k]
  BY <1>7 DEF DoubtInv, Accounted
<1>9. copies[k] + n + Spare(k)' <= 1 + doubts'[k]
  BY <1>5, <1>6, <1>8, SpareType
<1> QED
  BY <1>1, <1>3, <1>7, <1>9 DEF Accounted

LEMMA DoubtNext ==
    ASSUME SendInv, DoubtInv, [Next]_vars
    PROVE  DoubtInv'
<1>1. ASSUME NEW j \in Jobs, Enqueue(j) PROVE DoubtInv'
  <2>1. /\ UNCHANGED <<worker, deliveries, copies, doubts>> /\ jobs[j].status = "none"
        /\ key' = [key EXCEPT ![j] = KeyIn(j, window)]
    BY <1>1 DEF Enqueue
  <2>2. ASSUME NEW v \in Workers, worker[v].batch # <<>>
        PROVE  key'[Current(v)] = key[Current(v)]
    <3>1. Current(v) \in Jobs /\ jobs[Current(v)].status # "none"
      BY <2>2, HoldsJob DEF SendInv, Held
    <3> QED
      BY <2>1, <3>1 DEF SendInv, DeliveryTypeOK
  <2>3. ASSUME NEW k \in Keys
        PROVE  Senders(k)' = Senders(k) /\ Spare(k)' = Spare(k)
    <3>1. \A v \in Workers : Sends(v, k)' <=> Sends(v, k)
      BY <2>1, <2>2 DEF Sends, In, Current
    <3>2. Senders(k)' = Senders(k)
      BY <3>1 DEF Senders
    <3> QED
      BY <2>1, <3>2 DEF Spare, Claimed
  <2> QED
    BY <2>1, <2>3 DEF DoubtInv, Accounted
<1>2. ASSUME NEW w \in Workers, WorkerStep(w) \/ SendFails(w) \/ Crash(w)
      PROVE  DoubtInv'
  BY <1>2, DoubtStart, DoubtEnds, DoubtElse DEF WorkerStep
<1>3. CASE Tick
  BY <1>3, DoubtTick
<1>4. CASE UNCHANGED vars
  <2>1. UNCHANGED <<worker, key, deliveries, copies, doubts>>
    BY <1>4 DEF vars
  <2>2. ASSUME NEW k \in Keys
        PROVE  Senders(k)' = Senders(k) /\ Spare(k)' = Spare(k)
    BY <2>1 DEF Senders, Sends, In, Current, Spare, Claimed
  <2> QED
    BY <2>1, <2>2 DEF DoubtInv, Accounted
<1> QED
  BY <1>1, <1>2, <1>3, <1>4 DEF Next

\* A message reaches Slack again only after a send that failed or was cut off
\* when Slack had it, or one that was still out when its row passed for
\* abandoned, and no more often than there were such sends: retries, stolen
\* jobs and the recovery of stuck rows repeat none that is known to have
\* arrived, however long the calls take (job-worker.ts:81, 1773-1911).
THEOREM RepeatsOnlyInDoubt == Spec => []RepeatedOnlyInDoubt
<1>1. Init => DoubtInv
  <2> SUFFICES ASSUME Init, NEW k \in Keys PROVE Accounted(k)
    BY DEF DoubtInv
  <2>1. copies[k] = 0 /\ doubts[k] = 0
    BY DEF Init
  <2>2. Senders(k) = {}
    BY DEF Init, IdleWorker, Senders, Sends, In
  <2>3. Cardinality(Senders(k)) = 0
    BY <2>2, FS_EmptySet
  <2> QED
    BY <2>1, <2>3, SpareType DEF Accounted
<1>2. SendInv /\ DoubtInv /\ [Next]_vars => DoubtInv'
  BY DoubtNext
<1>3. SendInv /\ DoubtInv => RepeatedOnlyInDoubt
  <2> SUFFICES ASSUME SendInv, DoubtInv, NEW k \in Keys
               PROVE  copies[k] <= 1 + doubts[k]
    BY DEF RepeatedOnlyInDoubt
  <2>1. copies[k] \in Nat /\ doubts[k] \in Nat
    BY DEF SendInv, DeliveryTypeOK
  <2>2. PICK n \in Nat : n = Cardinality(Senders(k))
    BY SendersFinite
  <2>3. copies[k] + n + Spare(k) <= 1 + doubts[k]
    BY <2>2 DEF DoubtInv, Accounted
  <2> QED
    BY <2>1, <2>3, SpareType
<1> QED
  BY <1>1, <1>2, <1>3, SendInvHolds, PTL DEF Spec
=============================================================================
