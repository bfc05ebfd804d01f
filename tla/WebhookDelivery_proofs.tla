------------------------ MODULE WebhookDelivery_proofs ------------------------
(***************************************************************************)
(* What the lease of processDelivery excludes, for any number of calls,    *)
(* jobs, requests and crashes and for reads and leases of any length.      *)
(***************************************************************************)
EXTENDS WebhookDelivery, TLAPS

\* A call that reads holds the row's lease, dated from when it took it and
\* not run out.
Leased(c) ==
    /\ row.status = "processing"
    /\ row.lease_expires_at = call[c].since + ProcessingLease
    /\ clock < call[c].since + ProcessingLease

\* Every call that reads holds the lease, so that there is only one.
AllLeased ==
    /\ \A c \in Calls : call[c].pc = "reading" => Leased(c)
    /\ ExclusiveProcessing

\* The inductive invariant: until a read outlives its lease, and again when
\* the last read that overlapped it has ended.
LeaseInv ==
    /\ DeliveryTypeOK
    /\ \A c \in Calls : call[c].pc # "idle" /\ call[c].via = "job" => call[c].job \in JobIds
    /\ overrun \/ AllLeased

-----------------------------------------------------------------------------
(* What the calls have in common.                                          *)

LEMMA CallFields ==
    ASSUME NEW x \in Call
    PROVE  /\ x.pc \in {"idle", "entered", "reading"}
           /\ x.via \in {"route", "admin", "job"}
           /\ x.job \in JobIds \cup {NULL}
           /\ x.since \in Nat
BY DEF Call

\* A call that returns leaves everything typed, and the other calls alone.
LEMMA ReturnsType ==
    ASSUME LeaseInv, NEW c \in Calls, call[c].pc # "idle", NEW ok \in BOOLEAN,
           Returns(c, ok)
    PROVE  /\ jobs' \in [JobIds -> Job]
           /\ call' \in [Calls -> Call]
           /\ acked' \in BOOLEAN
           /\ call' = [call EXCEPT ![c] = IdleCall]
<1>1. jobs' \in [JobIds -> Job]
  <2>1. CASE call[c].via = "job"
    <3>1. call[c].job \in JobIds /\ jobs \in [JobIds -> Job]
      BY <2>1 DEF LeaseInv, DeliveryTypeOK
    <3>2. jobs' = JobAfter(call[c].job, ok)
      BY <2>1 DEF Returns
    <3> QED BY <3>1, <3>2 DEF JobAfter, Job
  <2>2. CASE call[c].via # "job"
    BY <2>2 DEF Returns, LeaseInv, DeliveryTypeOK
  <2> QED BY <2>1, <2>2
<1>2. call' \in [Calls -> Call]
  BY DEF Returns, LeaseInv, DeliveryTypeOK, IdleCall, Call
<1>3. acked' \in BOOLEAN
  BY DEF Returns, LeaseInv, DeliveryTypeOK
<1> QED BY <1>1, <1>2, <1>3 DEF Returns

\* A lease that has run out, or a row that is not under processing, means
\* that nobody reads.
LEMMA NobodyReads ==
    ASSUME LeaseInv, ~overrun,
           Acquirable(clock) \/ row.status = "processed"
           \/ (row.status = "processing" /\ row.lease_expires_at <= clock)
    PROVE  \A c \in Calls : call[c].pc # "reading"
<1> SUFFICES ASSUME NEW c \in Calls, call[c].pc = "reading"
             PROVE  FALSE
  OBVIOUS
<1>1. Leased(c)
  BY DEF LeaseInv, AllLeased
<1>2. call[c].since \in Nat /\ clock \in Nat
  BY CallFields DEF LeaseInv, DeliveryTypeOK
<1> QED BY <1>1, <1>2, DeliveryAssumption DEF Leased, Acquirable

-----------------------------------------------------------------------------
(* The invariant holds at first and is preserved.                          *)

LEMMA InitLease == Init => LeaseInv
<1> SUFFICES ASSUME Init PROVE LeaseInv
  OBVIOUS
<1>1. DeliveryTypeOK
  BY DEF Init, DeliveryTypeOK, Row, Job, Call, IdleCall
<1>2. \A c \in Calls : call[c].pc = "idle"
  BY DEF Init, IdleCall
<1> QED BY <1>1, <1>2 DEF LeaseInv, AllLeased, ExclusiveProcessing

\* A new call has yet to take the lease.
LEMMA EnterLease ==
    ASSUME LeaseInv, NEW c \in Calls, call[c].pc = "idle",
           NEW by \in {"route", "admin", "job"}, NEW j \in JobIds \cup {NULL},
           by = "job" => j \in JobIds,
           Enter(c, by, j),
           row' = row \/ (row.status = "none" /\ row' = [row EXCEPT !.status = "received"]),
           jobs' \in [JobIds -> Job], requests' \in Nat,
           UNCHANGED <<clock, kind, handled, acked, faults, overrun>>
    PROVE  LeaseInv'
<1>1. call' \in [Calls -> Call]
  BY DEF Enter, LeaseInv, DeliveryTypeOK, Call
<1>2. DeliveryTypeOK'
  BY <1>1 DEF LeaseInv, DeliveryTypeOK, Row
<1>3. /\ call'[c].pc = "entered" /\ call'[c].via = by /\ call'[c].job = j
      /\ \A d \in Calls \ {c} : call'[d] = call[d]
  BY DEF Enter, LeaseInv, DeliveryTypeOK
<1>4. ASSUME ~overrun, NEW d \in Calls, call'[d].pc = "reading"
      PROVE  call'[d] = call[d] /\ Leased(d)'
  <2>1. d # c /\ call'[d] = call[d]
    BY <1>3, <1>4
  <2>2. Leased(d)
    BY <1>4, <2>1 DEF LeaseInv, AllLeased
  <2> QED BY <2>1, <2>2 DEF Leased
<1>5. ASSUME ~overrun PROVE AllLeased'
  BY <1>4, <1>5 DEF LeaseInv, AllLeased, ExclusiveProcessing
<1> QED
  BY <1>2, <1>3, <1>5 DEF LeaseInv

\* A call that ends: its row is left alone, or closed while nobody else reads
\* or in an overrun that outlasts it.
LEMMA ReturnLease ==
    ASSUME LeaseInv, NEW c \in Calls, NEW ok \in BOOLEAN, Returns(c, ok),
           call[c].pc # "idle",
           row' \in Row,
           row' = row \/ (/\ row'.status # "processing"
                          /\ overrun' \/ \A d \in Calls \ {c} : call[d].pc # "reading"),
           handled' \in BOOLEAN, faults' \in Nat, overrun' \in BOOLEAN,
           overrun => overrun' \/ \A d \in Calls \ {c} : call[d].pc # "reading",
           UNCHANGED <<clock, kind, requests>>
    PROVE  LeaseInv'
<1>1. /\ jobs' \in [JobIds -> Job]
      /\ call' \in [Calls -> Call]
      /\ acked' \in BOOLEAN
      /\ call' = [call EXCEPT ![c] = IdleCall]
  BY ReturnsType
<1>a. row'.status = "processing" => row'.lease_expires_at # NULL
  BY DEF LeaseInv, DeliveryTypeOK
<1>2. DeliveryTypeOK'
  BY <1>1, <1>a DEF LeaseInv, DeliveryTypeOK
<1>3. call'[c].pc = "idle" /\ \A d \in Calls \ {c} : call'[d] = call[d]
  BY <1>1 DEF LeaseInv, DeliveryTypeOK, IdleCall
<1>4. ASSUME ~overrun', NEW d \in Calls, call'[d].pc = "reading"
      PROVE  call'[d] = call[d] /\ Leased(d)'
  <2>1. d # c /\ call'[d] = call[d] /\ call[d].pc = "reading"
    BY <1>3, <1>4
  <2>2. ~overrun /\ row' = row
    BY <1>4, <2>1
  <2>3. Leased(d)
    BY <2>1, <2>2 DEF LeaseInv, AllLeased
  <2> QED BY <2>1, <2>2, <2>3 DEF Leased
<1>5. ASSUME ~overrun' PROVE AllLeased'
  <2>1. ASSUME NEW d \in Calls, NEW e \in Calls,
               call'[d].pc = "reading", call'[e].pc = "reading"
        PROVE  d = e
    <3>1. d # c /\ e # c /\ call[d].pc = "reading" /\ call[e].pc = "reading"
      BY <1>3, <2>1
    <3>2. ~overrun
      BY <1>5, <3>1
    <3> QED BY <3>1, <3>2 DEF LeaseInv, AllLeased, ExclusiveProcessing
  <2> QED BY <1>4, <1>5, <2>1 DEF AllLeased, ExclusiveProcessing
<1> QED
  BY <1>2, <1>3, <1>5 DEF LeaseInv

LEMMA AcquireLeaseStep ==
    ASSUME LeaseInv, NEW c \in Calls, AcquireLease(c)
    PROVE  LeaseInv'
<1> DEFINE leased == [status |-> "processing",
                      lease_expires_at |-> clock + ProcessingLease,
                      attempt_count |-> row.attempt_count + 1]
<1>1. overrun \/ \A d \in Calls : call[d].pc # "reading"
  BY NobodyReads DEF AcquireLease
<1>2. clock \in Nat /\ row \in Row /\ ProcessingLease \in Nat /\ call[c].pc = "entered"
  BY DeliveryAssumption DEF LeaseInv, DeliveryTypeOK, AcquireLease
<1>3. leased \in Row /\ leased.lease_expires_at # NULL
  BY <1>2, DeliveryAssumption DEF Row
<1>x. overrun' = overrun /\ overrun' \in BOOLEAN
  BY DEF AcquireLease, LeaseInv, DeliveryTypeOK
<1>y. overrun' \/ \A d \in Calls \ {c} : call[d].pc # "reading"
  BY <1>1, <1>x, Zenon
<1>4. CASE kind = "membership"
  <2>1. /\ row' = leased
        /\ call' = [call EXCEPT ![c].pc = "reading", ![c].since = clock]
        /\ UNCHANGED <<jobs, handled, acked, clock, kind, requests, faults, overrun>>
    BY <1>4 DEF AcquireLease
  <2>2. call' \in [Calls -> Call]
    BY <1>2, <2>1 DEF LeaseInv, DeliveryTypeOK, Call
  <2>3. DeliveryTypeOK'
    BY <1>3, <2>1, <2>2 DEF LeaseInv, DeliveryTypeOK
  <2>4. /\ call'[c].pc = "reading" /\ call'[c].since = clock
        /\ call'[c].via = call[c].via /\ call'[c].job = call[c].job
        /\ \A d \in Calls \ {c} : call'[d] = call[d]
    BY <1>2, <2>1 DEF LeaseInv, DeliveryTypeOK, Call
  <2>5. Leased(c)'
    BY <1>2, <2>1, <2>4, DeliveryAssumption DEF Leased
  <2>6. ~overrun => \A d \in Calls : call'[d].pc = "reading" => d = c
    BY <1>1, <2>4
  <2>7. \A d \in Calls : call'[d].pc # "idle" /\ call'[d].via = "job"
                         => call'[d].job \in JobIds
    BY <1>2, <2>4 DEF LeaseInv
  <2>8. ~overrun => AllLeased'
    BY <2>5, <2>6 DEF AllLeased, ExclusiveProcessing
  <2> QED BY <1>x, <2>3, <2>7, <2>8 DEF LeaseInv
<1>5. CASE kind = "foreign"
  <2>1. /\ row' = [leased EXCEPT !.status = "failed"]
        /\ Returns(c, FALSE)
        /\ UNCHANGED <<handled, clock, kind, requests, faults, overrun>>
    BY <1>5 DEF AcquireLease
  <2>2. row' \in Row /\ row'.status # "processing"
    BY <1>2, <1>3, <2>1 DEF Row
  <2>3. handled' \in BOOLEAN /\ faults' \in Nat
    BY <2>1 DEF LeaseInv, DeliveryTypeOK
  <2> QED BY <1>1, <1>2, <1>x, <1>y, <2>1, <2>2, <2>3, ReturnLease
<1>6. CASE kind = "other"
  <2>1. /\ row' = [leased EXCEPT !.status = "processed", !.lease_expires_at = NULL]
        /\ Returns(c, TRUE) /\ handled' = TRUE
        /\ UNCHANGED <<clock, kind, requests, faults, overrun>>
    BY <1>6 DEF AcquireLease
  <2>2. row' \in Row /\ row'.status # "processing"
    BY <1>2, <1>3, <2>1 DEF Row
  <2>3. handled' \in BOOLEAN /\ faults' \in Nat
    BY <2>1 DEF LeaseInv, DeliveryTypeOK
  <2> QED BY <1>1, <1>2, <1>x, <1>y, <2>1, <2>2, <2>3, ReturnLease
<1> QED BY <1>4, <1>5, <1>6 DEF AcquireLease

LEMMA CloseStep ==
    ASSUME LeaseInv, NEW c \in Calls, FinishProcessing(c) \/ FailProcessing(c)
    PROVE  LeaseInv'
<1>1. call[c].pc = "reading" /\ ReadEnds(c)
  BY DEF FinishProcessing, FailProcessing
<1>2. /\ overrun' \in BOOLEAN
      /\ overrun' \/ \A d \in Calls \ {c} : call[d].pc # "reading"
  BY <1>1, Zenon DEF ReadEnds, LeaseInv, AllLeased, ExclusiveProcessing
<1>3. row' \in Row /\ row'.status # "processing"
  BY DEF FinishProcessing, FailProcessing, Row, LeaseInv, DeliveryTypeOK
<1>a. handled \in BOOLEAN /\ faults \in Nat
  BY DEF LeaseInv, DeliveryTypeOK
<1>b. handled' \in BOOLEAN
  BY <1>a, Zenon DEF FinishProcessing, FailProcessing
<1>4. faults' \in Nat /\ UNCHANGED <<clock, kind, requests>>
  <2>1. CASE FinishProcessing(c)
    BY <1>a, <2>1 DEF FinishProcessing
  <2>2. CASE FailProcessing(c)
    <3>1. Fault /\ UNCHANGED <<clock, kind, requests>>
      BY <2>2 DEF FailProcessing
    <3> QED BY <1>a, <3>1 DEF Fault
  <2> QED BY <2>1, <2>2
<1>5. Returns(c, TRUE) \/ Returns(c, FALSE)
  BY DEF FinishProcessing, FailProcessing
<1> QED BY <1>1, <1>2, <1>3, <1>b, <1>4, <1>5, ReturnLease

LEMMA RecoverStep ==
    ASSUME LeaseInv, RecoverStaleDelivery
    PROVE  LeaseInv'
<1>1. overrun \/ \A c \in Calls : call[c].pc # "reading"
  BY NobodyReads DEF RecoverStaleDelivery
<1>2. row' \in Row /\ row'.status # "processing"
  BY DEF RecoverStaleDelivery, LeaseInv, DeliveryTypeOK, Row
<1>3. jobs' \in [JobIds -> Job]
  <2>1. jobs \in [JobIds -> Job]
    BY DEF LeaseInv, DeliveryTypeOK
  <2>2. ASSUME NEW j \in JobIds, jobs' = [jobs EXCEPT ![j].status = "queued"]
        PROVE  jobs' \in [JobIds -> Job]
    BY <2>1, <2>2 DEF Job
  <2> QED BY <2>1, <2>2 DEF RecoverStaleDelivery, UnusedJobs
<1>4. UNCHANGED <<clock, kind, call, handled, acked, requests, faults, overrun>>
  BY DEF RecoverStaleDelivery
<1>5. DeliveryTypeOK'
  BY <1>2, <1>3, <1>4 DEF LeaseInv, DeliveryTypeOK
<1>6. ~overrun => AllLeased'
  BY <1>1, <1>4 DEF AllLeased, ExclusiveProcessing
<1> QED BY <1>4, <1>5, <1>6 DEF LeaseInv

LEMMA TickStep ==
    ASSUME LeaseInv, Tick
    PROVE  LeaseInv'
<1>1. UNCHANGED <<kind, row, jobs, call, handled, acked, requests, faults>>
  BY DEF Tick
<1>2. clock \in Nat /\ clock' = clock + 1
  BY DEF Tick, LeaseInv, DeliveryTypeOK
<1>3. overrun' \in BOOLEAN /\ (overrun => overrun')
  BY Zenon DEF Tick, LeaseInv, DeliveryTypeOK
<1>4. DeliveryTypeOK'
  BY <1>1, <1>2, <1>3 DEF LeaseInv, DeliveryTypeOK
<1>5. ASSUME ~overrun', NEW c \in Calls, call[c].pc = "reading"
      PROVE  Leased(c)'
  <2>1. Leased(c)
    BY <1>3, <1>5 DEF LeaseInv, AllLeased
  <2>2. ~(clock' >= call[c].since + ProcessingLease)
    BY <1>5, Zenon DEF Tick
  <2>3. call[c].since \in Nat /\ ProcessingLease \in Nat
    BY CallFields, DeliveryAssumption DEF LeaseInv, DeliveryTypeOK
  <2>4. clock' < call[c].since + ProcessingLease
    BY <1>2, <2>2, <2>3
  <2> QED BY <1>1, <2>1, <2>4 DEF Leased
<1>6. ~overrun' => AllLeased'
  BY <1>1, <1>3, <1>5 DEF LeaseInv, AllLeased, ExclusiveProcessing
<1> QED BY <1>1, <1>4, <1>6 DEF LeaseInv

LEMMA StepLease ==
    ASSUME LeaseInv, [Next]_vars
    PROVE  LeaseInv'
<1>1. ASSUME NEW c \in Calls, Receive(c)
      PROVE  LeaseInv'
  <2>1. CASE row.status = "processed" \/ (row.status = "processing" /\ LeaseRuns)
    <3>1. row' = row /\ UNCHANGED <<clock, kind, jobs, call, handled, faults, overrun>>
      BY <1>1, <2>1 DEF Receive
    <3>2. requests' \in Nat
      BY <1>1 DEF Receive, Request, LeaseInv, DeliveryTypeOK
    <3>3. acked' \in BOOLEAN
      BY <1>1, <2>1 DEF Receive, LeaseInv, DeliveryTypeOK
    <3>4. DeliveryTypeOK'
      BY <3>1, <3>2, <3>3 DEF LeaseInv, DeliveryTypeOK
    <3> QED BY <3>1, <3>4 DEF LeaseInv, AllLeased, ExclusiveProcessing, Leased
  <2>2. CASE ~(row.status = "processed" \/ (row.status = "processing" /\ LeaseRuns))
    <3>1. Enter(c, "route", NULL) /\ UNCHANGED <<clock, kind, jobs, handled, acked, faults, overrun>>
      BY <1>1, <2>2 DEF Receive
    <3>2. row' = row \/ (row.status = "none" /\ row' = [row EXCEPT !.status = "received"])
      BY <1>1 DEF Receive
    <3>3. requests' \in Nat /\ jobs' \in [JobIds -> Job] /\ call[c].pc = "idle"
      BY <1>1, <3>1 DEF Receive, Request, LeaseInv, DeliveryTypeOK
    <3> QED BY <3>1, <3>2, <3>3, EnterLease
  <2> QED BY <2>1, <2>2
<1>2. ASSUME NEW c \in Calls, AdminReprocess(c)
      PROVE  LeaseInv'
  <2>1. requests' \in Nat /\ jobs' \in [JobIds -> Job]
    BY <1>2 DEF AdminReprocess, Request, LeaseInv, DeliveryTypeOK
  <2> QED BY <1>2, <2>1, EnterLease DEF AdminReprocess
<1>3. ASSUME NEW c \in Calls, NEW j \in JobIds, AcquireJob(c, j)
      PROVE  LeaseInv'
  <2>1. jobs' \in [JobIds -> Job] /\ requests' \in Nat
    BY <1>3 DEF AcquireJob, LeaseInv, DeliveryTypeOK, Job
  <2> QED BY <1>3, <2>1, EnterLease DEF AcquireJob
<1>4. ASSUME NEW c \in Calls, NotAcquired(c)
      PROVE  LeaseInv'
  BY <1>4, ReturnLease DEF NotAcquired, LeaseInv, DeliveryTypeOK
<1>5. ASSUME NEW c \in Calls, AcquireLease(c)
      PROVE  LeaseInv'
  BY <1>5, AcquireLeaseStep
<1>6. ASSUME NEW c \in Calls, FinishProcessing(c) \/ FailProcessing(c)
      PROVE  LeaseInv'
  BY <1>6, CloseStep
<1>7. CASE RecoverStaleDelivery
  BY <1>7, RecoverStep
<1>8. CASE Crash
  <2>1. /\ call' = [c \in Calls |-> IdleCall]
        /\ faults' \in Nat /\ overrun' = FALSE
        /\ UNCHANGED <<clock, kind, row, jobs, handled, acked, requests>>
    BY <1>8 DEF Crash, Fault, LeaseInv, DeliveryTypeOK
  <2> QED BY <2>1 DEF LeaseInv, AllLeased, DeliveryTypeOK, ExclusiveProcessing, IdleCall, Call
<1>9. CASE Tick
  BY <1>9, TickStep
<1>10. CASE UNCHANGED vars
  BY <1>10 DEF vars, LeaseInv, AllLeased, DeliveryTypeOK, ExclusiveProcessing, Leased
<1> QED BY <1>1, <1>2, <1>3, <1>4, <1>5, <1>6, <1>7, <1>8, <1>9, <1>10 DEF Next

LEMMA LeaseHolds == Spec => []LeaseInv
<1>1. LeaseInv /\ [Next]_vars => LeaseInv'
  BY StepLease
<1> QED BY <1>1, InitLease, PTL DEF Spec

-----------------------------------------------------------------------------
\* processDelivery handles a delivery in one call at a time as long as no read
\* outlives its lease, and again when the last call that overlapped such a read
\* has ended: whatever the lengths of read and lease, and the number of
\* redeliveries, reprocess jobs, administrators and crashes.
THEOREM DeliveryExclusive == Spec => []LeaseExcludes
<1>1. LeaseInv => LeaseExcludes
  BY DEF LeaseInv, AllLeased, LeaseExcludes
<1> QED BY <1>1, LeaseHolds, PTL

\* Under the same condition the unconditional writes at the end of
\* processDelivery are harmless: a processed delivery is not opened again.
THEOREM DeliveryFinal == Spec => ProcessedIsFinal
<1>1. LeaseInv /\ [Next]_vars
         => [row.status = "processed" /\ ~overrun => row'.status = "processed"]_vars
  <2> SUFFICES ASSUME LeaseInv, Next, row.status = "processed", ~overrun
               PROVE  row'.status = "processed"
    OBVIOUS
  <2>1. \A c \in Calls : call[c].pc # "reading"
    BY NobodyReads
  <2>2. ~Acquirable(clock)
    BY DEF Acquirable
  <2>3. row' = row
    BY <2>1, <2>2
       DEF Next, Receive, AdminReprocess, NotAcquired, AcquireLease, FinishProcessing,
           FailProcessing, AcquireJob, RecoverStaleDelivery, Crash, Tick
  <2> QED BY <2>3
<1> QED BY <1>1, LeaseHolds, PTL DEF Spec, ProcessedIsFinal

-----------------------------------------------------------------------------
(* What does not depend on the lease *)

\* The row and the clock keep their types, and nothing says that the event
\* was handled before it was.
AckInv == clock \in Nat /\ row \in Row /\ AcknowledgedIsHandled

LEMMA InitAck == Init => AckInv
  BY DEF Init, AckInv, Row, AcknowledgedIsHandled

LEMMA StepAck ==
    ASSUME AckInv, [Next]_vars
    PROVE  AckInv'
<1> USE DEF AckInv, AcknowledgedIsHandled
<1>1. ASSUME NEW c \in Calls, Receive(c) \/ AdminReprocess(c) \/ NotAcquired(c)
      PROVE  AckInv'
  <2>1. CASE Receive(c)
    <3>1. /\ row' \in Row
          /\ row'.status = "processed" => row.status = "processed"
          /\ UNCHANGED <<clock, handled>>
      BY <2>1 DEF Receive, Row
    <3>2. acked' => acked \/ row.status = "processed"
      BY <2>1, Zenon DEF Receive
    <3> QED
      BY <3>1, <3>2
  <2>2. CASE AdminReprocess(c)
    BY <2>2 DEF AdminReprocess
  <2>3. CASE NotAcquired(c)
    BY <2>3 DEF NotAcquired, Returns
  <2> QED
    BY <1>1, <2>1, <2>2, <2>3
<1>2. ASSUME NEW c \in Calls, AcquireLease(c)
      PROVE  AckInv'
  <2> DEFINE leased == [status |-> "processing",
                        lease_expires_at |-> clock + ProcessingLease,
                        attempt_count |-> row.attempt_count + 1]
  <2>1. leased \in Row /\ clock' = clock /\ row.status # "processed"
    BY <1>2, DeliveryAssumption DEF AcquireLease, Acquirable, Row
  <2>2. CASE row' = leased /\ UNCHANGED <<handled, acked>>
    BY <2>1, <2>2
  <2>3. CASE row' = [leased EXCEPT !.status = "failed"] /\ UNCHANGED handled
             /\ Returns(c, FALSE)
    BY <2>1, <2>3 DEF Returns, Row
  <2>4. CASE row' = [leased EXCEPT !.status = "processed", !.lease_expires_at = NULL]
             /\ handled' = TRUE
    BY <2>1, <2>4 DEF Row
  <2> QED
    BY <1>2, <2>2, <2>3, <2>4 DEF AcquireLease
<1>3. ASSUME NEW c \in Calls, FinishProcessing(c) \/ FailProcessing(c)
      PROVE  AckInv'
  BY <1>3 DEF FinishProcessing, FailProcessing, Returns, Row
<1>4. ASSUME NEW c \in Calls, NEW j \in JobIds, AcquireJob(c, j)
      PROVE  AckInv'
  BY <1>4 DEF AcquireJob
<1>5. CASE RecoverStaleDelivery
  BY <1>5 DEF RecoverStaleDelivery, Row
<1>6. CASE Crash \/ Tick \/ UNCHANGED vars
  BY <1>6 DEF Crash, Tick, vars
<1> QED
  BY <1>1, <1>2, <1>3, <1>4, <1>5, <1>6 DEF Next

\* GitHub is answered 200, and the row says processed, only after the event
\* has been handled to its end: whatever fails or crashes, and even if the
\* read outlives the lease.
THEOREM AcknowledgedTruly == Spec => []AcknowledgedIsHandled
<1>1. AckInv => AcknowledgedIsHandled
  BY DEF AckInv
<1>2. AckInv /\ [Next]_vars => AckInv'
  BY StepAck
<1> QED
  BY <1>1, <1>2, InitAck, PTL DEF Spec

\* Rows, jobs and calls keep their types, and a row under processing has a
\* lease by which the recovery finds it.
THEOREM TypeCorrect == Spec => []DeliveryTypeOK
<1>1. LeaseInv => DeliveryTypeOK
  BY DEF LeaseInv
<1> QED
  BY <1>1, LeaseHolds, PTL
=============================================================================
