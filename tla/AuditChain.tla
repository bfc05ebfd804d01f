------------------------------ MODULE AuditChain ------------------------------
(***************************************************************************)
(* The hash chain of audit_events (audit-repository.ts).  SHA-256 of the   *)
(* canonical JSON is a record of what it covers: injective, and never the  *)
(* empty string that stands for the predecessor of the first row.          *)
(***************************************************************************)
EXTENDS Integers, Sequences

CONSTANT None  \* the previous_hash of the first row

\* Deviation: the hash does not cover the link.
EventHashAlone(event, previous) == [event |-> event, previous |-> None]

\* What the hash covers: the columns of an event and previous_hash, but not
\* created_at.
EventHash(event, previous) == [event |-> event, previous |-> previous]

LastHash(log) == IF log = <<>> THEN None ELSE log[Len(log)].event_hash

\* writeEventTx: a row on top of the last one.
WriteEvent(log, event) ==
    Append(log, [event |-> event,
                 previous_hash |-> LastHash(log),
                 event_hash |-> EventHash(event, LastHash(log)),
                 created_at |-> "insert"])

\* verifyChain: each row continues the one before and has the hash of its
\* columns.
VerifyChain(log) ==
    \A i \in DOMAIN log :
        /\ log[i].previous_hash = IF i = 1 THEN None ELSE log[i - 1].event_hash
        /\ log[i].event_hash = EventHash(log[i].event, log[i].previous_hash)

-----------------------------------------------------------------------------
(* A log whose file has been damaged *)

WithoutRow(log, i) == SubSeq(log, 1, i - 1) \o SubSeq(log, i + 1, Len(log))

\* The next row has been linked to the one before.
Relinked(log, i) ==
    [WithoutRow(log, i) EXCEPT ![i].previous_hash = IF i = 1 THEN None ELSE log[i - 1].event_hash]

Swapped(log, i, j) == [log EXCEPT ![i] = log[j], ![j] = log[i]]

\* One row is missing, perhaps with the gap closed, two have changed places,
\* or a row has the columns of another.
Damaged(log) ==
    {WithoutRow(log, i) : i \in DOMAIN log}
    \cup {Relinked(log, i) : i \in 1 .. Len(log) - 1}
    \cup {Swapped(log, i, j) : i, j \in DOMAIN log}
    \cup {[log EXCEPT ![i].event = log[j].event] : i, j \in DOMAIN log}

\* Of the copies damaged in one of these four ways only the beginnings of the
\* log pass: that the last rows are missing does not show.
DamageShows(log) ==
    \A damaged \in Damaged(log) :
        VerifyChain(damaged) => \E n \in 0 .. Len(log) : damaged = SubSeq(log, 1, n)

\* What docs/audit-log.md says: deletions show as well.
DeletionShows(log) ==
    \A i \in DOMAIN log : ~VerifyChain(WithoutRow(log, i))
=============================================================================
