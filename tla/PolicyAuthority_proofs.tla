------------------------ MODULE PolicyAuthority_proofs ------------------------
(***************************************************************************)
(* Proofs about PolicyAuthority, for any number of policies, teams and     *)
(* people, of modals and requests under way, of failures and of changes of *)
(* roles.                                                                  *)
(*                                                                         *)
(* An approval is explained by the log because every active policy is      *)
(* (ActiveExplained), an evaluation starts from active policies, and the   *)
(* rows it remembers stay explained when the policies change               *)
(* (RowsExplained): the log only grows.  It knows the versions because     *)
(* every version that is written has its event (LogTold).  Damage shows    *)
(* because the hashes of the rows differ (Distinct): a row that follows    *)
(* another has a hash that covers the other's.                             *)
(***************************************************************************)
EXTENDS PolicyAuthority, FiniteSetTheorems, SequenceTheorems, TLAPS

\* A log is a sequence of its rows.
IsLog(l) == l \in Seq({l[i] : i \in DOMAIN l})

\* Row number j is the event of the version that row names, enabled.
Explains(l, j, row) ==
    /\ l[j].event.type = "policy_updated" /\ l[j].event.enabled
    /\ l[j].event.policy = row.policy
    /\ l[j].event.version = row.version
    /\ l[j].event.limit = row.limit

Explained(l, row) == \E j \in DOMAIN l : Explains(l, j, row)

Singular ==
    \A p, q \in Policies :
        Active(p) /\ Active(q) /\ policies[p].team = policies[q].team => p = q

\* What the columns of a row that has been inserted hold.
Inserted(p) ==
    /\ policies[p].team \in Teams /\ policies[p].owner \in People
    /\ Len(policies[p].limits) > 0

PoliciesInserted ==
    \A p \in Policies :
        IF policies[p].status = "none" THEN policies[p].limits = <<>> ELSE Inserted(p)

ActiveExplained == \A p \in Policies : Active(p) => Explained(log, Row(p))

RowsExplained ==
    \A r \in Requests :
        /\ \A row \in request[r].left \cup request[r].matched : Explained(log, row)
        /\ \A row \in request[r].matched : request[r].duration <= row.limit
        /\ request[r].at = "requester" => request[r].left # {}

ValidatedInserted == \A p \in validator.left : policies[p].status # "none"

PolicyInv ==
    /\ PolicyTypeOK /\ IsLog(log) /\ VerifyChain(log)
    /\ PoliciesInserted /\ Singular /\ ActiveExplained
    /\ RowsExplained /\ ValidatedInserted /\ LogExplainsApprovals

-----------------------------------------------------------------------------
(* The log *)

\* writeEventTx adds one row at the end, linked to the last.
LEMMA WriteEventFacts ==
    ASSUME NEW l, IsLog(l), NEW e, NEW l2, l2 = WriteEvent(l, e)
    PROVE  /\ IsLog(l2)
           /\ Len(l) \in Nat /\ DOMAIN l = 1 .. Len(l)
           /\ Len(l2) = Len(l) + 1 /\ DOMAIN l2 = 1 .. Len(l) + 1
           /\ \A i \in 1 .. Len(l) : l2[i] = l[i]
           /\ l2[Len(l) + 1].event = e
           /\ l2[Len(l) + 1].previous_hash = LastHash(l)
           /\ l2[Len(l) + 1].event_hash = EventHash(e, LastHash(l))
<1> DEFINE S == {l[i] : i \in DOMAIN l}
           x == [event |-> e, previous_hash |-> LastHash(l),
                 event_hash |-> EventHash(e, LastHash(l)), created_at |-> "insert"]
           T == S \cup {x}
<1>1. l2 = Append(l, x)
  BY DEF WriteEvent
<1>2. /\ x.event = e /\ x.previous_hash = LastHash(l)
      /\ x.event_hash = EventHash(e, LastHash(l))
  OBVIOUS
<1>3. l \in Seq(S)
  BY DEF IsLog
<1> HIDE DEF x, S
<1>4. l \in Seq(T) /\ x \in T
  BY <1>3, SeqMonotonic
<1> HIDE DEF T
<1>5. /\ l2 \in Seq(T) /\ Len(l) \in Nat /\ DOMAIN l = 1 .. Len(l)
      /\ Len(l2) = Len(l) + 1
      /\ \A i \in 1 .. Len(l) : l2[i] = l[i]
      /\ l2[Len(l) + 1] = x
  BY <1>1, <1>4, AppendProperties
<1>6. DOMAIN l2 = 1 .. Len(l) + 1
  BY <1>5
<1>7. IsLog(l2)
  <2> DEFINE Q == {l2[i] : i \in DOMAIN l2}
  <2>1. \A i \in DOMAIN l2 : l2[i] \in Q
    OBVIOUS
  <2> HIDE DEF Q
  <2>2. l2 \in [1 .. Len(l2) -> Q] /\ Len(l2) \in Nat
    BY <2>1, <1>5, <1>6
  <2>3. l2 \in Seq(Q)
    BY <2>2
  <2> QED
    BY <2>3 DEF IsLog, Q
<1> QED
  BY <1>2, <1>5, <1>6, <1>7

\* A log that has grown by a row still passes verifyChain, and still explains
\* what it explained.
LEMMA LogGrows ==
    ASSUME NEW l, IsLog(l), VerifyChain(l), NEW e, NEW l2, l2 = WriteEvent(l, e)
    PROVE  /\ IsLog(l2) /\ VerifyChain(l2)
           /\ \A row : Explained(l, row) => Explained(l2, row)
<1>1. /\ IsLog(l2)
      /\ Len(l) \in Nat /\ DOMAIN l = 1 .. Len(l)
      /\ DOMAIN l2 = 1 .. Len(l) + 1
      /\ \A i \in 1 .. Len(l) : l2[i] = l[i]
      /\ l2[Len(l) + 1].event = e
      /\ l2[Len(l) + 1].previous_hash = LastHash(l)
      /\ l2[Len(l) + 1].event_hash = EventHash(e, LastHash(l))
  BY WriteEventFacts
<1>2. VerifyChain(l2)
  <2> SUFFICES ASSUME NEW i \in 1 .. Len(l) + 1
               PROVE  /\ l2[i].previous_hash = IF i = 1 THEN None ELSE l2[i - 1].event_hash
                      /\ l2[i].event_hash = EventHash(l2[i].event, l2[i].previous_hash)
    BY <1>1 DEF VerifyChain
  <2>1. CASE i \in 1 .. Len(l)
    BY <1>1, <2>1 DEF VerifyChain
  <2>2. CASE i = Len(l) + 1
    <3>1. l = <<>> <=> Len(l) = 0
      <4> DEFINE Q == {l[n] : n \in DOMAIN l}
      <4>1. l \in Seq(Q)
        BY DEF IsLog
      <4> HIDE DEF Q
      <4> QED
        BY <4>1, EmptySeq
    <3>2. LastHash(l) = IF i = 1 THEN None ELSE l2[i - 1].event_hash
      BY <1>1, <2>2, <3>1 DEF LastHash
    <3> QED
      BY <1>1, <2>2, <3>2
  <2> QED
    BY <1>1, <2>1, <2>2
<1>3. ASSUME NEW row, Explained(l, row)
      PROVE  Explained(l2, row)
  <2>1. PICK j \in DOMAIN l : Explains(l, j, row)
    BY <1>3 DEF Explained
  <2>2. l2[j] = l[j] /\ j \in DOMAIN l2
    BY <1>1
  <2> QED
    BY <2>1, <2>2 DEF Explained, Explains
<1> QED
  BY <1>1, <1>2, <1>3

-----------------------------------------------------------------------------
(* What a damaged log shows *)

\* A row has the columns that writeEventTx writes and no others.
RowShaped(x) ==
    x = [event |-> x.event, previous_hash |-> x.previous_hash,
         event_hash |-> x.event_hash, created_at |-> x.created_at]

\* No two rows have the same hash: a row covers the hash of the one before.
Distinct(l) ==
    \A i, j \in DOMAIN l : l[i].event_hash = l[j].event_hash => i = j

\* A log as writeEventTx leaves it.
Chained(l) ==
    /\ IsLog(l) /\ VerifyChain(l) /\ Distinct(l)
    /\ \A i \in DOMAIN l : RowShaped(l[i])

\* A digest is never the empty string that the first row has for a previous_hash.
HashIsNoSentinel == \A e, p : EventHash(e, p) # None

LEMMA HashInjective ==
    ASSUME NEW e1, NEW e2, NEW p1, NEW p2, EventHash(e1, p1) = EventHash(e2, p2)
    PROVE  e1 = e2 /\ p1 = p2
<1>1. /\ EventHash(e1, p1).event = e1 /\ EventHash(e2, p2).event = e2
      /\ EventHash(e1, p1).previous = p1 /\ EventHash(e2, p2).previous = p2
  BY DEF EventHash
<1> QED
  BY <1>1

LEMMA LogIsSequence ==
    ASSUME NEW l, IsLog(l)
    PROVE  /\ Len(l) \in Nat /\ DOMAIN l = 1 .. Len(l)
           /\ l = <<>> <=> Len(l) = 0
<1> DEFINE S == {l[i] : i \in DOMAIN l}
<1>1. l \in Seq(S)
  BY DEF IsLog
<1> HIDE DEF S
<1> QED
  BY <1>1, EmptySeq

LEMMA ChainedGrows ==
    ASSUME HashIsNoSentinel, NEW l, Chained(l), NEW e, NEW l2, l2 = WriteEvent(l, e)
    PROVE  Chained(l2)
<1> DEFINE n == Len(l)
<1>1. /\ n \in Nat /\ DOMAIN l = 1 .. n /\ DOMAIN l2 = 1 .. n + 1
      /\ \A i \in 1 .. n : l2[i] = l[i]
      /\ l2[n + 1].event_hash = EventHash(e, LastHash(l))
  BY WriteEventFacts DEF Chained
<1>2. IsLog(l2) /\ VerifyChain(l2)
  BY LogGrows DEF Chained
<1>3. RowShaped(l2[n + 1])
  <2> DEFINE x == [event |-> e, previous_hash |-> LastHash(l),
                   event_hash |-> EventHash(e, LastHash(l)), created_at |-> "insert"]
  <2>1. l2 = Append(l, x)
    BY DEF WriteEvent
  <2> HIDE DEF x
  <2> DEFINE S == {l[i] : i \in DOMAIN l} \cup {x}
  <2>2. l \in Seq({l[i] : i \in DOMAIN l})
    BY DEF Chained, IsLog
  <2>3. l \in Seq(S) /\ x \in S
    BY <2>2, SeqMonotonic
  <2> HIDE DEF S
  <2>4. l2[n + 1] = x
    BY <2>1, <2>3, AppendProperties
  <2>5. RowShaped(x)
    BY DEF RowShaped, x
  <2> QED
    BY <2>4, <2>5
<1>4. ASSUME NEW j \in 1 .. n, l[j].event_hash = EventHash(e, LastHash(l))
      PROVE  FALSE
  <2>1. n # 0 /\ l # <<>> /\ LastHash(l) = l[n].event_hash
    BY <1>1, <1>4, LogIsSequence DEF Chained, LastHash
  <2>2. /\ l[j].previous_hash = IF j = 1 THEN None ELSE l[j - 1].event_hash
        /\ l[j].event_hash = EventHash(l[j].event, l[j].previous_hash)
    BY <1>1, <1>4 DEF Chained, VerifyChain
  <2>3. l[j].previous_hash = l[n].event_hash
    BY <1>4, <2>1, <2>2, HashInjective
  <2>4. l[n].event_hash # None
    BY <1>1, <2>1 DEF Chained, VerifyChain, HashIsNoSentinel
  <2>5. l[j - 1].event_hash = l[n].event_hash /\ j - 1 \in 1 .. n /\ n \in 1 .. n
    BY <1>1, <2>1, <2>2, <2>3, <2>4
  <2>6. j - 1 = n
    BY <1>1, <2>5 DEF Chained, Distinct
  <2> QED
    BY <1>1, <2>6
<1>5. Distinct(l2)
  <2> SUFFICES ASSUME NEW i \in 1 .. n + 1, NEW j \in 1 .. n + 1,
                      l2[i].event_hash = l2[j].event_hash, i # j
               PROVE  FALSE
    BY <1>1 DEF Distinct
  <2>1. CASE i \in 1 .. n /\ j \in 1 .. n
    BY <1>1, <2>1 DEF Chained, Distinct
  <2>2. CASE i = n + 1 /\ j \in 1 .. n
    BY <1>1, <1>4, <2>2
  <2>3. CASE j = n + 1 /\ i \in 1 .. n
    BY <1>1, <1>4, <2>3
  <2> QED
    BY <1>1, <2>1, <2>2, <2>3
<1>6. \A i \in DOMAIN l2 : RowShaped(l2[i])
  BY <1>1, <1>3 DEF Chained
<1> QED
  BY <1>2, <1>5, <1>6 DEF Chained

LEMMA RowRemoved ==
    ASSUME NEW S, NEW l \in Seq(S), NEW i \in 1 .. Len(l)
    PROVE  /\ WithoutRow(l, i) \in Seq(S) /\ Len(WithoutRow(l, i)) = Len(l) - 1
           /\ \A j \in 1 .. i - 1 : WithoutRow(l, i)[j] = l[j]
           /\ \A j \in i .. Len(l) - 1 : WithoutRow(l, i)[j] = l[j + 1]
<1> DEFINE n == Len(l)
           a == SubSeq(l, 1, i - 1)
           b == SubSeq(l, i + 1, n)
<1>1. n \in Nat /\ \A j \in 1 .. n : l[j] \in S
  OBVIOUS
<1> HIDE DEF n
<1>2. 1 \in Int /\ i - 1 \in Int /\ i + 1 \in Int /\ n \in Int /\ i \in 1 .. n
  BY <1>1 DEF n
<1>3. (\A j \in 1 .. i - 1 : l[j] \in S) /\ (\A j \in i + 1 .. n : l[j] \in S)
  BY <1>1, <1>2
<1>4. /\ a \in Seq(S) /\ Len(a) = i - 1
      /\ \A j \in 1 .. i - 1 : a[j] = l[j]
  <2>1. /\ a \in Seq(S) /\ Len(a) = IF 1 <= i - 1 THEN i - 1 - 1 + 1 ELSE 0
        /\ \A j \in 1 .. i - 1 - 1 + 1 : a[j] = l[1 + j - 1]
    BY <1>2, <1>3, SubSeqProperties
  <2> HIDE DEF a
  <2> QED
    BY <1>1, <1>2, <2>1
<1>5. /\ b \in Seq(S) /\ Len(b) = n - i
      /\ \A j \in 1 .. n - i : b[j] = l[i + j]
  <2>1. /\ b \in Seq(S) /\ Len(b) = IF i + 1 <= n THEN n - (i + 1) + 1 ELSE 0
        /\ \A j \in 1 .. n - (i + 1) + 1 : b[j] = l[(i + 1) + j - 1]
    BY <1>2, <1>3, SubSeqProperties
  <2> HIDE DEF b
  <2> QED
    BY <1>1, <1>2, <2>1
<1>6. WithoutRow(l, i) = a \o b
  BY DEF WithoutRow, n
<1> HIDE DEF a, b
<1>7. /\ a \o b \in Seq(S) /\ Len(a \o b) = n - 1
      /\ \A j \in 1 .. n - 1 :
            (a \o b)[j] = IF j <= i - 1 THEN a[j] ELSE b[j - (i - 1)]
  <2>1. /\ a \o b \in Seq(S) /\ Len(a \o b) = Len(a) + Len(b)
        /\ \A j \in 1 .. Len(a) + Len(b) :
              (a \o b)[j] = IF j <= Len(a) THEN a[j] ELSE b[j - Len(a)]
    BY <1>4, <1>5, ConcatProperties
  <2>2. Len(a) + Len(b) = n - 1
    BY <1>2, <1>4, <1>5
  <2> QED
    BY <1>4, <2>1, <2>2
<1>8. \A j \in 1 .. i - 1 : (a \o b)[j] = l[j]
  BY <1>1, <1>2, <1>4, <1>7
<1>9. \A j \in i .. n - 1 : (a \o b)[j] = l[j + 1]
  <2> SUFFICES ASSUME NEW j \in i .. n - 1
               PROVE  (a \o b)[j] = l[j + 1]
    OBVIOUS
  <2>1. (a \o b)[j] = b[j - (i - 1)]
    <3>1. j \in 1 .. n - 1 /\ ~(j <= i - 1)
      BY <1>1, <1>2
    <3> QED
      BY <1>7, <3>1
  <2>2. j - (i - 1) \in 1 .. n - i /\ i + (j - (i - 1)) = j + 1
    BY <1>1, <1>2
  <2> QED
    BY <1>5, <2>1, <2>2
<1> QED
  BY <1>1, <1>2, <1>6, <1>7, <1>8, <1>9 DEF n

\* The predecessor of two rows tells them apart.
LEMMA LinksDiffer ==
    ASSUME HashIsNoSentinel, NEW l, Chained(l),
           NEW i \in DOMAIN l, NEW j \in DOMAIN l,
           l[j].previous_hash = IF i = 1 THEN None ELSE l[i - 1].event_hash
    PROVE  i = j
<1>1. Len(l) \in Nat /\ DOMAIN l = 1 .. Len(l)
  BY LogIsSequence DEF Chained
<1>2. l[j].previous_hash = IF j = 1 THEN None ELSE l[j - 1].event_hash
  BY DEF Chained, VerifyChain
<1>3. \A k \in DOMAIN l : l[k].event_hash # None
  BY DEF Chained, VerifyChain, HashIsNoSentinel
<1>4. CASE i = 1 \/ j = 1
  <2>1. CASE i = 1 /\ j # 1
    BY <1>1, <1>2, <1>3, <2>1
  <2>2. CASE j = 1 /\ i # 1
    BY <1>1, <1>2, <1>3, <2>2
  <2> QED
    BY <1>4, <2>1, <2>2
<1>5. CASE i # 1 /\ j # 1
  <2>1. i - 1 \in DOMAIN l /\ j - 1 \in DOMAIN l
    BY <1>1, <1>5
  <2>2. l[i - 1].event_hash = l[j - 1].event_hash
    BY <1>2, <1>5
  <2>3. i - 1 = j - 1
    BY <2>1, <2>2 DEF Chained, Distinct
  <2> QED
    BY <1>1, <2>3
<1> QED
  BY <1>4, <1>5

\* A log that lacks a row, whose rows have changed places or columns, does not
\* pass verifyChain, unless nothing has changed or the row was the last.
LEMMA ChainedShows ==
    ASSUME HashIsNoSentinel, NEW l, Chained(l)
    PROVE  DamageShows(l)
<1> DEFINE S == {l[i] : i \in DOMAIN l}
           n == Len(l)
<1>1. l \in Seq(S)
  BY DEF Chained, IsLog
<1>2. n \in Nat /\ DOMAIN l = 1 .. n
  BY LogIsSequence DEF Chained
<1>3. \A i \in DOMAIN l : l[i] \in S
  OBVIOUS
<1> HIDE DEF S
<1>4. SubSeq(l, 1, n) = l
  BY <1>1, SubSeqFull
<1> HIDE DEF n
<1>5. /\ \A i \in 1 .. n : l[i].previous_hash = IF i = 1 THEN None ELSE l[i - 1].event_hash
      /\ \A i \in 1 .. n : l[i].event_hash = EventHash(l[i].event, l[i].previous_hash)
  BY <1>2 DEF Chained, VerifyChain
<1> DEFINE Shows(d) == VerifyChain(d) => \E m \in 0 .. n : d = SubSeq(l, 1, m)
<1>6. ASSUME NEW i \in 1 .. n
      PROVE  Shows(WithoutRow(l, i))
  <2> DEFINE d == WithoutRow(l, i)
  <2>1. /\ d \in Seq(S) /\ Len(d) = n - 1
        /\ \A j \in 1 .. i - 1 : d[j] = l[j]
        /\ \A j \in i .. n - 1 : d[j] = l[j + 1]
    BY <1>1, RowRemoved DEF n
  <2> HIDE DEF d
  <2>2. DOMAIN d = 1 .. n - 1
    BY <2>1
  <2> SUFFICES ASSUME VerifyChain(d)
               PROVE  \E m \in 0 .. n : d = SubSeq(l, 1, m)
    BY DEF d
  <2>3. i = n
    <3> SUFFICES ASSUME i # n
                 PROVE  FALSE
      OBVIOUS
    <3>1. i \in DOMAIN d /\ i + 1 \in DOMAIN l /\ i \in DOMAIN l /\ d[i] = l[i + 1]
      BY <1>2, <2>1, <2>2
    <3>2. d[i].previous_hash = IF i = 1 THEN None ELSE d[i - 1].event_hash
      BY <3>1 DEF VerifyChain
    <3>3. i # 1 => d[i - 1] = l[i - 1]
      BY <1>2, <2>1
    <3>4. i = i + 1
      BY <3>1, <3>2, <3>3, LinksDiffer
    <3> QED
      BY <1>2, <3>4
  <2>4. d = SubSeq(l, 1, n - 1)
    <3>1. SubSeq(l, n + 1, n) = <<>>
      BY <1>2, SubSeqEmpty
    <3>2. d = SubSeq(l, 1, n - 1) \o <<>>
      BY <2>3, <3>1 DEF d, WithoutRow, n
    <3>3. SubSeq(l, 1, n - 1) \in Seq(S)
      BY <1>2, <1>3, SubSeqProperties
    <3> QED
      BY <3>2, <3>3, ConcatEmptySeq
  <2>5. n - 1 \in 0 .. n
    BY <1>2
  <2> QED
    BY <2>4, <2>5
<1>7. ASSUME NEW i \in 1 .. n - 1
      PROVE  ~VerifyChain(Relinked(l, i))
  <2> DEFINE w == WithoutRow(l, i)
             h == IF i = 1 THEN None ELSE l[i - 1].event_hash
             d == Relinked(l, i)
             x == l[i + 1]
  <2>1. i \in 1 .. n /\ i + 1 \in 1 .. n
    BY <1>2
  <2>2. w \in Seq(S) /\ Len(w) = n - 1 /\ w[i] = x
    <3>1. i \in i .. n - 1
      BY <1>2
    <3> QED
      BY <1>1, <2>1, <3>1, RowRemoved DEF n
  <2>3. d = [w EXCEPT ![i].previous_hash = h]
    BY DEF Relinked
  <2>4. RowShaped(x)
    BY <1>2, <2>1 DEF Chained
  <2> HIDE DEF w, d, h, x
  <2>5. DOMAIN d = 1 .. n - 1 /\ d[i] = [x EXCEPT !.previous_hash = h]
    BY <1>2, <2>2, <2>3
  <2>6. /\ d[i].event = x.event /\ d[i].event_hash = x.event_hash
        /\ d[i].previous_hash = h
    BY <2>4, <2>5 DEF RowShaped
  <2> SUFFICES ASSUME VerifyChain(d)
               PROVE  FALSE
    BY DEF d
  <2>7. x.event_hash = EventHash(x.event, h)
    BY <2>5, <2>6 DEF VerifyChain
  <2>8. x.previous_hash = h
    BY <1>5, <2>1, <2>7, HashInjective DEF x
  <2>9. i = i + 1
    BY <1>2, <2>1, <2>8, LinksDiffer DEF x, h
  <2> QED
    BY <2>1, <2>9
<1>8. ASSUME NEW i \in 1 .. n, NEW j \in 1 .. n, NEW d, d = Swapped(l, i, j), i < j
      PROVE  ~VerifyChain(d)
  <2>1. DOMAIN d = 1 .. n /\ d[i] = l[j] /\ (i # 1 => d[i - 1] = l[i - 1])
    BY <1>2, <1>8 DEF Swapped
  <2> SUFFICES ASSUME VerifyChain(d)
               PROVE  FALSE
    OBVIOUS
  <2>2. l[j].previous_hash = IF i = 1 THEN None ELSE l[i - 1].event_hash
    BY <2>1 DEF VerifyChain
  <2>3. i = j
    BY <1>2, <2>2, LinksDiffer
  <2> QED
    BY <1>8, <2>3
<1>9. ASSUME NEW i \in 1 .. n, NEW j \in 1 .. n
      PROVE  Shows(Swapped(l, i, j))
  <2>1. CASE i = j
    <3>1. Swapped(l, i, j) = l
      BY <1>1, <2>1 DEF Swapped
    <3> QED
      BY <1>2, <1>4, <3>1
  <2>2. CASE i < j
    BY <1>8, <2>2
  <2>3. CASE j < i
    <3>1. Swapped(l, i, j) = Swapped(l, j, i)
      BY <1>1, <2>3 DEF Swapped
    <3> QED
      BY <1>8, <2>3, <3>1
  <2> QED
    BY <1>2, <2>1, <2>2, <2>3
<1>10. ASSUME NEW i \in 1 .. n, NEW j \in 1 .. n
       PROVE  Shows([l EXCEPT ![i].event = l[j].event])
  <2> DEFINE d == [l EXCEPT ![i].event = l[j].event]
             x == l[i]
             e == l[j].event
  <2>1. RowShaped(x)
    BY <1>2 DEF Chained
  <2>2. l \in [1 .. n -> S]
    BY <1>1, <1>2 DEF n
  <2>3. d = [l EXCEPT ![i] = [x EXCEPT !.event = e]]
    BY <2>2
  <2> HIDE DEF d, x, e
  <2>4. DOMAIN d = 1 .. n /\ d[i] = [x EXCEPT !.event = e]
    BY <2>2, <2>3
  <2>5. d[i].event = e /\ d[i].event_hash = x.event_hash /\ d[i].previous_hash = x.previous_hash
    BY <2>1, <2>4 DEF RowShaped
  <2> SUFFICES ASSUME VerifyChain(d)
               PROVE  \E m \in 0 .. n : d = SubSeq(l, 1, m)
    BY DEF d, e
  <2>6. x.event_hash = EventHash(e, x.previous_hash)
    BY <2>4, <2>5 DEF VerifyChain
  <2>7. x.event = e
    BY <1>5, <2>6, HashInjective DEF x
  <2>8. [x EXCEPT !.event = e] = x
    BY <2>1, <2>7 DEF RowShaped
  <2>9. d = l
    BY <2>2, <2>3, <2>8 DEF x
  <2> QED
    BY <1>2, <1>4, <2>9
<1>11. ASSUME NEW d \in Damaged(l)
       PROVE  Shows(d)
  <2>1. CASE d \in {WithoutRow(l, i) : i \in DOMAIN l}
    BY <1>2, <1>6, <2>1
  <2>2. CASE d \in {Relinked(l, i) : i \in 1 .. n - 1}
    BY <1>7, <2>2
  <2>3. CASE d \in {Swapped(l, i, j) : i, j \in DOMAIN l}
    BY <1>2, <1>9, <2>3
  <2>4. CASE d \in {[l EXCEPT ![i].event = l[j].event] : i, j \in DOMAIN l}
    BY <1>2, <1>10, <2>4
  <2> HIDE DEF Shows
  <2> QED
    BY <2>1, <2>2, <2>3, <2>4 DEF Damaged, n
<1> QED
  BY <1>11 DEF DamageShows, n

-----------------------------------------------------------------------------
(* The steps *)

LEMMA PolicyInit ==
    ASSUME Init
    PROVE  PolicyInv
<1> USE PolicyConstants DEF Init
<1>1. NoPolicy \in Policy /\ NoPolicy.status = "none" /\ NoPolicy.reason = None
  BY DEF NoPolicy, Policy
<1>2. /\ NoEvaluation("idle") \in Evaluation
      /\ NoEvaluation("idle").left = {} /\ NoEvaluation("idle").matched = {}
      /\ NoEvaluation("idle").at = "idle"
  BY DEF NoEvaluation, Evaluation
<1>3. NoValidation \in [at: {"team", "org", "disable"}, left: SUBSET Policies] /\ NoValidation.left = {}
  BY DEF NoValidation
<1>4. DOMAIN log = {} /\ log = <<>>
  OBVIOUS
<1>5. PolicyTypeOK
  BY <1>1, <1>2, <1>3, <1>4 DEF PolicyTypeOK, Modal
<1>6. IsLog(log) /\ VerifyChain(log) /\ LogExplainsApprovals
  BY <1>4, EmptySeq DEF IsLog, VerifyChain, LogExplainsApprovals
<1>7. PoliciesInserted /\ Singular /\ ActiveExplained
  BY <1>1 DEF NoPolicy, PoliciesInserted, Singular, ActiveExplained, Active
<1>8. RowsExplained /\ ValidatedInserted
  BY <1>2, <1>3 DEF RowsExplained, ValidatedInserted
<1> QED
  BY <1>5, <1>6, <1>7, <1>8 DEF PolicyInv

\* Steps of modals and of GitHub that change neither policies nor the log.
LEMMA QuietSteps ==
    ASSUME PolicyInv,
           \/ \E m \in Modals : SubmitPolicy(m) \/ ReadForPolicy(m) \/ ModalFails(m)
           \/ RoleMoves
    PROVE  PolicyInv'
<1> USE PolicyConstants DEF PolicyInv
<1>1. UNCHANGED <<policies, log, request, validator>>
  BY DEF SubmitPolicy, ReadForPolicy, ModalFails, RoleMoves
<1>2. PolicyTypeOK'
  <2>1. ASSUME NEW m \in Modals, SubmitPolicy(m) PROVE PolicyTypeOK'
    <3>1. PICK f \in Fields : modal' = [modal EXCEPT ![m] = [at |-> "team", fields |-> f]]
      BY <2>1 DEF SubmitPolicy
    <3> QED
      BY <1>1, <2>1, <3>1 DEF SubmitPolicy, GitHub, PolicyTypeOK, Modal
  <2>2. ASSUME NEW m \in Modals, NEW a \in {"org", "ack", "over"}, modal[m].at # "idle",
               modal' = [modal EXCEPT ![m].at = a],
               UNCHANGED GitHub, faults' \in 0 .. MaxFaults
        PROVE  PolicyTypeOK'
    BY <1>1, <2>2 DEF GitHub, PolicyTypeOK, Modal
  <2>3. ASSUME NEW m \in Modals, ReadForPolicy(m) PROVE PolicyTypeOK'
    BY <2>2, <2>3 DEF ReadForPolicy, AfterRead, PolicyTypeOK
  <2>4. ASSUME NEW m \in Modals, ModalFails(m) PROVE PolicyTypeOK'
    <3>1. faults' \in 0 .. MaxFaults
      BY <2>4 DEF ModalFails, Fault, PolicyTypeOK
    <3> QED
      BY <2>2, <2>4, <3>1 DEF ModalFails
  <2>5. ASSUME RoleMoves PROVE PolicyTypeOK'
    <3>1. \A S \in SUBSET People, u \in People : Toggled(S, u) \in SUBSET People
      BY DEF Toggled
    <3>2. maintainers' \in [Teams -> SUBSET People] /\ admins' \in SUBSET People
      BY <2>5, <3>1 DEF RoleMoves, PolicyTypeOK
    <3>3. moves' \in 0 .. MaxMoves
      BY <2>5 DEF RoleMoves, PolicyTypeOK
    <3> QED
      BY <1>1, <2>5, <3>2, <3>3 DEF RoleMoves, PolicyTypeOK
  <2> QED
    BY <2>1, <2>3, <2>4, <2>5
<1> QED
  BY <1>1, <1>2
     DEF PoliciesInserted, Inserted, Singular, ActiveExplained, Active, Row, CurrentVersion,
         RowsExplained, ValidatedInserted, LogExplainsApprovals

\* The row of an active policy has the columns a query returns.
LEMMA RowType ==
    ASSUME PolicyInv, NEW p \in Policies, Active(p)
    PROVE  Row(p) \in Rows
<1>1. policies[p].limits \in Seq(Durations) /\ Len(policies[p].limits) > 0
  BY DEF PolicyInv, PolicyTypeOK, Policy, PoliciesInserted, Inserted, Active
<1>2. /\ Len(policies[p].limits) \in Nat
      /\ policies[p].limits[Len(policies[p].limits)] \in Durations
  BY <1>1
<1> QED
  BY <1>2 DEF Row, Rows, CurrentVersion

\* An evaluation that goes on keeps the rows it has read, or forgets some.
LEMMA EvaluationKeeps ==
    ASSUME PolicyInv, NEW r \in Requests, NEW e \in Evaluation,
           request' = [request EXCEPT ![r] = e],
           \A row \in e.left \cup e.matched : Explained(log, row),
           \A row \in e.matched : e.duration <= row.limit,
           e.at = "requester" => e.left # {},
           UNCHANGED <<policies, log, GitHub, modal, validator>>,
           faults' \in 0 .. MaxFaults
    PROVE  PolicyInv'
<1> USE DEF PolicyInv
<1>1. request \in [Requests -> Evaluation]
  BY DEF PolicyTypeOK
<1>2. /\ request' \in [Requests -> Evaluation] /\ request'[r] = e
      /\ \A s \in Requests \ {r} : request'[s] = request[s]
  BY <1>1
<1>3. PolicyTypeOK'
  BY <1>2 DEF PolicyTypeOK, GitHub
<1>4. RowsExplained'
  BY <1>2 DEF RowsExplained
<1> QED
  BY <1>3, <1>4
     DEF PoliciesInserted, Inserted, Singular, ActiveExplained, Active, Row, CurrentVersion,
         ValidatedInserted, LogExplainsApprovals

LEMMA EvaluationSteps ==
    ASSUME PolicyInv, NEW r \in Requests,
           \/ SubmitRequest(r) \/ ReadOwner(r) \/ ReadRequester(r) \/ EvaluationFails(r)
           \/ NoMatch(r) \/ AutoApproveFails(r)
    PROVE  PolicyInv'
<1> USE DEF PolicyInv
<1>0. request[r] \in Evaluation /\ faults \in 0 .. MaxFaults
  BY DEF PolicyTypeOK
<1>1. CASE SubmitRequest(r)
  <2>1. PICK t \in Teams, d \in Durations :
          request' = [request EXCEPT ![r] =
             [at |-> "owner", team |-> t, duration |-> d,
              left |-> {Row(p) : p \in ActivePoliciesForTeam(t)}, matched |-> {}]]
    BY <1>1 DEF SubmitRequest
  <2> DEFINE rows == {Row(p) : p \in ActivePoliciesForTeam(t)}
             e == [at |-> "owner", team |-> t, duration |-> d, left |-> rows, matched |-> {}]
  <2>2. \A row \in rows : row \in Rows /\ Explained(log, row)
    BY RowType DEF ActivePoliciesForTeam, ActiveExplained
  <2> HIDE DEF rows
  <2>3. e \in Evaluation /\ e.left = rows /\ e.matched = {} /\ e.at = "owner"
    BY <2>2 DEF Evaluation
  <2>4. request' = [request EXCEPT ![r] = e]
    BY <2>1 DEF rows
  <2> HIDE DEF e
  <2> QED
    BY <1>0, <1>1, <2>2, <2>3, <2>4, EvaluationKeeps DEF SubmitRequest
<1>2. ASSUME NEW e \in Evaluation, request' = [request EXCEPT ![r] = e],
             e.left \subseteq request[r].left,
             \A row \in e.matched : \/ row \in request[r].matched
                                    \/ row \in request[r].left /\ e.duration <= row.limit,
             e.duration = request[r].duration \/ e.matched = {},
             e.at = "requester" => e.left # {},
             UNCHANGED <<policies, log, GitHub, modal, validator>>,
             faults' \in 0 .. MaxFaults
      PROVE  PolicyInv'
  <2>1. \A row \in e.left \cup e.matched : Explained(log, row)
    BY <1>2 DEF RowsExplained
  <2>2. \A row \in e.matched : e.duration <= row.limit
    BY <1>2 DEF RowsExplained
  <2> QED
    BY <1>2, <2>1, <2>2, EvaluationKeeps
<1>3. ASSUME request[r].left # {}
      PROVE  FirstOf(request[r].left) \in request[r].left
  BY <1>3 DEF FirstOf
<1> DEFINE first == FirstOf(request[r].left)
           went(at) == [request[r] EXCEPT !.at = at]
           without == [request[r] EXCEPT !.at = "owner", !.left = @ \ {first}]
<1>4. /\ went("requester") \in Evaluation /\ went("requester").at = "requester"
      /\ went("requester").left = request[r].left
      /\ went("requester").matched = request[r].matched
      /\ went("requester").duration = request[r].duration
  BY <1>0 DEF Evaluation
<1>5. /\ without \in Evaluation /\ without.at = "owner"
      /\ without.left = request[r].left \ {first}
      /\ without.matched = request[r].matched
      /\ without.duration = request[r].duration
  BY <1>0 DEF Evaluation
<1>6. CASE ReadOwner(r)
  <2>1. request' = [request EXCEPT ![r] =
             IF Says("team", request[r].team, policies[first.policy].owner)
             THEN went("requester")
             ELSE [request[r] EXCEPT !.left = @ \ {first}]]
    BY <1>6 DEF ReadOwner
  <2>2. [request[r] EXCEPT !.left = @ \ {first}] = without
    BY <1>0, <1>6 DEF ReadOwner, Evaluation
  <2>3. request[r].left # {} /\ faults' \in 0 .. MaxFaults
        /\ UNCHANGED <<policies, log, GitHub, modal, validator>>
    BY <1>0, <1>6 DEF ReadOwner
  <2> HIDE DEF went, without
  <2>4. request' = [request EXCEPT ![r] = went("requester")]
        \/ request' = [request EXCEPT ![r] = without]
    BY <2>1, <2>2
  <2> QED
    BY <1>2, <1>4, <1>5, <2>3, <2>4
<1>7. CASE ReadRequester(r)
  <2>1. PICK fits \in BOOLEAN :
          request' = [request EXCEPT ![r] =
             [request[r] EXCEPT !.at = "owner", !.left = @ \ {first},
                  !.matched = @ \cup {x \in {first} : fits /\ Fit(first, request[r].duration)}]]
    BY <1>7 DEF ReadRequester
  <2> DEFINE found == {x \in {first} : fits /\ Fit(first, request[r].duration)}
             e == [request[r] EXCEPT !.at = "owner", !.left = @ \ {first},
                                     !.matched = @ \cup found]
  <2>2. first \in request[r].left
    BY <1>3, <1>7 DEF ReadRequester, RowsExplained
  <2>3. found \subseteq {first} /\ \A row \in found : request[r].duration <= row.limit
    BY DEF Fit
  <2> HIDE DEF found
  <2>4. found \subseteq Rows
    BY <1>0, <2>2, <2>3 DEF Evaluation
  <2>5. /\ e \in Evaluation /\ e.at = "owner" /\ e.left = request[r].left \ {first}
        /\ e.matched = request[r].matched \cup found /\ e.duration = request[r].duration
    BY <1>0, <2>4 DEF Evaluation
  <2>6. request' = [request EXCEPT ![r] = e]
    BY <2>1 DEF found
  <2> HIDE DEF e, first
  <2>7. \A row \in e.matched : \/ row \in request[r].matched
                               \/ row \in request[r].left /\ e.duration <= row.limit
    BY <2>2, <2>3, <2>5
  <2> QED
    BY <1>0, <1>2, <1>7, <2>5, <2>6, <2>7 DEF ReadRequester
<1>8. CASE EvaluationFails(r)
  <2>1. request' = [request EXCEPT ![r] = without]
    BY <1>8 DEF EvaluationFails
  <2>2. faults' \in 0 .. MaxFaults
    BY <1>0, <1>8, PolicyConstants DEF EvaluationFails, Fault
  <2> HIDE DEF without
  <2> QED
    BY <1>2, <1>5, <1>8, <2>1, <2>2 DEF EvaluationFails
<1>9. CASE NoMatch(r)
  <2>1. /\ NoEvaluation("over") \in Evaluation /\ NoEvaluation("over").at = "over"
        /\ NoEvaluation("over").left = {} /\ NoEvaluation("over").matched = {}
    BY DEF NoEvaluation, Evaluation
  <2> QED
    BY <1>0, <1>2, <1>9, <2>1 DEF NoMatch
<1>10. CASE AutoApproveFails(r)
  <2>1. /\ NoEvaluation("over") \in Evaluation /\ NoEvaluation("over").at = "over"
        /\ NoEvaluation("over").left = {} /\ NoEvaluation("over").matched = {}
    BY DEF NoEvaluation, Evaluation
  <2>2. faults' \in 0 .. MaxFaults
    BY <1>0, <1>10, PolicyConstants DEF AutoApproveFails, Fault
  <2> QED
    BY <1>2, <1>10, <2>1, <2>2 DEF AutoApproveFails
<1> QED
  BY <1>1, <1>6, <1>7, <1>8, <1>9, <1>10

LEMMA ValidatorSteps ==
    ASSUME PolicyInv,
           StartValidation \/ ReadForValidation \/ DisablePolicy \/ ValidationFails
    PROVE  PolicyInv'
<1> USE PolicyConstants DEF PolicyInv
<1>1. CASE StartValidation
  <2>1. validator' = [at |-> "team", left |-> {p \in Policies : Active(p)}]
        /\ UNCHANGED <<policies, log, GitHub, modal, request, faults>>
    BY <1>1 DEF StartValidation
  <2>2. PolicyTypeOK' /\ ValidatedInserted'
    BY <2>1 DEF PolicyTypeOK, ValidatedInserted, GitHub, Active
  <2> QED
    BY <2>1, <2>2
       DEF PoliciesInserted, Inserted, Singular, ActiveExplained, Active, Row, CurrentVersion,
           RowsExplained, LogExplainsApprovals
<1>2. ASSUME validator.left # {}
      PROVE  FirstOf(validator.left) \in validator.left
  BY <1>2 DEF FirstOf
<1>3. /\ validator.left \subseteq Policies /\ validator.at \in {"team", "org", "disable"}
      /\ \A p : Validated(p) \in [at: {"team", "org", "disable"}, left: SUBSET Policies]
      /\ \A p : Validated(p).left \subseteq validator.left
  BY DEF Validated, PolicyTypeOK
<1>4. CASE ValidationFails
  <2>1. validator' \in [at: {"team", "org", "disable"}, left: SUBSET Policies]
        /\ validator'.left \subseteq validator.left
    BY <1>3, <1>4 DEF ValidationFails, NoValidation
  <2>2. faults' \in 0 .. MaxFaults /\ UNCHANGED <<policies, log, GitHub, modal, request>>
    BY <1>4 DEF ValidationFails, Fault, PolicyTypeOK
  <2>3. PolicyTypeOK' /\ ValidatedInserted'
    BY <2>1, <2>2 DEF PolicyTypeOK, ValidatedInserted, GitHub
  <2> QED
    BY <2>2, <2>3
       DEF PoliciesInserted, Inserted, Singular, ActiveExplained, Active, Row, CurrentVersion,
           RowsExplained, LogExplainsApprovals
<1>5. CASE ReadForValidation
  <2>1. UNCHANGED <<policies, log, GitHub, modal, request, faults>>
    BY <1>5 DEF ReadForValidation
  <2>2. /\ validator' \in [at: {"team", "org", "disable"}, left: SUBSET Policies]
        /\ validator'.left \subseteq validator.left
    <3>1. \/ validator' = Validated(FirstOf(validator.left))
          \/ validator' = [validator EXCEPT !.at = "org"]
          \/ validator' = [validator EXCEPT !.at = "disable"]
      BY <1>5 DEF ReadForValidation
    <3> QED
      BY <1>3, <3>1 DEF PolicyTypeOK
  <2>3. PolicyTypeOK' /\ ValidatedInserted'
    BY <2>1, <2>2 DEF PolicyTypeOK, ValidatedInserted, GitHub
  <2> QED
    BY <2>1, <2>3
       DEF PoliciesInserted, Inserted, Singular, ActiveExplained, Active, Row, CurrentVersion,
           RowsExplained, LogExplainsApprovals
<1>6. CASE DisablePolicy
  <2> DEFINE p == FirstOf(validator.left)
  <2>1. p \in validator.left /\ p \in Policies
    BY <1>2, <1>3, <1>6 DEF DisablePolicy
  <2>2. UNCHANGED <<log, GitHub, modal, request, faults>>
    BY <1>6 DEF DisablePolicy
  <2>3. /\ validator' \in [at: {"team", "org", "disable"}, left: SUBSET Policies]
        /\ validator'.left \subseteq validator.left
    BY <1>3, <1>6 DEF DisablePolicy
  <2>4. policies' = [policies EXCEPT ![p] = Disabled(@, "validator")]
    BY <1>6 DEF DisablePolicy
  <2> HIDE DEF p
  <2>0. policies[p] \in Policy /\ policies \in [Policies -> Policy]
    BY <2>1 DEF PolicyTypeOK
  <2> DEFINE x == Disabled(policies[p], "validator")
  <2>a. /\ x \in Policy /\ x.status = "disabled" /\ x.reason = "validator"
        /\ x.team = policies[p].team /\ x.owner = policies[p].owner
        /\ x.limits = policies[p].limits
    BY <2>0 DEF Disabled, Policy
  <2>b. policies' = [policies EXCEPT ![p] = x]
    BY <2>4
  <2> HIDE DEF x
  <2>5. /\ policies' \in [Policies -> Policy]
        /\ \A q \in Policies \ {p} : policies'[q] = policies[q]
        /\ policies'[p].status = "disabled" /\ policies'[p].reason = "validator"
        /\ policies'[p].team = policies[p].team /\ policies'[p].owner = policies[p].owner
        /\ policies'[p].limits = policies[p].limits
    BY <2>0, <2>1, <2>a, <2>b
  <2>6. PolicyTypeOK'
    BY <2>1, <2>2, <2>3, <2>5 DEF PolicyTypeOK, GitHub
  <2>7. policies[p].status # "none"
    BY <2>1 DEF ValidatedInserted
  <2>8. PoliciesInserted' /\ ValidatedInserted'
    BY <2>1, <2>3, <2>5, <2>7 DEF PoliciesInserted, Inserted, ValidatedInserted
  <2>9. \A q \in Policies : Active(q)' => policies'[q] = policies[q] /\ Active(q)
    BY <2>1, <2>5 DEF Active
  <2>10. Singular' /\ ActiveExplained'
    BY <2>2, <2>9 DEF Singular, ActiveExplained, Row, CurrentVersion
  <2> QED
    BY <2>2, <2>6, <2>8, <2>10 DEF RowsExplained, LogExplainsApprovals
<1> QED
  BY <1>1, <1>4, <1>5, <1>6

\* What createPolicyVersionTx and the disablement after it leave in a row.
LEMMA StoredFacts ==
    ASSUME PolicyInv, NEW f \in Fields, NEW p \in KnownOrNew(f.team)
    PROVE  /\ p \in Policies
           /\ Stored(p, f) \in Policy
           /\ Stored(p, f).team = f.team /\ Stored(p, f).owner \in People
           /\ Stored(p, f).status = IF f.enabled THEN "active" ELSE "disabled"
           /\ Stored(p, f).reason = IF f.enabled THEN None ELSE "owner"
           /\ Len(Stored(p, f).limits) = CurrentVersion(p) + 1
           /\ Stored(p, f).limits[CurrentVersion(p) + 1] = f.limit
           /\ \A q \in ActivePoliciesForTeam(f.team) : q = p
           /\ policies[p].status # "disabled"
<1> USE PolicyConstants DEF PolicyInv
<1> DEFINE x == NewVersion(p, f)
<1>1. p \in Policies /\ (p \in NewIds \/ p \in ActivePoliciesForTeam(f.team))
      /\ (p \in NewIds => ActivePoliciesForTeam(f.team) = {})
  BY DEF KnownOrNew, NewIds, ActivePoliciesForTeam, Active
<1>2. policies[p] \in Policy /\ f.team \in Teams /\ f.by \in People /\ f.limit \in Durations
  BY <1>1 DEF PolicyTypeOK, Fields
<1>3. /\ x \in Policy /\ x.status = "active" /\ x.reason = None
      /\ x.team = f.team /\ x.owner \in People
      /\ Len(x.limits) = CurrentVersion(p) + 1
      /\ x.limits[CurrentVersion(p) + 1] = f.limit
  <2>1. CASE p \in NewIds
    <3>1. policies[p].status = "none"
      BY <2>1 DEF NewIds
    <3>2. x = [status |-> "active", reason |-> None, team |-> f.team, owner |-> f.by,
               limits |-> <<f.limit>>]
      BY <3>1 DEF NewVersion
    <3>3. <<f.limit>> \in Seq(Durations) /\ Len(<<f.limit>>) = 1 /\ <<f.limit>>[1] = f.limit
      BY <1>2
    <3>4. policies[p].limits = <<>>
      BY <1>1, <3>1 DEF PoliciesInserted
    <3>5. CurrentVersion(p) = 0
      BY <3>4 DEF CurrentVersion
    <3> HIDE DEF x
    <3> QED
      BY <1>2, <3>2, <3>3, <3>5 DEF Policy
  <2>2. CASE p \in ActivePoliciesForTeam(f.team)
    <3>1. policies[p].status = "active" /\ policies[p].team = f.team
      BY <2>2 DEF ActivePoliciesForTeam, Active
    <3>2. policies[p].owner \in People
      BY <1>1, <3>1 DEF PoliciesInserted, Inserted
    <3> DEFINE longer == Append(policies[p].limits, f.limit)
    <3>3. x = [policies[p] EXCEPT !.status = "active", !.reason = None, !.limits = longer]
      BY <3>1 DEF NewVersion
    <3>4. /\ longer \in Seq(Durations) /\ Len(longer) = CurrentVersion(p) + 1
          /\ longer[CurrentVersion(p) + 1] = f.limit
      BY <1>2, AppendProperties DEF Policy, CurrentVersion
    <3> HIDE DEF x, longer
    <3> QED
      BY <1>2, <3>1, <3>2, <3>3, <3>4 DEF Policy
  <2> QED
    BY <1>1, <2>1, <2>2
<1> HIDE DEF x
<1>4. Stored(p, f) = IF f.enabled THEN x ELSE [x EXCEPT !.status = "disabled", !.reason = "owner"]
  BY DEF Stored, Disabled, x
<1>5. /\ Stored(p, f) \in Policy
      /\ Stored(p, f).team = x.team /\ Stored(p, f).owner = x.owner
      /\ Stored(p, f).limits = x.limits
      /\ Stored(p, f).status = IF f.enabled THEN "active" ELSE "disabled"
      /\ Stored(p, f).reason = IF f.enabled THEN None ELSE "owner"
  <2>1. CASE f.enabled
    BY <1>3, <1>4, <2>1
  <2>2. CASE ~f.enabled
    <3>1. Stored(p, f) = [x EXCEPT !.status = "disabled", !.reason = "owner"]
      BY <1>4, <2>2
    <3> QED
      BY <1>3, <2>2, <3>1 DEF Policy
  <2> QED
    BY <2>1, <2>2
<1>6. policies[p].status # "disabled"
  BY <1>1 DEF NewIds, ActivePoliciesForTeam, Active
<1>7. \A q \in ActivePoliciesForTeam(f.team) : q = p
  BY <1>1 DEF Singular, ActivePoliciesForTeam
<1> QED
  BY <1>1, <1>3, <1>5, <1>6, <1>7

LEMMA CommitStep ==
    ASSUME PolicyInv, NEW m \in Modals, CommitPolicy(m)
    PROVE  PolicyInv'
<1> USE PolicyConstants DEF PolicyInv
<1> DEFINE f == modal[m].fields
<1>1. f \in Fields /\ modal[m] \in Modal
  BY DEF CommitPolicy, PolicyTypeOK
<1>2. PICK p \in KnownOrNew(f.team) :
        /\ policies' = [policies EXCEPT ![p] = Stored(p, f)]
        /\ log' = WriteEvent(log, Updated(p, f))
  BY DEF CommitPolicy
<1>3. UNCHANGED <<maintainers, admins, moves, request, validator, faults>>
      /\ modal' = [modal EXCEPT ![m].at = "over"]
  BY DEF CommitPolicy, GitHub
<1> DEFINE x == Stored(p, f)
           e == Updated(p, f)
<1> HIDE DEF f
<1>4. /\ p \in Policies /\ x \in Policy /\ x.team = f.team /\ x.owner \in People
      /\ x.status = IF f.enabled THEN "active" ELSE "disabled"
      /\ x.reason = IF f.enabled THEN None ELSE "owner"
      /\ Len(x.limits) = CurrentVersion(p) + 1
      /\ x.limits[CurrentVersion(p) + 1] = f.limit
      /\ \A q \in ActivePoliciesForTeam(f.team) : q = p
  BY <1>1, StoredFacts
<1>5. /\ e.type = "policy_updated" /\ e.policy = p /\ e.version = CurrentVersion(p) + 1
      /\ e.limit = f.limit /\ e.enabled = f.enabled
  BY DEF Updated
<1>6. CurrentVersion(p) \in Nat
  BY <1>4 DEF CurrentVersion, PolicyTypeOK, Policy
<1> HIDE DEF x, e
<1>7. /\ policies' \in [Policies -> Policy] /\ policies'[p] = x
      /\ \A q \in Policies \ {p} : policies'[q] = policies[q]
  BY <1>2, <1>4 DEF PolicyTypeOK, x
<1>8. /\ Len(log) \in Nat /\ DOMAIN log = 1 .. Len(log)
      /\ DOMAIN log' = 1 .. Len(log) + 1
      /\ \A i \in 1 .. Len(log) : log'[i] = log[i]
      /\ log'[Len(log) + 1].event = e
  BY <1>2, WriteEventFacts DEF e
<1>9. /\ IsLog(log') /\ VerifyChain(log')
      /\ \A row : Explained(log, row) => Explained(log', row)
  BY <1>2, LogGrows DEF e
<1>10. PolicyTypeOK'
  <2>1. \A q \in Policies : (policies'[q].status = "disabled") = (policies'[q].reason # None)
    BY <1>4, <1>7 DEF PolicyTypeOK
  <2>2. \A i \in DOMAIN log' : log'[i].event.policy \in Policies
    BY <1>4, <1>5, <1>8 DEF PolicyTypeOK
  <2>3. modal' \in [Modals -> Modal]
        /\ \A n \in Modals : modal'[n].at # "idle" => modal'[n].fields \in Fields
    <3>1. [modal[m] EXCEPT !.at = "over"] \in Modal
          /\ [modal[m] EXCEPT !.at = "over"].fields = modal[m].fields
      BY <1>1 DEF Modal
    <3> QED
      BY <1>1, <1>3, <3>1 DEF PolicyTypeOK, f
  <2> QED
    BY <1>3, <1>7, <2>1, <2>2, <2>3 DEF PolicyTypeOK
<1>11. PoliciesInserted'
  <2>1. f.team \in Teams
    BY <1>1 DEF Fields
  <2> QED
    BY <1>4, <1>6, <1>7, <2>1 DEF PoliciesInserted, Inserted
<1>12. Singular'
  <2>1. \A q \in Policies \ {p} : Active(q)' /\ policies'[q].team = f.team => FALSE
    BY <1>4, <1>7 DEF ActivePoliciesForTeam, Active
  <2> QED
    BY <1>4, <1>7, <2>1 DEF Singular, Active
<1>13. ActiveExplained'
  <2> SUFFICES ASSUME NEW q \in Policies, Active(q)'
               PROVE  Explained(log', Row(q)')
    BY DEF ActiveExplained
  <2>1. CASE q = p
    <3>1. f.enabled
      BY <1>4, <1>7, <2>1 DEF Active
    <3>2. /\ Row(q)'.policy = p /\ Row(q)'.version = CurrentVersion(p) + 1
          /\ Row(q)'.limit = f.limit
      <4>1. CurrentVersion(q)' = Len(x.limits)
        BY <1>7, <2>1 DEF CurrentVersion
      <4> QED
        BY <1>4, <1>7, <2>1, <4>1 DEF Row
    <3>3. Explains(log', Len(log) + 1, Row(q)')
      BY <1>5, <1>8, <3>1, <3>2 DEF Explains
    <3> QED
      BY <1>8, <3>3 DEF Explained
  <2>2. CASE q # p
    <3>1. Active(q) /\ Row(q)' = Row(q)
      BY <1>7, <2>2 DEF Active, Row, CurrentVersion
    <3> QED
      BY <1>9, <3>1 DEF ActiveExplained
  <2> QED
    BY <2>1, <2>2
<1>14. RowsExplained'
  BY <1>3, <1>9 DEF RowsExplained
<1>15. ValidatedInserted'
  BY <1>3, <1>4, <1>7 DEF ValidatedInserted, PolicyTypeOK
<1>16. LogExplainsApprovals'
  <2>1. log'[Len(log) + 1].event.type # "request_approved"
    BY <1>5, <1>8
  <2>2. \A i \in DOMAIN log' : log'[i].event.type = "request_approved" => i \in DOMAIN log
    BY <1>8, <2>1
  <2>3. \A i \in DOMAIN log : \A j \in 1 .. i : log'[j] = log[j]
    BY <1>8
  <2> QED
    BY <1>8, <2>2, <2>3 DEF LogExplainsApprovals
<1> QED
  BY <1>9, <1>10, <1>11, <1>12, <1>13, <1>14, <1>15, <1>16

\* A transaction of an evaluation adds an event, whose approval is explained.
LEMMA EventStep ==
    ASSUME PolicyInv, NEW r \in Requests, NEW e, NEW x \in Evaluation,
           log' = WriteEvent(log, e), e.policy \in Policies,
           e.type = "request_approved" =>
               \E row : /\ Explained(log, row)
                        /\ e.policy = row.policy /\ e.version = row.version
                        /\ e.duration <= row.limit,
           request' = [request EXCEPT ![r] = x],
           x.at # "requester",
           \A row \in x.left \cup x.matched : row \in request[r].matched,
           x.duration = request[r].duration \/ x.matched = {},
           UNCHANGED <<policies, GitHub, modal, validator, faults>>
    PROVE  PolicyInv'
<1> USE PolicyConstants DEF PolicyInv
<1> DEFINE n == Len(log)
<1>1. /\ n \in Nat /\ DOMAIN log = 1 .. n /\ DOMAIN log' = 1 .. n + 1
      /\ \A i \in 1 .. n : log'[i] = log[i]
      /\ log'[n + 1].event = e
  BY WriteEventFacts
<1>2. /\ IsLog(log') /\ VerifyChain(log')
      /\ \A row : Explained(log, row) => Explained(log', row)
  BY LogGrows
<1>3. request' \in [Requests -> Evaluation] /\ request'[r] = x
      /\ \A q \in Requests \ {r} : request'[q] = request[q]
  BY DEF PolicyTypeOK
<1> HIDE DEF n
<1>4. PolicyTypeOK'
  <2>1. \A i \in DOMAIN log' : log'[i].event.policy \in Policies
    BY <1>1 DEF PolicyTypeOK
  <2> QED
    BY <1>3, <2>1 DEF PolicyTypeOK, GitHub
<1>5. RowsExplained'
  BY <1>2, <1>3 DEF RowsExplained
<1>6. ActiveExplained'
  BY <1>2 DEF ActiveExplained, Active, Row, CurrentVersion
<1>7. LogExplainsApprovals'
  <2> DEFINE Because(l, i, j) ==
               /\ l[j].event.type = "policy_updated" /\ l[j].event.enabled
               /\ l[j].event.policy = l[i].event.policy
               /\ l[j].event.version = l[i].event.version
               /\ l[i].event.duration <= l[j].event.limit
  <2> SUFFICES ASSUME NEW i \in 1 .. n + 1, log'[i].event.type = "request_approved"
               PROVE  \E j \in 1 .. (i - 1) : Because(log', i, j)
    BY <1>1 DEF LogExplainsApprovals
  <2>1. CASE i \in 1 .. n
    <3>1. PICK j \in 1 .. (i - 1) : Because(log, i, j)
      BY <1>1, <2>1 DEF LogExplainsApprovals
    <3>2. log'[j] = log[j] /\ log'[i] = log[i]
      BY <1>1, <2>1
    <3> QED
      BY <3>1, <3>2
  <2>2. CASE i = n + 1
    <3>1. PICK row : /\ Explained(log, row)
                     /\ e.policy = row.policy /\ e.version = row.version
                     /\ e.duration <= row.limit
      BY <1>1, <2>2
    <3>2. PICK j \in 1 .. n : Explains(log, j, row)
      BY <1>1, <3>1 DEF Explained
    <3>3. log'[j] = log[j] /\ j \in 1 .. i - 1 /\ log'[i].event = e
      BY <1>1, <2>2
    <3>4. Because(log', i, j)
      BY <3>1, <3>2, <3>3 DEF Explains
    <3> QED
      BY <3>3, <3>4
  <2> QED
    BY <1>1, <2>1, <2>2
<1> QED
  BY <1>2, <1>4, <1>5, <1>6, <1>7
     DEF PoliciesInserted, Inserted, Singular, Active, ValidatedInserted

LEMMA ApprovalSteps ==
    ASSUME PolicyInv, NEW r \in Requests, WriteEvaluated(r) \/ AutoApprove(r)
    PROVE  PolicyInv'
<1>0. /\ request[r] \in Evaluation /\ request[r].matched \subseteq Rows
      /\ \A row \in request[r].matched :
            row.policy \in Policies /\ Explained(log, row) /\ request[r].duration <= row.limit
  BY DEF PolicyInv, PolicyTypeOK, Evaluation, Rows, RowsExplained
<1>1. CASE WriteEvaluated(r)
  <2>1. PICK row \in request[r].matched :
           /\ log' = WriteEvent(log, Evaluated(r, row))
           /\ request' = [request EXCEPT ![r] =
                            [request[r] EXCEPT !.at = "evaluated", !.matched = {row}]]
    BY <1>1 DEF WriteEvaluated, BestMatches
  <2> DEFINE x == [request[r] EXCEPT !.at = "evaluated", !.matched = {row}]
  <2>2. request[r].left = {} /\ UNCHANGED <<policies, GitHub, modal, validator, faults>>
    BY <1>1 DEF WriteEvaluated
  <2>3. /\ x \in Evaluation /\ x.at = "evaluated" /\ x.left = {} /\ x.matched = {row}
        /\ x.duration = request[r].duration
    BY <1>0, <2>1, <2>2 DEF Evaluation
  <2>4. /\ Evaluated(r, row).type # "request_approved"
        /\ Evaluated(r, row).policy \in Policies
    BY <1>0, <2>1 DEF Evaluated
  <2>5. request' = [request EXCEPT ![r] = x]
    BY <2>1
  <2> HIDE DEF x
  <2> QED
    BY <2>1, <2>2, <2>3, <2>4, <2>5, EventStep
<1>2. CASE AutoApprove(r)
  <2>1. PICK row \in request[r].matched : log' = WriteEvent(log, Approved(r, row))
    BY <1>2 DEF AutoApprove
  <2>2. /\ request' = [request EXCEPT ![r] = NoEvaluation("approved")]
        /\ UNCHANGED <<policies, GitHub, modal, validator, faults>>
    BY <1>2 DEF AutoApprove
  <2>3. /\ NoEvaluation("approved") \in Evaluation /\ NoEvaluation("approved").at # "requester"
        /\ NoEvaluation("approved").left = {} /\ NoEvaluation("approved").matched = {}
    BY DEF NoEvaluation, Evaluation
  <2>4. /\ Approved(r, row).policy = row.policy /\ Approved(r, row).version = row.version
        /\ Approved(r, row).duration = request[r].duration
    BY DEF Approved
  <2>5. \E w : /\ Explained(log, w)
               /\ Approved(r, row).policy = w.policy /\ Approved(r, row).version = w.version
               /\ Approved(r, row).duration <= w.limit
    BY <1>0, <2>1, <2>4
  <2> QED
    BY <1>0, <2>1, <2>2, <2>3, <2>4, <2>5, EventStep
<1> QED
  BY <1>1, <1>2

-----------------------------------------------------------------------------

LEMMA PolicyNext ==
    ASSUME PolicyInv, [Next]_vars
    PROVE  PolicyInv'
<1>1. ASSUME NEW m \in Modals,
             SubmitPolicy(m) \/ ReadForPolicy(m) \/ CommitPolicy(m) \/ ModalFails(m)
      PROVE  PolicyInv'
  BY <1>1, QuietSteps, CommitStep
<1>2. ASSUME NEW r \in Requests,
             \/ SubmitRequest(r) \/ ReadOwner(r) \/ ReadRequester(r) \/ EvaluationFails(r)
             \/ WriteEvaluated(r) \/ AutoApprove(r) \/ AutoApproveFails(r) \/ NoMatch(r)
      PROVE  PolicyInv'
  BY <1>2, EvaluationSteps, ApprovalSteps
<1>3. CASE StartValidation \/ ReadForValidation \/ DisablePolicy \/ ValidationFails
  BY <1>3, ValidatorSteps
<1>4. CASE RoleMoves
  BY <1>4, QuietSteps
<1>5. CASE UNCHANGED vars
  BY <1>5
     DEF vars, PolicyInv, PolicyTypeOK, PoliciesInserted, Inserted, Singular, ActiveExplained,
         Active, Row, CurrentVersion, RowsExplained, ValidatedInserted, LogExplainsApprovals
<1> QED
  BY <1>1, <1>2, <1>3, <1>4, <1>5 DEF Next

LEMMA PolicyInvHolds == Spec => []PolicyInv
  BY PolicyInit, PolicyNext, PTL DEF Spec

\* Tables, log and handlers have their types, and a policy has a reason just
\* when it is disabled.
THEOREM TypeCorrect == Spec => []PolicyTypeOK
<1>1. PolicyInv => PolicyTypeOK
  BY DEF PolicyInv
<1> QED
  BY <1>1, PolicyInvHolds, PTL

\* A team never has two active policies, however many modals are submitted at
\* the same time, although no index forbids it (policy-service.ts).
THEOREM PoliciesSingle == Spec => []OneActivePolicy
<1>1. ASSUME PolicyInv, NEW t \in Teams
      PROVE  Cardinality(ActivePoliciesForTeam(t)) <= 1
  <2>1. CASE ActivePoliciesForTeam(t) = {}
    BY <2>1, FS_EmptySet
  <2>2. CASE ActivePoliciesForTeam(t) # {}
    <3>1. PICK p \in ActivePoliciesForTeam(t) : TRUE
      BY <2>2
    <3>2. ActivePoliciesForTeam(t) = {p}
      BY <1>1, <3>1 DEF PolicyInv, Singular, ActivePoliciesForTeam
    <3> QED
      BY <3>2, FS_Singleton
  <2> QED
    BY <2>1, <2>2
<1>2. PolicyInv => OneActivePolicy
  BY <1>1 DEF OneActivePolicy
<1> QED
  BY <1>2, PolicyInvHolds, PTL

\* A disabled policy stays disabled and keeps its versions, although
\* createPolicyVersionTx activates what it writes to.
THEOREM DisabledStays == Spec => DisabledIsFinal
<1> DEFINE Kept == \A p \in Policies :
              policies[p].status = "disabled" =>
                  policies'[p].status = "disabled" /\ policies'[p].limits = policies[p].limits
<1>1. ASSUME PolicyInv, Next
      PROVE  Kept
  <2>1. CASE UNCHANGED policies
    BY <2>1
  <2>2. ASSUME NEW m \in Modals, CommitPolicy(m)
        PROVE  Kept
    <3>1. modal[m].fields \in Fields
      BY <1>1, <2>2 DEF CommitPolicy, PolicyInv, PolicyTypeOK
    <3>2. PICK p \in KnownOrNew(modal[m].fields.team) :
             policies' = [policies EXCEPT ![p] = Stored(p, modal[m].fields)]
      BY <2>2 DEF CommitPolicy
    <3>3. policies[p].status # "disabled"
      BY <1>1, <3>1, StoredFacts
    <3> QED
      BY <1>1, <3>2, <3>3 DEF PolicyInv, PolicyTypeOK
  <2>3. CASE DisablePolicy
    <3>1. PICK p : policies' = [policies EXCEPT ![p] = Disabled(policies[p], "validator")]
      BY <2>3 DEF DisablePolicy
    <3>2. policies \in [Policies -> Policy]
      BY <1>1 DEF PolicyInv, PolicyTypeOK
    <3> SUFFICES ASSUME NEW q \in Policies, policies[q].status = "disabled"
                 PROVE  policies'[q].status = "disabled" /\ policies'[q].limits = policies[q].limits
      OBVIOUS
    <3>3. policies[q] \in Policy
      BY <3>2
    <3>4. /\ Disabled(policies[q], "validator").status = "disabled"
          /\ Disabled(policies[q], "validator").limits = policies[q].limits
      BY <3>3 DEF Disabled, Policy
    <3> QED
      BY <3>1, <3>2, <3>4
  <2> QED
    BY <1>1, <2>1, <2>2, <2>3
       DEF Next, SubmitPolicy, ReadForPolicy, ModalFails, SubmitRequest, ReadOwner,
           ReadRequester, EvaluationFails, WriteEvaluated, AutoApprove, AutoApproveFails, NoMatch,
           StartValidation, ReadForValidation, ValidationFails, RoleMoves
<1>2. PolicyInv /\ [Next]_vars => [Kept]_vars
  BY <1>1
<1> QED
  BY <1>2, PolicyInvHolds, PTL DEF Spec, DisabledIsFinal

\* Every automatic approval is explained by an earlier event of the log: the
\* version it names, enabled, with a limit that the duration keeps, whatever
\* becomes of the policy while the evaluation awaits GitHub.
THEOREM ApprovalsExplained == Spec => []LogExplainsApprovals
<1>1. PolicyInv => LogExplainsApprovals
  BY DEF PolicyInv
<1> QED
  BY <1>1, PolicyInvHolds, PTL

-----------------------------------------------------------------------------
(* What the log tells of the policies *)

Updates(l, i, p) == l[i].event.type = "policy_updated" /\ l[i].event.policy = p

\* Of the versions that row has, all of them and no others are in the log, and
\* the latest with its limit; an active policy is one that it enabled.
TellsOf(l, p, row) ==
    /\ \A i \in DOMAIN l : Updates(l, i, p) => l[i].event.version \in 1 .. Len(row.limits)
    /\ Len(row.limits) > 0 =>
          \E i \in DOMAIN l :
             /\ Updates(l, i, p)
             /\ l[i].event.version = Len(row.limits)
             /\ l[i].event.limit = row.limits[Len(row.limits)]
             /\ row.status = "active" => l[i].event.enabled

LogTold == \A p \in Policies : TellsOf(log, p, policies[p])

LEMMA TellsMore ==
    ASSUME NEW l, IsLog(l), NEW e, NEW l2, l2 = WriteEvent(l, e), NEW p, NEW row,
           ~(e.type = "policy_updated" /\ e.policy = p), TellsOf(l, p, row)
    PROVE  TellsOf(l2, p, row)
<1>1. /\ Len(l) \in Nat /\ DOMAIN l = 1 .. Len(l) /\ DOMAIN l2 = 1 .. Len(l) + 1
      /\ \A i \in 1 .. Len(l) : l2[i] = l[i]
      /\ l2[Len(l) + 1].event = e
  BY WriteEventFacts
<1>2. ASSUME NEW i \in DOMAIN l2, Updates(l2, i, p)
      PROVE  i \in DOMAIN l /\ l2[i] = l[i] /\ Updates(l, i, p)
  <2>1. i # Len(l) + 1
    BY <1>1, <1>2 DEF Updates
  <2>2. i \in DOMAIN l /\ l2[i] = l[i]
    BY <1>1, <2>1
  <2> QED
    BY <1>2, <2>2 DEF Updates
<1>3. \A i \in DOMAIN l : i \in DOMAIN l2 /\ l2[i] = l[i]
  BY <1>1
<1> QED
  BY <1>2, <1>3 DEF TellsOf, Updates

LEMMA ToldCommitted ==
    ASSUME PolicyInv, LogTold, NEW m \in Modals, CommitPolicy(m)
    PROVE  LogTold'
<1> DEFINE f == modal[m].fields
<1>1. f \in Fields
  BY DEF CommitPolicy, PolicyInv, PolicyTypeOK
<1>2. PICK p \in KnownOrNew(f.team) :
        /\ policies' = [policies EXCEPT ![p] = Stored(p, f)]
        /\ log' = WriteEvent(log, Updated(p, f))
  BY DEF CommitPolicy
<1> HIDE DEF f
<1> DEFINE x == Stored(p, f)
           e == Updated(p, f)
           n == Len(log)
<1>3. /\ p \in Policies /\ x \in Policy
      /\ x.status = IF f.enabled THEN "active" ELSE "disabled"
      /\ Len(x.limits) = CurrentVersion(p) + 1
      /\ x.limits[CurrentVersion(p) + 1] = f.limit
  BY <1>1, <1>2, StoredFacts
<1>4. /\ e.type = "policy_updated" /\ e.policy = p /\ e.version = CurrentVersion(p) + 1
      /\ e.limit = f.limit /\ e.enabled = f.enabled
  BY DEF Updated
<1>5. policies \in [Policies -> Policy] /\ CurrentVersion(p) \in Nat
  BY <1>3 DEF CurrentVersion, PolicyInv, PolicyTypeOK, Policy
<1>6. policies'[p] = x /\ \A q \in Policies \ {p} : policies'[q] = policies[q]
  BY <1>2, <1>3, <1>5
<1>7. log' = WriteEvent(log, e) /\ IsLog(log)
  BY <1>2 DEF PolicyInv
<1> HIDE DEF x, e, n
<1>8. /\ n \in Nat /\ DOMAIN log = 1 .. n /\ DOMAIN log' = 1 .. n + 1
      /\ \A i \in 1 .. n : log'[i] = log[i]
      /\ log'[n + 1].event = e
  BY <1>7, WriteEventFacts DEF n
<1>9. TellsOf(log, p, policies[p])
  BY <1>3 DEF LogTold
<1>10. TellsOf(log', p, x)
  <2>1. ASSUME NEW i \in DOMAIN log', Updates(log', i, p)
        PROVE  log'[i].event.version \in 1 .. Len(x.limits)
    <3>1. CASE i = n + 1
      BY <1>3, <1>4, <1>5, <1>8, <3>1
    <3>2. CASE i \in 1 .. n
      <4>1. Updates(log, i, p) /\ i \in DOMAIN log /\ log'[i] = log[i]
        BY <1>8, <2>1, <3>2 DEF Updates
      <4>2. log[i].event.version \in 1 .. CurrentVersion(p)
        BY <1>9, <4>1 DEF TellsOf, CurrentVersion
      <4> QED
        BY <1>3, <1>5, <4>1, <4>2
    <3> QED
      BY <1>8, <3>1, <3>2
  <2>2. /\ n + 1 \in DOMAIN log' /\ Updates(log', n + 1, p)
        /\ log'[n + 1].event.version = Len(x.limits)
        /\ log'[n + 1].event.limit = x.limits[Len(x.limits)]
        /\ x.status = "active" => log'[n + 1].event.enabled
    BY <1>3, <1>4, <1>8 DEF Updates
  <2> QED
    BY <2>1, <2>2 DEF TellsOf
<1>11. ASSUME NEW q \in Policies \ {p}
       PROVE  TellsOf(log', q, policies[q])
  BY <1>4, <1>7, TellsMore DEF LogTold
<1> QED
  BY <1>6, <1>10, <1>11 DEF LogTold

LEMMA ToldApproved ==
    ASSUME PolicyInv, LogTold, NEW r \in Requests, WriteEvaluated(r) \/ AutoApprove(r)
    PROVE  LogTold'
<1>1. PICK e : log' = WriteEvent(log, e) /\ e.type # "policy_updated"
  <2>1. PICK row : \/ log' = WriteEvent(log, Evaluated(r, row))
                   \/ log' = WriteEvent(log, Approved(r, row))
    BY DEF WriteEvaluated, AutoApprove
  <2>2. Evaluated(r, row).type # "policy_updated" /\ Approved(r, row).type # "policy_updated"
    BY DEF Evaluated, Approved
  <2> QED
    BY <2>1, <2>2
<1>2. UNCHANGED policies /\ IsLog(log)
  BY DEF WriteEvaluated, AutoApprove, PolicyInv
<1>3. \A p \in Policies : TellsOf(log', p, policies[p])
  BY <1>1, <1>2, TellsMore DEF LogTold
<1> QED
  BY <1>2, <1>3 DEF LogTold

LEMMA ToldNext ==
    ASSUME PolicyInv, LogTold, [Next]_vars
    PROVE  LogTold'
<1>1. CASE UNCHANGED <<policies, log>>
  BY <1>1 DEF LogTold, TellsOf, Updates
<1>2. ASSUME NEW m \in Modals, CommitPolicy(m) PROVE LogTold'
  BY <1>2, ToldCommitted
<1>3. ASSUME NEW r \in Requests, WriteEvaluated(r) \/ AutoApprove(r) PROVE LogTold'
  BY <1>3, ToldApproved
<1>4. CASE DisablePolicy
  <2>1. policies \in [Policies -> Policy] /\ UNCHANGED log
    BY <1>4 DEF PolicyInv, PolicyTypeOK, DisablePolicy
  <2>2. PICK p : policies' = [policies EXCEPT ![p] = Disabled(policies[p], "validator")]
    BY <1>4 DEF DisablePolicy
  <2>3. ASSUME NEW q \in Policies
        PROVE  policies'[q] = policies[q]
               \/ /\ policies'[q].limits = policies[q].limits
                  /\ policies'[q].status # "active"
    <3>1. policies[q] \in Policy
      BY <2>1
    <3>2. /\ Disabled(policies[q], "validator").limits = policies[q].limits
          /\ Disabled(policies[q], "validator").status = "disabled"
      BY <3>1 DEF Disabled, Policy
    <3> QED
      BY <2>1, <2>2, <3>2
  <2> QED
    BY <2>1, <2>3 DEF LogTold, TellsOf, Updates
<1> QED
  BY <1>1, <1>2, <1>3, <1>4
     DEF Next, vars, SubmitPolicy, ReadForPolicy, ModalFails, SubmitRequest, ReadOwner,
         ReadRequester, EvaluationFails, AutoApproveFails, NoMatch, StartValidation,
         ReadForValidation, ValidationFails, RoleMoves

\* However modals, evaluations and validations overlap and fail, the last event
\* of the log about a policy is its current version, with its limit, and an
\* active policy is one that it enabled (policy-service.ts).
THEOREM LogKnowsVersions == Spec => []LogTellsVersions
<1>1. Init => LogTold
  <2> SUFFICES ASSUME Init PROVE LogTold
    OBVIOUS
  <2>1. DOMAIN log = {} /\ \A p \in Policies : policies[p].limits = <<>>
    BY DEF Init, NoPolicy
  <2>2. Len(<<>>) = 0
    BY EmptySeq
  <2> QED
    BY <2>1, <2>2 DEF LogTold, TellsOf
<1>2. Spec => []LogTold
  BY <1>1, ToldNext, PolicyInvHolds, PTL DEF Spec
<1>3. PolicyInv /\ LogTold => LogTellsVersions
  <2> SUFFICES ASSUME PolicyInv, LogTold, NEW p \in Policies, policies[p].status # "none"
               PROVE  \E e \in LastUpdate(p) :
                         /\ e.version = CurrentVersion(p)
                         /\ e.limit = policies[p].limits[CurrentVersion(p)]
                         /\ Active(p) => e.enabled
    BY DEF LogTellsVersions
  <2>1. CurrentVersion(p) \in Nat /\ CurrentVersion(p) > 0
    BY DEF PolicyInv, PolicyTypeOK, Policy, PoliciesInserted, Inserted, CurrentVersion
  <2>2. PICK i \in DOMAIN log :
          /\ Updates(log, i, p)
          /\ log[i].event.version = CurrentVersion(p)
          /\ log[i].event.limit = policies[p].limits[CurrentVersion(p)]
          /\ Active(p) => log[i].event.enabled
    BY <2>1 DEF LogTold, TellsOf, CurrentVersion, Active
  <2>3. \A j \in DOMAIN log : Updates(log, j, p) => log[j].event.version <= CurrentVersion(p)
    BY <2>1 DEF LogTold, TellsOf, CurrentVersion
  <2>4. log[i].event \in LastUpdate(p)
    BY <2>2, <2>3 DEF LastUpdate, Updates
  <2> QED
    BY <2>2, <2>4
<1> QED
  BY <1>2, <1>3, PolicyInvHolds, PTL

\* The log of all these transactions passes verifyChain at any time.  A copy
\* that lacks one row (its gap closed or not), or in which two rows have changed
\* places or one has the columns of another, passes only if it is the log itself
\* or a beginning of it, provided that no digest is the empty string
\* (audit-repository.ts).  Nothing is said of other changes.
THEOREM ChainShowsDamage ==
    ASSUME HashIsNoSentinel
    PROVE  Spec => []ChainHolds
<1> DEFINE Sound == Chained(log)
<1>1. Init => Sound
  <2>1. Init => PolicyInv
    BY PolicyInit
  <2> QED
    BY <2>1 DEF PolicyInv, Chained, Distinct, Init
<1>2. Sound /\ [Next]_vars => Sound'
  <2> SUFFICES ASSUME Chained(log), [Next]_vars PROVE Chained(log')
    OBVIOUS
  <2>1. CASE UNCHANGED log
    BY <2>1
  <2>2. ASSUME NEW m \in Modals, CommitPolicy(m) PROVE Chained(log')
    <3>1. PICK e : log' = WriteEvent(log, e)
      BY <2>2 DEF CommitPolicy
    <3> QED
      BY <3>1, ChainedGrows
  <2>3. ASSUME NEW r \in Requests, WriteEvaluated(r) \/ AutoApprove(r) PROVE Chained(log')
    <3>1. PICK e : log' = WriteEvent(log, e)
      BY <2>3 DEF WriteEvaluated, AutoApprove
    <3> QED
      BY <3>1, ChainedGrows
  <2> QED
    BY <2>1, <2>2, <2>3
       DEF Next, vars, SubmitPolicy, ReadForPolicy, ModalFails, SubmitRequest, ReadOwner,
           ReadRequester, EvaluationFails, AutoApproveFails, NoMatch, StartValidation,
           ReadForValidation, DisablePolicy, ValidationFails, RoleMoves
<1>3. Sound => ChainHolds
  BY ChainedShows DEF ChainHolds, Chained
<1> HIDE DEF Sound
<1> QED
  BY <1>1, <1>2, <1>3, PTL DEF Spec
=============================================================================
