------------------------ MODULE ExportDownload_proofs ------------------------
(***************************************************************************)
(* Proofs about ExportDownload, for any number of exports and downloads,   *)
(* any times, and whether or not files refuse to go and processes die.     *)
(*                                                                         *)
(* That a token serves one download at a time, but for slow ones, cannot   *)
(* be shown from the downloads alone: a late callback frees a lease that   *)
(* is another's.  What is counted are the uses of a token, the downloads   *)
(* that came to their end and those under way; a download that outlives    *)
(* its lease is one more allowed.  A token that can be used and whose      *)
(* lease nobody holds must have one left (UsesCounted).                    *)
(***************************************************************************)
EXTENDS ExportDownload, FiniteSetTheorems, TLAPS

Open(e) == Listed(e) /\ ~tokens[e].used

\* A file that is being written is there, and nobody has a lease on it yet.
WritingFresh ==
    \A e \in Exports :
        /\ tokens[e].status \in {"none", "writing"} =>
              ~tokens[e].leased /\ \A d \in Downloads : ~Sending(d, e)
        /\ tokens[e].status = "writing" => e \in files

TokenInv == ExportTypeOK /\ RetryPossible /\ WritingFresh

\* The download to which the lease of e was given still runs, in its time.
Held(e) ==
    /\ tokens[e].leased /\ tokens[e].lease > 0
    /\ \E d \in Downloads : Sending(d, e) /\ download[d].age = Lease - tokens[e].lease

Uses(e) == delivered[e] + Cardinality(Senders(e))

UsesCounted ==
    \A e \in Exports :
        /\ Uses(e) <= 1 + slow[e]
        /\ Open(e) /\ ~Held(e) => Uses(e) <= slow[e]

\* What is not issued yet has not been sent.
Unsent == \A e \in Exports : tokens[e].status \in {"none", "writing"} => delivered[e] = 0

DownloadInv == TokenInv /\ UsesCounted /\ Unsent

-----------------------------------------------------------------------------
(* The parts of a step *)

LEMMA TokenFields ==
    ASSUME ExportTypeOK, NEW e \in Exports
    PROVE  /\ tokens[e] \in Token
           /\ tokens[e].status \in {"none", "writing", "listed", "gone"}
           /\ tokens[e].used \in BOOLEAN /\ tokens[e].leased \in BOOLEAN
           /\ tokens[e].left \in Int /\ -1 <= tokens[e].left /\ tokens[e].left <= TTL
           /\ tokens[e].lease \in Int
           /\ -Late <= tokens[e].lease /\ tokens[e].lease <= Lease
  BY ExportConstants DEF ExportTypeOK, Token

LEMMA DownloadFields ==
    ASSUME ExportTypeOK, NEW d \in Downloads
    PROVE  /\ download[d] = [export |-> download[d].export, age |-> download[d].age]
           /\ download[d].export \in Exports \cup {None}
           /\ download[d].age \in Nat /\ download[d].age <= Lease
           /\ download[d] # Idle => download[d].export \in Exports
  BY ExportConstants DEF ExportTypeOK

LEMMA UnlinkType ==
    ASSUME ExportTypeOK, NEW es \in SUBSET Exports, Unlink(es)
    PROVE  /\ files' \subseteq Exports
           /\ files \ es \subseteq files'
  BY DEF ExportTypeOK, Unlink

LEMMA ExportInit == Init => DownloadInv
<1> SUFFICES ASSUME Init PROVE DownloadInv
  OBVIOUS
<1>1. ExportTypeOK
  BY ExportConstants DEF Init, ExportTypeOK, Token, Idle, Listed
<1>2. \A d \in Downloads, e \in Exports : ~Sending(d, e)
  BY ExportConstants DEF Init, Idle, Sending
<1>3. \A e \in Exports : Uses(e) = 0 /\ slow[e] = 0
  <2>1. \A e \in Exports : Senders(e) = {}
    BY <1>2 DEF Senders
  <2> QED
    BY <2>1, FS_EmptySet DEF Init, Uses
<1> QED
  BY <1>1, <1>2, <1>3
     DEF Init, DownloadInv, TokenInv, RetryPossible, WritingFresh, UsesCounted, Unsent, Open, Listed

-----------------------------------------------------------------------------
(* Types and leases *)

LEMMA TokenNext ==
    ASSUME TokenInv, [Next]_vars
    PROVE  TokenInv'
<1> USE ExportConstants DEF TokenInv
<1> SUFFICES ASSUME Next PROVE TokenInv'
  BY DEF vars, ExportTypeOK, RetryPossible, WritingFresh, Open, Listed, Sending
<1> DEFINE Same(e) == tokens'[e] = tokens[e]
<1>0. /\ tokens \in [Exports -> Token]
      /\ download \in [Downloads -> [export: Exports \cup {None}, age: 0 .. Lease]]
      /\ since \in 0 .. Late /\ since \in Int
      /\ delivered \in [Exports -> Nat] /\ slow \in [Exports -> Nat]
      /\ files \subseteq Exports /\ kept \subseteq Exports
  BY DEF ExportTypeOK
<1>i. Idle \in [export: Exports \cup {None}, age: 0 .. Lease] /\ Idle.export = None
  BY DEF Idle
<1>r. TTL \in -1 .. TTL /\ 0 \in -Late .. Lease /\ Lease \in -Late .. Lease
  OBVIOUS
<1>1. ASSUME NEW e \in Exports, WriteFile(e) \/ IssueToken(e) \/ CheckFails(e)
      PROVE  TokenInv'
  <2>1. tokens[e] \in Token
    BY <1>0
  <2>2. /\ UNCHANGED <<download, since, delivered, slow, kept>>
        /\ files' \subseteq Exports
        /\ \A h \in Exports : h # e => tokens'[h] = tokens[h] /\ (h \in files => h \in files')
    BY <1>1, <1>0 DEF WriteFile, IssueToken, CheckFails
  <2>3. /\ tokens' \in [Exports -> Token]
        /\ tokens'[e].leased = tokens[e].leased /\ tokens'[e].lease = tokens[e].lease
        /\ tokens'[e].used = tokens[e].used
        /\ tokens'[e].status \in {"listed", "writing"} => e \in files'
        /\ tokens'[e].status = "listed" => tokens[e].status = "writing"
        /\ tokens'[e].status = "writing" => tokens[e].status = "none"
        /\ tokens'[e].status # "none"
    <3>1. CASE WriteFile(e)
      BY <3>1, <1>0, <2>1 DEF WriteFile, Token
    <3>2. CASE IssueToken(e)
      <4>1. tokens'[e] = [tokens[e] EXCEPT !.status = "listed", !.left = TTL]
        BY <3>2, <1>0 DEF IssueToken
      <4>2. tokens'[e] \in Token
        BY <4>1, <1>r, <2>1 DEF Token
      <4> QED
        BY <3>2, <4>1, <4>2, <1>0, <2>1 DEF IssueToken, WritingFresh, Token
    <3>3. CASE CheckFails(e)
      BY <3>3, <1>0, <2>1 DEF CheckFails, Token
    <3> QED
      BY <1>1, <3>1, <3>2, <3>3
  <2> QED
    BY <1>0, <2>2, <2>3 DEF ExportTypeOK, RetryPossible, WritingFresh, Open, Listed, Sending
<1>2. ASSUME NEW d \in Downloads, NEW e \in Exports, StartDownload(d, e)
      PROVE  TokenInv'
  <2>0. tokens[e] \in Token
    BY <1>0
  <2>1. [tokens[e] EXCEPT !.leased = TRUE, !.lease = Lease] \in Token
    BY <1>r, <2>0 DEF Token
  <2>2. /\ tokens' = [tokens EXCEPT ![e].leased = TRUE, ![e].lease = Lease]
        /\ download' = [download EXCEPT ![d] = [export |-> e, age |-> 0]]
        /\ UNCHANGED <<files, since, delivered, slow, kept>>
        /\ Listed(e)
    BY <1>2 DEF StartDownload, Acquirable
  <2>3. tokens' \in [Exports -> Token]
    BY <1>0, <2>1, <2>2
  <2>4. [export |-> e, age |-> 0] \in [export: Exports \cup {None}, age: 0 .. Lease]
    OBVIOUS
  <2>5. /\ download' \in [Downloads -> [export: Exports \cup {None}, age: 0 .. Lease]]
        /\ \A c \in Downloads : download'[c].export = None => download'[c] = Idle
    BY <1>0, <2>2, <2>4 DEF ExportTypeOK
  <2>6. \A h \in Exports : /\ tokens'[h].status = tokens[h].status
                           /\ tokens'[h].used = tokens[h].used
                           /\ h # e => tokens'[h] = tokens[h]
    BY <1>0, <2>0, <2>2 DEF Token
  <2>7. tokens'[e].lease = Lease
    BY <1>0, <2>0, <2>2 DEF Token
  <2>8. \A c \in Downloads, h \in Exports : Sending(c, h)' => Sending(c, h) \/ h = e
    BY <1>0, <2>2 DEF Sending
  <2> QED
    BY <1>0, <2>2, <2>3, <2>5, <2>6, <2>7, <2>8
       DEF ExportTypeOK, RetryPossible, WritingFresh, Open, Listed
<1>3. ASSUME NEW d \in Downloads, DownloadEnds(d) \/ DownloadFails(d)
      PROVE  TokenInv'
  <2> DEFINE e == download[d].export
  <2>1. e \in Exports /\ download' = [download EXCEPT ![d] = Idle] /\ UNCHANGED <<since, slow>>
    BY <1>3, DownloadFields DEF DownloadEnds, DownloadFails
  <2>2. tokens[e] \in Token
    BY <1>0, <2>1
  <2>3. /\ tokens' \in [Exports -> Token]
        /\ \A h \in Exports : /\ tokens'[h].status = tokens[h].status
                              /\ tokens[h].used => tokens'[h].used
                              /\ tokens'[h].leased =>
                                    tokens[h].leased /\ tokens'[h].lease = tokens[h].lease
    <3>1. tokens' \in {tokens, [tokens EXCEPT ![e].used = TRUE],
                       [tokens EXCEPT ![e].leased = FALSE, ![e].lease = 0]}
      BY <1>3 DEF DownloadEnds, DownloadFails, MarkUsed, ReleaseLease
    <3>2. /\ [tokens[e] EXCEPT !.used = TRUE] \in Token
          /\ [tokens[e] EXCEPT !.leased = FALSE, !.lease = 0] \in Token
      BY <1>r, <2>2 DEF Token
    <3>3. CASE tokens' = [tokens EXCEPT ![e].used = TRUE]
      BY <3>2, <3>3, <1>0, <2>1, <2>2 DEF Token
    <3>4. CASE tokens' = [tokens EXCEPT ![e].leased = FALSE, ![e].lease = 0]
      BY <3>2, <3>4, <1>0, <2>1, <2>2 DEF Token
    <3> QED
      BY <3>1, <3>3, <3>4, <1>0
  <2>4. /\ download' \in [Downloads -> [export: Exports \cup {None}, age: 0 .. Lease]]
        /\ \A c \in Downloads : download'[c].export = None => download'[c] = Idle
    BY <1>0, <1>i, <2>1 DEF ExportTypeOK
  <2>5. delivered' \in [Exports -> Nat]
    BY <1>0, <1>3, <2>1 DEF DownloadEnds, DownloadFails
  <2>6. /\ files' \subseteq Exports /\ kept' \subseteq Exports
        /\ files \ {e} \subseteq files'
        /\ e \notin files' => e \notin files \/ DownloadEnds(d)
    BY <1>0, <1>3, <2>1, UnlinkType DEF DownloadEnds, DownloadFails
  <2>7. DownloadEnds(d) /\ Listed(e) => tokens'[e].used
    BY <1>0, <2>1, <2>2 DEF DownloadEnds, MarkUsed, Token
  <2>8. tokens[e].status \notin {"none", "writing"} /\ Sending(d, e)
    BY <2>1 DEF WritingFresh, Sending
  <2>9. \A c \in Downloads, h \in Exports : Sending(c, h)' => Sending(c, h)
    BY <1>0, <1>i, <2>1 DEF Sending
  <2> QED
    BY <1>0, <2>1, <2>3, <2>4, <2>5, <2>6, <2>7, <2>8, <2>9
       DEF ExportTypeOK, RetryPossible, WritingFresh, Open, Listed
<1>4. CASE CleanUp
  <2> DEFINE disposed == {e \in Exports : Disposable(e)}
  <2>1. /\ tokens' = [e \in Exports |->
                        IF e \in disposed THEN [tokens[e] EXCEPT !.status = "gone"]
                        ELSE IF e \in Releasable THEN [tokens[e] EXCEPT !.leased = FALSE, !.lease = 0]
                        ELSE tokens[e]]
        /\ Unlink(disposed) /\ kept' = kept \cup (disposed \cap files')
        /\ since' = 0 /\ UNCHANGED <<download, delivered, slow>>
    BY <1>4 DEF CleanUp, DisposeFiles
  <2>2. /\ files' \subseteq Exports /\ kept' \subseteq Exports
        /\ files \ disposed \subseteq files'
    BY <1>0, <2>1, UnlinkType
  <2>3. ASSUME NEW e \in Exports
        PROVE  /\ tokens'[e] \in Token
               /\ tokens'[e].status = IF e \in disposed THEN "gone" ELSE tokens[e].status
               /\ tokens'[e].used = tokens[e].used
               /\ tokens'[e].leased => tokens[e].leased /\ tokens'[e].lease = tokens[e].lease
               /\ tokens'[e].leased => e \in disposed \/ ~LeaseOver(e)
    <3>1. tokens[e] \in Token
      BY <1>0
    <3>2. /\ [tokens[e] EXCEPT !.status = "gone"] \in Token
          /\ [tokens[e] EXCEPT !.leased = FALSE, !.lease = 0] \in Token
      BY <1>r, <3>1 DEF Token
    <3> HIDE DEF disposed
    <3> QED
      BY <2>1, <3>1, <3>2 DEF Token, Releasable
  <2>4. \A e \in disposed : Listed(e)
    BY DEF Disposable
  <2>5. since' = 0 /\ UNCHANGED <<download, delivered, slow>>
    BY <2>1
  <2>6. tokens' \in [Exports -> Token]
    BY <2>1, <2>3
  <2>7. \A e \in Exports : tokens[e].lease \in Int
    BY TokenFields
  <2> HIDE DEF disposed
  <2> QED
    BY <1>0, <2>2, <2>3, <2>4, <2>5, <2>6, <2>7
       DEF ExportTypeOK, RetryPossible, WritingFresh, Open, Listed, LeaseOver, Sending
<1>5. CASE Crash
  <2>1. /\ tokens' = [e \in Exports |-> IF tokens[e].status = "writing"
                        THEN [tokens[e] EXCEPT !.status = "gone"] ELSE tokens[e]]
        /\ download' = [d \in Downloads |-> Idle]
        /\ UNCHANGED <<files, since, delivered, slow, kept>>
    BY <1>5 DEF Crash
  <2>2. ASSUME NEW e \in Exports
        PROVE  /\ tokens'[e] \in Token
               /\ tokens'[e].status = IF tokens[e].status = "writing" THEN "gone"
                                      ELSE tokens[e].status
               /\ tokens'[e].used = tokens[e].used /\ tokens'[e].leased = tokens[e].leased
               /\ tokens'[e].lease = tokens[e].lease
    BY <1>0, <2>1 DEF Token
  <2>3. tokens' \in [Exports -> Token]
    BY <2>1, <2>2
  <2>4. /\ download' \in [Downloads -> [export: Exports \cup {None}, age: 0 .. Lease]]
        /\ \A d \in Downloads : download'[d] = Idle /\ download'[d].export \notin Exports
    BY <1>i, <2>1
  <2> QED
    BY <1>0, <2>1, <2>2, <2>3, <2>4
       DEF ExportTypeOK, RetryPossible, WritingFresh, Open, Listed, Sending
<1>6. CASE Tick
  <2>1. /\ since' = (IF since < Late THEN since + 1 ELSE since) /\ since' \in 0 .. Late
        /\ UNCHANGED <<files, delivered, kept>>
    <3>1. since \in Nat /\ since <= Late /\ Late \in Nat
      BY <1>0
    <3>2. /\ since' = (IF since < Late THEN since + 1 ELSE since)
          /\ UNCHANGED <<files, delivered, kept>>
      BY <1>6 DEF Tick
    <3> QED
      BY <3>1, <3>2
  <2>0. slow' \in [Exports -> Nat]
    <3>1. \A e \in Exports : slow[e] \in Nat /\ slow[e] + 1 \in Nat
      BY <1>0
    <3>2. slow' = [e \in Exports |-> IF Outlives(e) THEN slow[e] + 1 ELSE slow[e]]
      BY <1>6 DEF Tick
    <3> QED
      BY <3>1, <3>2
  <2>2. ASSUME NEW e \in Exports
        PROVE  /\ tokens'[e] \in Token
               /\ tokens'[e].status = tokens[e].status /\ tokens'[e].used = tokens[e].used
               /\ tokens'[e].leased = tokens[e].leased
               /\ tokens[e].leased /\ tokens[e].lease >= -since => tokens'[e].lease >= -since'
    <3> DEFINE left2 == Aged(tokens[e].left, -1)
               lease2 == IF tokens[e].leased THEN Aged(tokens[e].lease, -Late)
                         ELSE tokens[e].lease
    <3>1. tokens'[e] = [tokens[e] EXCEPT !.left = left2, !.lease = lease2]
      BY <1>6, <1>0, TokenFields DEF Tick, Token
    <3>2. left2 \in -1 .. TTL /\ lease2 \in -Late .. Lease
      BY TokenFields DEF Aged
    <3>3. tokens[e].leased /\ tokens[e].lease >= -since => lease2 >= -since'
      BY <1>0, <2>1, TokenFields DEF Aged
    <3>4. tokens[e] \in Token
      BY <1>0
    <3> HIDE DEF left2, lease2
    <3>5. tokens'[e] \in Token
      BY <3>1, <3>2, <3>4 DEF Token
    <3> QED
      BY <2>1, <3>1, <3>3, <3>4, <3>5 DEF Token
  <2>3. tokens' \in [Exports -> Token]
    BY <1>6, <2>2 DEF Tick
  <2>4. ASSUME NEW d \in Downloads
        PROVE  /\ download'[d] \in [export: Exports \cup {None}, age: 0 .. Lease]
               /\ download'[d].export = download[d].export
               /\ download'[d].export = None => download'[d] = Idle
    <3>1. CASE download[d].export = None \/ download[d].age = Lease
      BY <1>0, <1>6, <3>1 DEF Tick, ExportTypeOK
    <3>2. CASE download[d].export # None /\ download[d].age # Lease
      <4>1. download[d].age \in Nat /\ download[d].age <= Lease
        BY DownloadFields
      <4>2. download[d].age + 1 \in 0 .. Lease
        BY <3>2, <4>1
      <4>3. download'[d] = [download[d] EXCEPT !.age = @ + 1]
        BY <1>6, <3>2 DEF Tick
      <4>4. download'[d] = [export |-> download[d].export, age |-> download[d].age + 1]
        BY <4>3, <1>0
      <4> QED
        BY <1>0, <3>2, <4>2, <4>4
    <3> QED
      BY <3>1, <3>2
  <2>5. download' \in [Downloads -> [export: Exports \cup {None}, age: 0 .. Lease]]
    BY <1>6, <2>4 DEF Tick
  <2> QED
    BY <1>0, <2>0, <2>1, <2>2, <2>3, <2>4, <2>5
       DEF ExportTypeOK, RetryPossible, WritingFresh, Open, Listed, Sending
<1> QED
  BY <1>1, <1>2, <1>3, <1>4, <1>5, <1>6 DEF Next

-----------------------------------------------------------------------------
(* The uses of a token *)

LEMMA SendersFinite ==
    ASSUME ExportTypeOK, NEW e \in Exports
    PROVE  /\ IsFiniteSet(Senders(e)) /\ Cardinality(Senders(e)) \in Nat
           /\ Uses(e) \in Nat /\ delivered[e] \in Nat /\ slow[e] \in Nat
<1>1. Senders(e) \subseteq Downloads
  BY DEF Senders
<1>2. IsFiniteSet(Senders(e)) /\ Cardinality(Senders(e)) \in Nat
  BY <1>1, ExportConstants, FS_Subset, FS_CardinalityType
<1> QED
  BY <1>2 DEF Uses, ExportTypeOK

LEMMA UsesBound ==
    ASSUME TokenInv, UsesCounted
    PROVE  OneDownload /\ SingleUse
<1> SUFFICES ASSUME NEW e \in Exports
             PROVE  Cardinality(Senders(e)) <= 1 + slow[e] /\ delivered[e] <= 1 + slow[e]
  BY DEF OneDownload, SingleUse
<1>1. /\ Cardinality(Senders(e)) \in Nat /\ delivered[e] \in Nat /\ slow[e] \in Nat
  BY SendersFinite DEF TokenInv
<1>2. delivered[e] + Cardinality(Senders(e)) <= 1 + slow[e]
  BY DEF UsesCounted, Uses
<1> QED
  BY <1>1, <1>2

LEMMA DownloadNext ==
    ASSUME DownloadInv, [Next]_vars
    PROVE  DownloadInv'
<1> USE ExportConstants
<1>0. TokenInv'
  BY TokenNext DEF DownloadInv
<1>a. ExportTypeOK /\ UsesCounted /\ Unsent /\ TokenInv /\ WritingFresh
  BY DEF DownloadInv, TokenInv
<1>b. /\ tokens \in [Exports -> Token]
      /\ download \in [Downloads -> [export: Exports \cup {None}, age: 0 .. Lease]]
      /\ delivered \in [Exports -> Nat] /\ slow \in [Exports -> Nat]
  BY <1>a DEF ExportTypeOK
<1>i. \A e \in Exports : Idle.export # e
  BY DEF Idle
<1>n. \A e \in Exports : /\ IsFiniteSet(Senders(e)) /\ Cardinality(Senders(e)) \in Nat
                         /\ Uses(e) \in Nat /\ delivered[e] \in Nat /\ slow[e] \in Nat
  BY <1>a, SendersFinite
\* An export whose token and whose downloads do not change.
<1>k. ASSUME NEW h \in Exports,
             tokens'[h] = tokens[h], delivered'[h] = delivered[h], slow'[h] = slow[h],
             \A c \in Downloads : \/ download'[c] = download[c]
                                  \/ ~Sending(c, h) /\ ~Sending(c, h)'
      PROVE  /\ Uses(h)' <= 1 + slow'[h]
             /\ Open(h)' /\ ~Held(h)' => Uses(h)' <= slow'[h]
  <2>1. Senders(h)' = Senders(h)
    BY <1>k DEF Senders, Sending
  <2>2. Uses(h)' = Uses(h)
    BY <1>k, <2>1 DEF Uses
  <2>3. (Open(h)' <=> Open(h)) /\ (Held(h)' <=> Held(h))
    BY <1>k DEF Open, Listed, Held, Sending
  <2> QED
    BY <1>a, <1>k, <2>2, <2>3 DEF UsesCounted
<1> SUFFICES ASSUME Next PROVE UsesCounted' /\ Unsent'
  <2>1. ASSUME UNCHANGED vars PROVE UsesCounted' /\ Unsent'
    <3>1. \A h \in Exports : Uses(h)' = Uses(h) /\ (Open(h)' <=> Open(h)) /\ (Held(h)' <=> Held(h))
      BY <2>1 DEF vars, Uses, Senders, Open, Listed, Held, Sending
    <3> QED
      BY <1>a, <2>1, <3>1 DEF vars, UsesCounted, Unsent
  <2> QED
    BY <1>0, <2>1 DEF DownloadInv
<1>1. ASSUME NEW e \in Exports, WriteFile(e) \/ IssueToken(e) \/ CheckFails(e)
      PROVE  UsesCounted' /\ Unsent'
  <2>1. /\ UNCHANGED <<download, delivered, slow>>
        /\ \A h \in Exports : h # e => tokens'[h] = tokens[h]
        /\ tokens[e].status \in {"none", "writing"}
    BY <1>1, <1>b DEF WriteFile, IssueToken, CheckFails
  <2>2. (\A d \in Downloads : ~Sending(d, e)) /\ delivered[e] = 0
    BY <1>a, <2>1 DEF WritingFresh, Unsent
  <2>3. Senders(e)' = {}
    BY <2>1, <2>2 DEF Senders, Sending
  <2>4. Uses(e)' = 0
    BY <2>1, <2>2, <2>3, FS_EmptySet DEF Uses
  <2>5. slow'[e] \in Nat /\ 0 <= slow'[e]
    BY <1>b, <2>1
  <2>6. \A h \in Exports : /\ Uses(h)' <= 1 + slow'[h]
                           /\ Open(h)' /\ ~Held(h)' => Uses(h)' <= slow'[h]
    BY <1>k, <2>1, <2>4, <2>5
  <2>7. Unsent'
    BY <1>a, <2>1, <2>2 DEF Unsent
  <2> QED
    BY <2>6, <2>7 DEF UsesCounted
<1>2. ASSUME NEW d \in Downloads, NEW e \in Exports, StartDownload(d, e)
      PROVE  UsesCounted' /\ Unsent'
  <2>1. /\ tokens' = [tokens EXCEPT ![e].leased = TRUE, ![e].lease = Lease]
        /\ download' = [download EXCEPT ![d] = [export |-> e, age |-> 0]]
        /\ UNCHANGED <<delivered, slow>> /\ Acquirable(e) /\ download[d] = Idle
    BY <1>2 DEF StartDownload
  <2>2. tokens[e] \in Token
    BY <1>b
  <2>3. /\ \A h \in Exports : tokens'[h].status = tokens[h].status /\ (h # e => tokens'[h] = tokens[h])
        /\ tokens'[e].leased /\ tokens'[e].lease = Lease
    BY <1>b, <2>1, <2>2 DEF Token
  <2>4. /\ \A c \in Downloads : c # d => download'[c] = download[c]
        /\ download'[d].export = e /\ download'[d].age = 0
        /\ \A h \in Exports : ~Sending(d, h)
    BY <1>b, <1>i, <2>1 DEF Sending
  <2>5. Open(e) /\ ~Held(e)
    <3>1. tokens[e].lease \in Int
      BY <1>a, TokenFields
    <3> QED
      BY <2>1, <3>1 DEF Acquirable, Open, Held
  <2>6. Held(e)'
    <3>1. Sending(d, e)' /\ download'[d].age = Lease - tokens'[e].lease
      BY <2>3, <2>4 DEF Sending
    <3> QED
      BY <2>3, <3>1 DEF Held
  <2>7. Senders(e)' = Senders(e) \cup {d} /\ d \notin Senders(e)
    BY <2>4 DEF Senders, Sending
  <2>8. Cardinality(Senders(e)') = Cardinality(Senders(e)) + 1
    BY <1>n, <2>7, FS_AddElement
  <2>9. Uses(e)' = Uses(e) + 1 /\ Uses(e) <= slow[e]
    <3>1. Uses(e)' = delivered[e] + (Cardinality(Senders(e)) + 1)
      BY <2>1, <2>8 DEF Uses
    <3>2. Uses(e) <= slow[e]
      BY <1>a, <2>5 DEF UsesCounted
    <3> QED
      BY <1>n, <3>1, <3>2 DEF Uses
  <2>10. \A h \in Exports : /\ Uses(h)' <= 1 + slow'[h]
                            /\ Open(h)' /\ ~Held(h)' => Uses(h)' <= slow'[h]
    <3> SUFFICES ASSUME NEW h \in Exports
                 PROVE  /\ Uses(h)' <= 1 + slow'[h]
                        /\ Open(h)' /\ ~Held(h)' => Uses(h)' <= slow'[h]
      OBVIOUS
    <3>1. CASE h = e
      <4>1. Uses(e) \in Nat /\ slow[e] \in Nat /\ slow'[e] = slow[e]
        BY <1>n, <2>1
      <4> QED
        BY <2>6, <2>9, <3>1, <4>1
    <3>2. CASE h # e
      <4>1. ~Sending(d, h) /\ ~Sending(d, h)'
        BY <2>4, <3>2 DEF Sending
      <4> QED
        BY <1>k, <2>1, <2>3, <2>4, <3>2, <4>1
    <3> QED
      BY <3>1, <3>2
  <2>11. Unsent'
    BY <1>a, <2>1, <2>3 DEF Unsent
  <2> QED
    BY <2>10, <2>11 DEF UsesCounted
<1>3. ASSUME NEW d \in Downloads, DownloadEnds(d) \/ DownloadFails(d)
      PROVE  UsesCounted' /\ Unsent'
  <2>0. PICK e \in Exports : e = download[d].export
    BY <1>3, <1>a, DownloadFields DEF DownloadEnds, DownloadFails
  <2>1. /\ download' = [download EXCEPT ![d] = Idle] /\ Sending(d, e)
        /\ slow' = slow
    BY <1>3, <2>0 DEF DownloadEnds, DownloadFails, Sending
  <2>2. tokens[e] \in Token
    BY <1>b, <2>1
  <2>3. /\ \A h \in Exports : /\ tokens'[h].status = tokens[h].status
                              /\ h # e => tokens'[h] = tokens[h] /\ delivered'[h] = delivered[h]
        /\ DownloadEnds(d) /\ Listed(e) => tokens'[e].used
        /\ tokens[e].used => tokens'[e].used
    BY <1>3, <1>b, <2>0, <2>1, <2>2 DEF DownloadEnds, DownloadFails, MarkUsed, ReleaseLease, Token
  <2>4. delivered'[e] = IF DownloadEnds(d) THEN delivered[e] + 1 ELSE delivered[e]
    BY <1>3, <1>b, <2>0, <2>1 DEF DownloadEnds, DownloadFails
  <2>5. /\ \A c \in Downloads : c # d => download'[c] = download[c]
        /\ \A h \in Exports : ~Sending(d, h)' /\ (h # e => ~Sending(d, h))
    BY <1>b, <1>i, <2>1 DEF Sending
  <2>6. Senders(e)' = Senders(e) \ {d} /\ d \in Senders(e)
    BY <2>1, <2>5 DEF Senders, Sending
  <2>7. Cardinality(Senders(e)') = Cardinality(Senders(e)) - 1
    BY <1>n, <2>1, <2>6, FS_RemoveElement
  <2>8. tokens[e].status \notin {"none", "writing"}
    BY <1>a, <2>1 DEF WritingFresh
  <2>9. Open(e)' => ~DownloadEnds(d)
    BY <2>1, <2>3 DEF Open, Listed
  <2>10. \A h \in Exports : /\ Uses(h)' <= 1 + slow'[h]
                            /\ Open(h)' /\ ~Held(h)' => Uses(h)' <= slow'[h]
    <3> SUFFICES ASSUME NEW h \in Exports
                 PROVE  /\ Uses(h)' <= 1 + slow'[h]
                        /\ Open(h)' /\ ~Held(h)' => Uses(h)' <= slow'[h]
      OBVIOUS
    <3>1. CASE h = e
      <4>1. Uses(e)' = delivered'[e] + (Cardinality(Senders(e)) - 1)
        BY <2>7 DEF Uses
      <4>2. Uses(e) = delivered[e] + Cardinality(Senders(e)) /\ Uses(e) <= 1 + slow[e]
        BY <1>a, <2>1 DEF Uses, UsesCounted
      <4>3. /\ delivered[e] \in Nat /\ Cardinality(Senders(e)) \in Nat /\ slow[e] \in Nat
            /\ slow'[e] = slow[e]
        BY <1>n, <2>1
      <4>4. Uses(e)' <= 1 + slow'[e] /\ (~DownloadEnds(d) => Uses(e)' <= slow'[e])
        BY <2>4, <4>1, <4>2, <4>3
      <4> QED
        BY <2>9, <3>1, <4>4
    <3>2. CASE h # e
      BY <1>k, <2>1, <2>3, <2>5, <3>2
    <3> QED
      BY <3>1, <3>2
  <2>11. Unsent'
    BY <1>a, <2>3, <2>8 DEF Unsent
  <2> QED
    BY <2>10, <2>11 DEF UsesCounted
<1>4. CASE CleanUp
  <2>1. /\ UNCHANGED <<download, delivered, slow>>
        /\ \A e \in Exports : /\ tokens'[e].status \in {tokens[e].status, "gone"}
                              /\ tokens'[e].used = tokens[e].used
                              /\ Listed(e)' /\ ~LeaseOver(e) =>
                                    tokens'[e].leased = tokens[e].leased
                                    /\ tokens'[e].lease = tokens[e].lease
    <3>1. ASSUME NEW e \in Exports
          PROVE  /\ tokens'[e].status \in {tokens[e].status, "gone"}
                 /\ tokens'[e].used = tokens[e].used
                 /\ Listed(e)' /\ ~LeaseOver(e) =>
                       tokens'[e].leased = tokens[e].leased
                       /\ tokens'[e].lease = tokens[e].lease
      <4>1. tokens'[e] = IF Disposable(e) THEN [tokens[e] EXCEPT !.status = "gone"]
                         ELSE IF LeaseOver(e) THEN [tokens[e] EXCEPT !.leased = FALSE, !.lease = 0]
                         ELSE tokens[e]
        BY <1>4 DEF CleanUp, Releasable
      <4>2. tokens[e] \in Token
        BY <1>b
      <4> QED
        BY <4>1, <4>2 DEF Token, Listed
    <3>2. UNCHANGED <<download, delivered, slow>>
      BY <1>4 DEF CleanUp
    <3> QED
      BY <3>1, <3>2
  <2>2. ASSUME NEW h \in Exports
        PROVE  /\ Uses(h)' <= 1 + slow'[h]
               /\ Open(h)' /\ ~Held(h)' => Uses(h)' <= slow'[h]
    <3>1. Senders(h)' = Senders(h)
      BY <2>1 DEF Senders, Sending
    <3>2. Uses(h)' = Uses(h)
      BY <2>1, <3>1 DEF Uses
    <3>3. Open(h)' => Open(h)
      BY <2>1 DEF Open, Listed
    <3>4. Open(h)' /\ Held(h) => Held(h)'
      <4>1. tokens[h].lease \in Int
        BY <1>a, TokenFields
      <4> QED
        BY <2>1, <4>1 DEF Open, Listed, Held, LeaseOver, Sending
    <3> QED
      BY <1>a, <2>1, <3>2, <3>3, <3>4 DEF UsesCounted
  <2>3. Unsent'
    BY <1>a, <2>1 DEF Unsent
  <2> QED
    BY <2>2, <2>3 DEF UsesCounted
<1>5. CASE Crash
  <2>1. /\ UNCHANGED <<delivered, slow>>
        /\ \A e \in Exports : /\ tokens'[e].status \in {tokens[e].status, "gone"}
                              /\ tokens'[e].used = tokens[e].used
        /\ \A d \in Downloads, e \in Exports : ~Sending(d, e)'
    BY <1>5, <1>b, <1>i DEF Crash, Token, Sending
  <2>2. ASSUME NEW h \in Exports
        PROVE  /\ Uses(h)' <= 1 + slow'[h]
               /\ Open(h)' /\ ~Held(h)' => Uses(h)' <= slow'[h]
    <3>1. Senders(h)' = {}
      BY <2>1 DEF Senders
    <3>2. Uses(h)' = delivered[h] /\ slow'[h] = slow[h]
      <4>1. Uses(h)' = delivered[h] + 0
        BY <2>1, <3>1, FS_EmptySet DEF Uses
      <4> QED
        BY <1>n, <2>1, <4>1
    <3>3. Uses(h) = delivered[h] + Cardinality(Senders(h)) /\ Uses(h) <= 1 + slow[h]
      BY <1>a DEF Uses, UsesCounted
    <3>4. Open(h)' => Open(h)
      BY <2>1 DEF Open, Listed
    <3>5. CASE Senders(h) = {}
      <4>1. ~Held(h)
        BY <3>5 DEF Held, Senders
      <4>2. Open(h) => Uses(h) <= slow[h]
        BY <1>a, <4>1 DEF UsesCounted
      <4> QED
        BY <1>n, <3>2, <3>3, <3>4, <3>5, <4>2, FS_EmptySet
    <3>6. CASE Senders(h) # {}
      <4>1. Cardinality(Senders(h)) # 0
        BY <1>n, <3>6, FS_EmptySet
      <4> QED
        BY <1>n, <3>2, <3>3, <4>1
    <3> QED
      BY <3>5, <3>6
  <2>3. Unsent'
    BY <1>a, <2>1 DEF Unsent
  <2> QED
    BY <2>2, <2>3 DEF UsesCounted
<1>6. CASE Tick
  <2>1. /\ UNCHANGED delivered
        /\ \A e \in Exports : /\ tokens'[e].status = tokens[e].status
                              /\ tokens'[e].used = tokens[e].used
                              /\ tokens'[e].leased = tokens[e].leased
                              /\ tokens[e].leased => tokens'[e].lease = Aged(tokens[e].lease, -Late)
                              /\ slow'[e] = IF Outlives(e) THEN slow[e] + 1 ELSE slow[e]
    <3>1. ASSUME NEW e \in Exports
          PROVE  /\ tokens'[e].status = tokens[e].status
                 /\ tokens'[e].used = tokens[e].used
                 /\ tokens'[e].leased = tokens[e].leased
                 /\ tokens[e].leased => tokens'[e].lease = Aged(tokens[e].lease, -Late)
      <4>1. tokens'[e] = [tokens[e] EXCEPT
                             !.left = Aged(@, -1),
                             !.lease = IF tokens[e].leased THEN Aged(@, -Late) ELSE @]
        BY <1>6 DEF Tick
      <4>2. tokens[e] \in Token
        BY <1>b
      <4> QED
        BY <4>1, <4>2 DEF Token
    <3>2. \A e \in Exports : slow'[e] = IF Outlives(e) THEN slow[e] + 1 ELSE slow[e]
      BY <1>6 DEF Tick
    <3>3. UNCHANGED delivered
      BY <1>6 DEF Tick
    <3> QED
      BY <3>1, <3>2, <3>3
  <2>2. \A d \in Downloads :
            /\ \A e \in Exports : Sending(d, e)' <=> Sending(d, e)
            /\ download[d].export \in Exports /\ download[d].age # Lease =>
                  download'[d].age = download[d].age + 1
    <3> SUFFICES ASSUME NEW d \in Downloads
                 PROVE  /\ \A e \in Exports : Sending(d, e)' <=> Sending(d, e)
                        /\ download[d].export \in Exports /\ download[d].age # Lease =>
                              download'[d].age = download[d].age + 1
      OBVIOUS
    <3>1. download'[d] = IF download[d].export = None \/ download[d].age = Lease
                         THEN download[d] ELSE [download[d] EXCEPT !.age = @ + 1]
      BY <1>6 DEF Tick
    <3> QED
      BY <1>b, <3>1 DEF Sending
  <2>3. ASSUME NEW h \in Exports
        PROVE  /\ Uses(h)' <= 1 + slow'[h]
               /\ Open(h)' /\ ~Held(h)' => Uses(h)' <= slow'[h]
    <3>1. Senders(h)' = Senders(h)
      BY <2>2 DEF Senders
    <3>2. Uses(h)' = Uses(h) /\ Uses(h) \in Nat /\ slow[h] \in Nat
      BY <1>n, <2>1, <3>1 DEF Uses
    <3>3. Open(h)' <=> Open(h)
      BY <2>1 DEF Open, Listed
    <3>4. /\ Uses(h) <= 1 + slow[h]
          /\ Open(h) /\ ~Held(h) => Uses(h) <= slow[h]
      BY <1>a DEF UsesCounted
    <3>5. CASE Outlives(h)
      BY <2>1, <3>2, <3>4, <3>5
    <3>6. CASE ~Outlives(h)
      <4>1. slow'[h] = slow[h]
        BY <2>1, <3>6
      <4>2. ASSUME Held(h) PROVE Held(h)'
        <5>1. PICK d \in Downloads : Sending(d, h) /\ download[d].age = Lease - tokens[h].lease
          BY <4>2 DEF Held
        <5>2. tokens[h].leased /\ tokens[h].lease > 0 /\ tokens[h].lease \in Int
          BY <1>a, <4>2, TokenFields DEF Held
        <5>3. download[d].age # Lease - 1
          BY <3>6, <5>1 DEF Outlives
        <5>4. tokens[h].lease > 1
          BY <5>1, <5>2, <5>3
        <5>5. tokens'[h].lease = tokens[h].lease - 1
          BY <2>1, <5>2 DEF Aged
        <5>6. download'[d].age = download[d].age + 1
          BY <2>2, <5>1, <5>2 DEF Sending
        <5>7. download'[d].age = Lease - tokens'[h].lease /\ tokens'[h].lease > 0
          BY <5>1, <5>2, <5>4, <5>5, <5>6
        <5> QED
          BY <2>1, <2>2, <5>1, <5>2, <5>7 DEF Held
      <4> QED
        BY <3>2, <3>3, <3>4, <4>1, <4>2
    <3> QED
      BY <3>5, <3>6
  <2>4. Unsent'
    BY <1>a, <2>1 DEF Unsent
  <2> QED
    BY <2>3, <2>4 DEF UsesCounted
<1> QED
  BY <1>1, <1>2, <1>3, <1>4, <1>5, <1>6 DEF Next

-----------------------------------------------------------------------------

LEMMA TokenInvHolds == Spec => []TokenInv
<1>1. Init => TokenInv
  BY ExportInit DEF DownloadInv
<1> QED
  BY <1>1, TokenNext, PTL DEF Spec

\* Tokens, files and downloads have their types, and a token that can be used
\* has its file: no crash, failing unlink or race of a download with the
\* clean-up takes the file of a row that is left usable.
THEOREM TypeCorrect == Spec => []ExportTypeOK
<1>1. TokenInv => ExportTypeOK
  BY DEF TokenInv
<1> QED
  BY <1>1, TokenInvHolds, PTL

\* A lease that nobody uses is released by the next clean-up but one at the
\* latest, whatever crashes: the token can be used again.
THEOREM RetryStaysPossible == Spec => []RetryPossible
<1>1. TokenInv => RetryPossible
  BY DEF TokenInv
<1> QED
  BY <1>1, TokenInvHolds, PTL

LEMMA DownloadInvHolds == Spec => []DownloadInv
  BY ExportInit, DownloadNext, PTL DEF Spec

\* A token serves no more downloads at a time than one and those that were let
\* in because another had outlived its lease: clean-up and callbacks release
\* leases without asking whose they are, and /audit takes leases over.
THEOREM DownloadsExclude == Spec => []OneDownload
<1>1. DownloadInv => OneDownload
  BY UsesBound DEF DownloadInv
<1> QED
  BY <1>1, DownloadInvHolds, PTL

\* An export is sent to its end once, and once more at most for each time that
\* a download of it outlived its lease.
THEOREM DownloadedOnce == Spec => []SingleUse
<1>1. DownloadInv => SingleUse
  BY UsesBound DEF DownloadInv
<1> QED
  BY <1>1, DownloadInvHolds, PTL
=============================================================================
