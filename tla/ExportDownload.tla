--------------------------- MODULE ExportDownload ---------------------------
(***************************************************************************)
(* Exported files and their tokens: a backup of the database (server.ts)   *)
(* or a CSV of the audit log (audit-export-service.ts) is written, a token *)
(* for it inserted in export_tokens, downloaded under a lease of 60 s and  *)
(* removed by the download or by the clean-up of reconcile.                *)
(*                                                                         *)
(* Times are what is left of them, below 0 when they are over, so that the *)
(* instant at which an expiry and a clock are equal is a state of its own: *)
(* the statements compare with < in one place and with <= in another.      *)
(***************************************************************************)
EXTENDS Integers, FiniteSets

CONSTANTS
    Exports,       \* exports: their files and their tokens
    Audit,         \* those of /audit/export; the others are of /setup/download
    None,          \* no export
    Downloads,     \* responses that are being sent
    TTL,           \* of a token (15 min and 10 min)
    Lease,         \* of a download (60 s)
    Late,          \* bound: ages of the last clean-up that are told apart
    UnlinkMayFail, \* circumstance: the file system refuses to remove a file
    MayCrash       \* circumstance: the process dies and restarts

ASSUME ExportConstants ==
    /\ Audit \subseteq Exports /\ None \notin Exports
    /\ IsFiniteSet(Downloads)
    /\ TTL \in Nat /\ Lease \in Nat \ {0} /\ Late \in Nat
    /\ UnlinkMayFail \in BOOLEAN /\ MayCrash \in BOOLEAN

VARIABLES
    tokens,    \* export_tokens
    files,     \* exports whose file exists
    download,  \* download[d]: the export that is being sent, and for how long
    since,     \* time since the last clean-up, up to Late
    delivered, \* history: how often an export has been sent to its end
    slow,      \* history: how often a download of it has outlived its lease
    kept       \* history: exports whose row was deleted and whose file was not

vars == <<tokens, files, download, since, delivered, slow, kept>>

\* A row, from the start of its export: "writing" and "gone" are not in the
\* table.
Token ==
    [status: {"none", "writing", "listed", "gone"}, used: BOOLEAN, left: -1 .. TTL,
     leased: BOOLEAN, lease: -Late .. Lease]

Idle == [export |-> None, age |-> 0]

Sending(d, e) == download[d].export = e

Listed(e) == tokens[e].status = "listed"

Init ==
    /\ tokens = [e \in Exports |->
                   [status |-> "none", used |-> FALSE, left |-> 0, leased |-> FALSE, lease |-> 0]]
    /\ files = {}
    /\ download = [d \in Downloads |-> Idle]
    /\ since = 0
    /\ delivered = [e \in Exports |-> 0]
    /\ slow = [e \in Exports |-> 0]
    /\ kept = {}

-----------------------------------------------------------------------------
(* Making an export *)

\* POST /setup/export and exportToCsv: the file is written, over awaits.
WriteFile(e) ==
    /\ tokens[e].status = "none"
    /\ tokens' = [tokens EXCEPT ![e].status = "writing"]
    /\ files' = files \cup {e}
    /\ UNCHANGED <<download, since, delivered, slow, kept>>

IssueToken(e) ==
    /\ tokens[e].status = "writing"
    /\ tokens' = [tokens EXCEPT ![e].status = "listed", ![e].left = TTL]
    /\ UNCHANGED <<files, download, since, delivered, slow, kept>>

\* The integrity check fails: the file is removed.
CheckFails(e) ==
    /\ tokens[e].status = "writing" /\ e \notin Audit
    /\ tokens' = [tokens EXCEPT ![e].status = "gone"]
    /\ files' = files \ {e}
    /\ UNCHANGED <<download, since, delivered, slow, kept>>

-----------------------------------------------------------------------------
(* Downloads *)

\* The checks before the statement.  A lease that is over refuses a download
\* of /setup until the clean-up has released it; /audit takes it over.
MayStart(e) ==
    /\ tokens[e].left >= 0
    /\ tokens[e].leased => e \in Audit /\ tokens[e].lease < 0

\* The compare-and-set.
Acquirable(e) ==
    /\ Listed(e) /\ ~tokens[e].used
    /\ tokens[e].leased => tokens[e].lease <= 0

\* Deviation: neither the checks nor the statement ask for the lease.
StartUnchecked(d, e) ==
    /\ download[d] = Idle
    /\ Listed(e) /\ ~tokens[e].used
    /\ e \in files
    /\ tokens' = [tokens EXCEPT ![e].leased = TRUE, ![e].lease = Lease]
    /\ download' = [download EXCEPT ![d] = [export |-> e, age |-> 0]]
    /\ UNCHANGED <<files, since, delivered, slow, kept>>

StartDownload(d, e) ==
    /\ download[d] = Idle
    /\ MayStart(e) /\ Acquirable(e)
    /\ e \in files
    /\ tokens' = [tokens EXCEPT ![e].leased = TRUE, ![e].lease = Lease]
    /\ download' = [download EXCEPT ![d] = [export |-> e, age |-> 0]]
    /\ UNCHANGED <<files, since, delivered, slow, kept>>

\* fs.unlinkSync of some files; a failure is only logged.
Unlink(es) ==
    \E failing \in IF UnlinkMayFail THEN SUBSET (es \cap files) ELSE {{}} :
        files' = files \ (es \ failing)

\* Deviation: the token is not marked.
MarkNothing(e) == tokens

\* The row as the callback of the response leaves it; it may be gone.
MarkUsed(e) ==
    IF Listed(e) THEN [tokens EXCEPT ![e].used = TRUE] ELSE tokens

\* The lease goes, whoever holds it by now.
ReleaseLease(e) ==
    IF Listed(e) THEN [tokens EXCEPT ![e].leased = FALSE, ![e].lease = 0] ELSE tokens

DownloadEnds(d) ==
    LET e == download[d].export
    IN  /\ download[d] # Idle
        /\ tokens' = MarkUsed(e)
        /\ delivered' = [delivered EXCEPT ![e] = @ + 1]
        /\ IF e \in Audit THEN Unlink({e}) ELSE UNCHANGED files
        /\ download' = [download EXCEPT ![d] = Idle]
        /\ UNCHANGED <<since, slow, kept>>

DownloadFails(d) ==
    /\ download[d] # Idle
    /\ tokens' = ReleaseLease(download[d].export)
    /\ download' = [download EXCEPT ![d] = Idle]
    /\ UNCHANGED <<files, since, delivered, slow, kept>>

-----------------------------------------------------------------------------
(* The clean-up, time and crashes *)

LeaseOver(e) == Listed(e) /\ ~tokens[e].used /\ tokens[e].leased /\ tokens[e].lease <= 0

Disposable(e) == Listed(e) /\ (tokens[e].left <= 0 \/ tokens[e].used)

\* Deviation: leases are left to expire.
ReleaseNone == {}

Releasable == {e \in Exports : LeaseOver(e)}

\* Deviation: the rows are deleted and their files forgotten.
DisposeRows(es) == UNCHANGED <<files, kept>>

DisposeFiles(es) == Unlink(es) /\ kept' = kept \cup (es \cap files')

\* cleanupExportTokens: leases, then rows and files.
CleanUp ==
    LET disposed == {e \in Exports : Disposable(e)}
    IN  /\ tokens' = [e \in Exports |->
                        IF e \in disposed THEN [tokens[e] EXCEPT !.status = "gone"]
                        ELSE IF e \in Releasable THEN [tokens[e] EXCEPT !.leased = FALSE, !.lease = 0]
                        ELSE tokens[e]]
        /\ DisposeFiles(disposed)
        /\ since' = 0
        /\ UNCHANGED <<download, delivered, slow>>

\* The process dies; what it was writing or sending is lost.
Crash ==
    /\ MayCrash
    /\ \/ \E e \in Exports : tokens[e].status = "writing"
       \/ \E d \in Downloads : download[d] # Idle
    /\ tokens' = [e \in Exports |-> IF tokens[e].status = "writing"
                                    THEN [tokens[e] EXCEPT !.status = "gone"] ELSE tokens[e]]
    /\ download' = [d \in Downloads |-> Idle]
    /\ UNCHANGED <<files, since, delivered, slow, kept>>

Aged(n, limit) == IF n > limit THEN n - 1 ELSE n

\* A download of e lasts as long as its lease.
Outlives(e) == \E d \in Downloads : Sending(d, e) /\ download[d].age = Lease - 1

\* Nothing bounds a download, nor the sweep that holds the clean-up back.
Tick ==
    /\ since' = IF since < Late THEN since + 1 ELSE since
    /\ tokens' = [e \in Exports |->
                    [tokens[e] EXCEPT !.left = Aged(@, -1),
                                      !.lease = IF tokens[e].leased THEN Aged(@, -Late) ELSE @]]
    /\ download' = [d \in Downloads |->
                      IF download[d].export = None \/ download[d].age = Lease THEN download[d]
                      ELSE [download[d] EXCEPT !.age = @ + 1]]
    /\ slow' = [e \in Exports |-> IF Outlives(e) THEN slow[e] + 1 ELSE slow[e]]
    /\ UNCHANGED <<files, delivered, kept>>

Next ==
    \/ \E e \in Exports : WriteFile(e) \/ IssueToken(e) \/ CheckFails(e)
    \/ \E d \in Downloads, e \in Exports : StartDownload(d, e)
    \/ \E d \in Downloads : DownloadEnds(d) \/ DownloadFails(d)
    \/ CleanUp
    \/ Crash
    \/ Tick

Spec == Init /\ [][Next]_vars

\* The scheduler runs, a writer goes on, time passes.
FairSpec ==
    /\ Spec
    /\ WF_vars(Tick) /\ WF_vars(CleanUp)
    /\ \A e \in Exports : WF_vars(IssueToken(e) \/ CheckFails(e))

-----------------------------------------------------------------------------
(* Properties *)

\* Tokens, files and downloads have their types, and a token that is not used
\* has its file.
ExportTypeOK ==
    /\ tokens \in [Exports -> Token]
    /\ files \subseteq Exports
    /\ \A e \in Exports : Listed(e) /\ ~tokens[e].used => e \in files
    /\ download \in [Downloads -> [export: Exports \cup {None}, age: 0 .. Lease]]
    /\ \A d \in Downloads : download[d].export = None => download[d] = Idle
    /\ since \in 0 .. Late
    /\ delivered \in [Exports -> Nat] /\ slow \in [Exports -> Nat]
    /\ kept \subseteq Exports

Senders(e) == {d \in Downloads : Sending(d, e)}

\* A token serves one download at a time, and one more for each time that a
\* download of it has outlived its lease, although the clean-up and the
\* callbacks release leases without asking whose they are: a late callback
\* frees the lease of the download that came after (server.ts:349-361,
\* audit-routes.ts:85-131).
OneDownload == \A e \in Exports : Cardinality(Senders(e)) <= 1 + slow[e]

\* A file is sent to its end once, and once more for each time that a download
\* of it has outlived its lease, however late the callbacks of the slow ones
\* come, which mark, unlink and release (server.ts:259, 355).
SingleUse == \A e \in Exports : delivered[e] <= 1 + slow[e]

\* What docs/operations.md:100 says: concurrent downloads using the same token
\* are blocked.
Blocked == \A e \in Exports : Cardinality(Senders(e)) <= 1

\* A lease that is over is not older than the last clean-up, whoever died or
\* failed while holding it: it does not hold a token back for longer than the
\* scheduler takes (reconciliation-service.ts:158-177).
RetryPossible ==
    \A e \in Exports :
        Listed(e) /\ ~tokens[e].used /\ tokens[e].leased => tokens[e].lease >= -since

\* Once its token has been issued, an exported copy of the database or of the
\* log goes from the disk, unless the clean-up could not remove it when it
\* deleted its row; a removal that fails after the download does not matter
\* (reconciliation-service.ts:179-203, audit-routes.ts:117-130).
FilesRemoved == \A e \in Exports : Listed(e) ~> (e \notin files \/ e \in kept)

\* What cleanupExportTokens says of itself: it deletes orphan files.
OrphansRemoved == \A e \in Exports : e \in files ~> e \notin files
=============================================================================
