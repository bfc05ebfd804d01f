# A TLA+ model of LightGrant

LightGrant gives people temporary membership of GitHub teams: a user asks in
Slack, a policy or an approver says yes, a job adds the user to the team, and a
scheduler removes him when his time is over. This directory holds TLA+ modules
that model the parts of the program in which timing, concurrency and failure
decide whether that works, TLC configurations that check them, and proofs.
Every definition is translated from the source; `PROJECT.json` maps each one to
the lines it models.

## 1. The system

One Node.js process (several may share the database) over a SQLite file. The
driver is synchronous: a transaction, and all code between two `await`s, is
atomic with respect to the other handlers of the process; everything may
interleave at an `await`. A crash loses what a handler holds in its locals and
keeps what is committed.

| Component | State | Operations | Hard behaviour | What makes it correct |
|---|---|---|---|---|
| Grant rows (`grant-repository.ts`) | `grants`, `grant_requests` | create, extend, reactivate, revoke lease, finalize, hand back, reclaim | compare-and-set statements of several writers, partial unique index | a revoked row stays revoked; one managed row per user and team |
| Grant intent (`grant-service.ts`) | as above, `jobs` | `createGrantIntentTx` | meets a grant in any status | no request outlived by its grant; one decision |
| Granting access (`job-worker.ts`) | `jobs`, the membership | `handleGrantAccess`, failure handling | PUT without an answer, retries, deferral | the origin of a membership is never forgotten |
| Revocation (`revocation-service.ts`, `reconciliation-service.ts`, `scheduler.ts`) | revoke lease on the row | sweep, transition, fence, DELETE, verify, cancel | stale runs, DELETE that overtakes a new request, crashes | a DELETE only under a fresh lease; expired access goes away |
| Membership webhooks (`webhook-service.ts`) | `grants` | reconcile removals, elevations, demotions | late, repeated, reordered, lost events; the app's own changes come back as events | an event never turns a permanent member into a temporary one |
| Webhook deliveries (`github-webhook-routes.ts`, `webhook-service.ts`, `job-worker.ts`) | `webhook_deliveries` | receive, lease, process, fail, recover | redelivery, lease expiry, crash | handled by one call at a time, acknowledged only when handled |
| Job queue (`job-repository.ts`) | `jobs` | acquire a batch, complete, release, defer, fail | lock of 60 s that no later statement looks at | every waiting grant has a job; every job comes to rest |
| Access requests (`commands.ts`, `actions.ts`, `request-repository.ts`, `authorization-service.ts`) | `access_requests`, `approvals`, the Slack card | submit, approve, deny, deny modal | approvers race, roles change, the post fails | decided once, under authority; pending requests can be decided |
| Identity linking (`github-oauth-routes.ts`, `oauth-state-repository.ts`, `identity-repository.ts`) | `oauth_states`, `identity_links`, cookies | start, Slack check, GitHub callback | one-time state in several browsers and tabs, overlapping callbacks | a link is made in the browser that verified its flow; a flow is spent once |
| Notifications (`slack-notifier.ts`, `job-worker.ts`) | `notification_deliveries` | claim, send, record, recover | crash between send and record | sent, and repeated only when in doubt |
| Policies (`policy-*.ts`, `actions.ts`, `job-worker.ts`) | `policies`, `policy_versions` | upsert, evaluate, validate owners | everyone awaits GitHub between read and write | one active policy per team; disabled is final |
| Audit chain (`audit-repository.ts`) | `audit_events` | append, verify | two events of one operation, crashes between transactions | every event chained to the one before; approvals explained |
| Exports (`audit-export-service.ts`, `server.ts`, `reconciliation-service.ts`) | `export_tokens`, files | write, download, clean up | a lease that ends during the download; files that refuse to go | a token serves one download per lease that is kept, and files do not stay |
| Team catalogue, start-up, diagnostics | | | none | |

How they interact. Approving a request calls `createGrantIntentTx`, which
writes the grant and queues a `grant_access` job. The job worker executes jobs
one after the other and shares the rows of `grants` with the sweeper of the
scheduler and with the webhook handler; the three meet only in those rows and in
the membership at GitHub. Whatever they change at GitHub comes back as a
webhook. Results of requests become notification jobs of the same queue.
Policies decide whether a request needs an approver; the job that validates
their owners is queued by the scheduler, which also cleans up exports. Both
parties of a request need a linked identity. The scheduler never overlaps with
itself (`isTicking`), and the same holds for the job worker, but two processes
have two of each.

## 2. Modules

    GrantRepository          one row of grants and the statements that change it
      GrantStore             the shared tables, the clock, the membership, faults
        RevocationService    reconcile's sweep and revoke
        GrantAccess          the job worker on grant_access jobs
        GrantService         createGrantIntentTx
        MembershipWebhook    handleMembershipEvent
          AccessLifecycle    the four together, owners, time; the properties
            RevocationFence  the inductive invariant behind the fence
            MCAccessLifecycle
    WebhookDelivery          one row of webhook_deliveries
    RequestDecision          what deciding a request promises (abstract)
      AccessRequest          one request, its approvers and its card (MCAccessRequest)
    JobQueue                 jobs, batches, locks, the loop of a worker
      NotificationDelivery   messages to Slack and their rows (MCNotificationDelivery)
    AccountLink              what linking an account promises (abstract)
      OAuthLink              flows, browsers, callbacks (MCOAuthLink)
    ExportDownload           files, tokens, downloads, clean-up
    AuditChain               append, verify, damage
      PolicyAuthority        modal, evaluation and validation of policies
    *_proofs                 theorems

**GrantRepository.** `DbGrant` is a row without its constant columns. A
statement is an operator from row to row (`AcquireRevokeLease`,
`FinalizeSuccessfulRevoke`, `UpdateMutationState`, ...), its WHERE clause a
predicate (`LeaseAvailable`, `GetExpired`, `ReactivationStranded`). Alert
bookkeeping is left out.

**GrantStore.** `clock`, `grants`, `requested` (the expiries of the requests
linked to a grant), `jobs`, and GitHub's side: `role` and the history variable
`origin`, which says who created the membership. All rows of a model belong to
one (organization, team, user) key: rows of different keys share nothing but the
loops that walk over them. `Circumstances` names what may happen outside normal
operation; each run states which it admits.

**RevocationService.** A sweeper is one scheduler. Its `pc` is where `revoke`
stands between two awaits: `leased` after `transitionTx`, `read` with the live
role, `cancel` across the dynamic import, `deleting` while the DELETE is on the
wire, `deleted`, `verified`. `now` is taken once per sweep, as in `reconcile`;
fences are tested against the clock. A sweeper may stall anywhere and come back.

**GrantAccess.** A worker holds one job. It defers to a revocation, reclaims a
stranded reactivation, reads the membership, records `add_request_sent`, sends
the PUT, and records what it found; failures go through `handleJobFailure`, which
goes by the attempt count that the row had when the job was acquired (`last`). In
the circumstance `stolen_job` another worker takes a job over that is still
being run.

**GrantService**, **MembershipWebhook.** One transaction each; the webhook
handler reads the live role in one step and applies it in another.

**WebhookDelivery.** One row under the route, the administrator's endpoint, the
`reprocess_webhook` jobs and the recovery scan. `kind` is what the payload
holds: a membership event of the organization, of another one, or another event.
A read ends within `ReadTimeout` and not before the lease does. The history
`overrun` says that a read has outlived its lease and that a call that overlaps
it is still under way.

**AccessRequest.** One request. `submission` is where the modal's handler is,
`click[c]` where the handlers of the approvers' clicks are; `card` is what the
approval channel shows, `role` what GitHub says of the approvers. What policies
say is left open (PolicyAuthority has it). `held` is a history flag. The first
checks of a click read request and link in the same step as the click, as the
code does.

**JobQueue.** `acquireNextJobs` puts stale rows back and locks a batch; the
worker remembers ids and attempt counts and executes one job after the other
(`phase`: before the first statement, in a call, done, threw). None of
`completeJob`, `releaseJobForRetry` and `failJob` asks who holds the row, so a
job that outlives its lock is run by two workers, and the model lets it be.
Times are counters that run down (`wait`) or up (`held`) as long as it matters,
so no clock bounds a run.

**NotificationDelivery.** The key of a message, its row in
`notification_deliveries` and the two jobs that send: claim, call, record,
complete. A call of Slack takes any time, and `age` says only whether its row
counts as stuck by now. The histories `told`, `copies` and `doubts` say which
jobs' messages reached Slack, how often each key did, and how many sends were in
doubt (their outcome was not recorded as it was, or they were still out when
their row became stuck); `overrun` has the keys of which such a call, or one
that overlaps it, is under way. The key of an alert contains a window of time,
which `HandleJobFailure` computes again, as the code does.

**OAuthLink.** `states` is `oauth_states`, a `handler` a callback that awaits
Slack or GitHub; browsers keep the binding cookie. A callback of Slack brings a
code, and whose it is is a property of the code: `SlackCallback` takes a code of
any user in any browser. The code compares that user with the flow's
(`github-oauth-routes.ts:210-231`) and binds the flow to the browser only then.
The history `verified` has who was verified where. States and cookies may expire
at any moment.
**AccountLink** is what that promises: a flow goes through its states one way
and makes at most one link, and links are one-to-one.

**ExportDownload.** A token is a row with what is left of its life and of its
lease; the instant at which one is exactly 0 is a state of its own, since the
statements compare with `<` here and with `<=` there. A download takes any time
and ends in a callback that looks at nothing but the row's id; the history `slow`
counts, for each token, the downloads that were still under way when their lease
was over, `kept` has the files whose row was deleted although they could not be
removed.

**AuditChain** is `writeEventTx` and `verifyChain` over an injective hash, and
`Damaged`: a missing row, a missing row with the gap closed, two rows swapped,
columns replaced. **PolicyAuthority** writes to it. A `modal`, a `request` and
the `validator` remember what they have read and await GitHub between any two
steps. An evaluation that has matched writes `policy.evaluated` in one
transaction and the approval in another; the validator disables a policy in a
step after its second answer.

**\*_proofs** hold definitions and theorems of section 4. `RevocationFence_proofs`
extends `AccessLifecycle_proofs`; the others stand for one component each.

Deviations (`... \* Deviation:`) are forms of a definition with a plausible bug.
They are used by no specification; replacing the original by one of them shows
that a property can fail.

## 3. Runs

### Runs that pass

| Run | Question | Instance |
|---|---|---|
| `lifecycle` | Does a grant keep its promises from approval to removal, and do things come to an end? `TypeOK`, `ExpiryCoversRequests`, `AppMembershipAccounted`, `RevokedIsFinal` (of grants whose membership the app created); `ExpiredAccessRemoved`, `PendingSettles`, `RevokingSettles` | one grant, sweeper and worker under fair loops; requests of two lengths; a slow cancellation, a late fence; 3 faults |
| `processes` | Do two processes keep out of each other's way? `RemovalIsFenced`, `NoAddDuringRemoval`, `ActiveHasMember`, `WaitingHasJob` | two sweepers and two workers that stall past each other's leases; jobs that give up after two attempts; 2 faults |
| `permanent_member` | Is a member of long standing safe? `PreexistingProtected` | two grant rows, two workers that take each other's jobs over, owners who add, remove and promote |
| `elevation` | Is it remembered who created a membership? `OriginRemembered` | webhook events late, lost, repeated, out of order; promotions and removals |
| `webhook` | Is a delivery handled by one call, acknowledged only then, and found again after a crash, although reads may outlive the lease? `LeaseExcludes`, `AcknowledgedIsHandled`, `ProcessedIsFinal`, `AbandonedIsHandled` | 3 calls, a job, 3 requests, 3 faults; the code's 30 s lease and 60 s reads |
| `decisions` | Is a request decided once, under authority, and told the same way everywhere? `DecisionsAgree`, `DecisionUnderAuthority`, `CardShowsDecision`, and `DecidedOnce`: the model implements RequestDecision | 2 approvers, 2 handlers at a time; roles, links, failures and crashes without bound |
| `notifications` | Is a message sent by one worker, and again only in doubt? Does every job come to rest, and its message get through? `RepeatedOnlyInDoubt`, `OneSender`, `JobsSettle`, `QueuedIsTold` | 2 jobs, 2 workers, batches, locks that run out, calls of any length, a failed call or a crash anywhere |
| `oauth` | Is a link made where its flow was verified? `LinkFromVerifiedBrowser`, `AskedOnce`, and `FlowsMoveForward`: the model implements AccountLink | 3 flows, 2 browsers, codes of 2 users, 2 callbacks at a time; states and cookies expire, the process restarts |
| `exports` | Does a token serve one download as long as leases are kept, and do files go? `ExportTypeOK`, `OneDownload`, `SingleUse`, `RetryPossible`, `FilesRemoved` | a backup and a CSV, 2 downloads of any length, files that cannot be removed, crashes |
| `policies` | Do policies stay what the log says of them? `PolicyTypeOK`, `OneActivePolicy`, `LogTellsVersions`, `LogExplainsApprovals`, `ChainHolds`, `DisabledIsFinal`, `LostOwnersDisabled` | 2 policies of a team, 2 people, 2 modals, a request, the validator; a change of roles, a fault |

### Runs that find a violation

Each states what a comment or a document of the repository says, and the trace
is what the code does. `PROJECT.json` quotes the lines.

| Run | What happens |
|---|---|
| `lost_hand_back` | A request approved while the revocation of an `already_present` grant is between its lease and its last transaction is revoked with it; its job then adds the user for good. `finalizeRevocationWithLease` lacks the test that `finalizeSuccessfulRevoke` makes. |
| `lost_card` | A request whose card could not be posted, or whose automatic approval did not commit, stays pending where nobody sees it. |

Other disagreements show in the same models when a configuration is changed as
the tables say; no configuration is kept for them, and no passing run covers the
case: it leaves the circumstance out (AccessLifecycle) or excuses it by name in
the property. Starting from `lost_hand_back.cfg` (for `ExpiredAccessRemoved`
under `FairSpec` and without symmetry):

| Change | Property | What happens |
|---|---|---|
| `Admits = {"stall", "late_fence"}`, `MaxFaults = 0` | `RemovalIsFenced` | The fence has no margin: a revocation that passes it in the last minute of its lease sends a DELETE (up to 60 s, `github-client.ts:52`) that is still on the wire when the lease is over. `revocation-service.ts:453` says that "only the run that still holds this lease may delete the member". |
| `Admits = {"stall", "late_fence"}` | `ActiveHasMember` | That DELETE removes the member of a grant that is active again. |
| `Admits = {"preexisting", "promotion", "webhook"}` | `PreexistingProtected` | While the grant of a permanent member is pending an owner promotes him: the event makes the app the creator of a membership it never created (`webhook-service.ts:316`), and the sweep removes him when he is a member again. `src/README.md:22` says that such members are excluded from automated revocation. |
| `Admits = {"webhook"}`, `MaxFaults = 0`, `MaxTime = 12` | `ExpiredAccessRemoved` | The `removed` event of the app's own DELETE revokes a grant that has just been handed back (`webhook-service.ts:192`); its job adds the user, and no sweep looks at the grant again. Nothing fails. `USER_MANUAL.md:52` says that the user is removed once the duration is over. |
| `Admits = {"late_fence"}`, `MaxAttempts = 1`, `MaxFaults = 1`, `MaxTime = 12` | `ExpiredAccessRemoved` | The last attempt of a job fails after GitHub added the user (`job-worker.ts:1513`): the grant is `grant_failed`, which no sweep selects, and the membership stays (`USER_MANUAL.md:52`). |
| `Admits = {"late_job", "late_fence"}`, `MaxFaults = 0`, `MaxTime = 12` | `ExpiredAccessRemoved` | A second job of a grant is still queued when the grant expires and is revoked: it adds the user again, the grant says `active` with `revoked_at` set, and no sweep selects it (`job-worker.ts:436`, `USER_MANUAL.md:52`). |
| `Admits = {"late_job"}`, `MaxFaults = 1`, two workers | `RemovalIsFenced`, `NoAddDuringRemoval`, `ActiveHasMember` (each of them alone) | A handler that outlives its grant's expiry works on the grant while it is being revoked, and writes over it. |
| `Admits = {"late_job"}`, or `{"webhook"}` | `AppMembershipAccounted` | The same two leave a membership that no grant answers for. |
| `Grants = {g1, g2}`, `Admits = {}`, `MaxFaults = 1`, `MaxRequests = 3` | `OriginRemembered` | A second job of a failed grant adds the user (`job-worker.ts:436`); the next grant takes the membership for a preexisting one. |
| `Admits = {"promotion"}`, `MaxFaults = 3`, `MaxRequests = 3` | `WaitingHasJob` | A handler that finds its member promoted calls the grant active and leaves the flag that an approval has set meanwhile (`job-worker.ts:912`); the next revocation hands it to a job that does not exist. |
| `Grants = {g1, g2}`, `Admits = {}`, `MaxFaults = 1`, `MaxAttempts = 1`, `MaxRequests = 3`, `Durations = {3, 4}` | `ActiveHasMember` | The second job of a failed grant sees the member of the next one while that is being removed, and calls its own grant active (`job-worker.ts:436`). |
| `Admits = {"promotion", "webhook"}` | `WaitingHasJob` | An elevation leaves the reactivation flag on an active grant (`webhook-service.ts:316`); the next revocation hands it to a job that does not exist. |
| `Admits = {"stolen_job"}`, `MaxFaults = 1`, two workers | `AppMembershipAccounted`, `OriginRemembered` (each of them alone) | A job that runs for more than its 60 s is executed twice: two handlers of one grant write over each other (`job-repository.ts:114`). With `late_job` besides, `WaitingHasJob` fails too. `TypeOK`, `ExpiryCoversRequests` and `PreexistingProtected` hold all the same. |

Starting from the configuration of the component:

| Change | Property | What happens |
|---|---|---|
| `webhook.cfg` | `ExclusiveProcessing` | The lease is 30 s (`webhook-service.ts:42`), the read under it may take 60 s (`github-client.ts:52`): a redelivery takes the row over, and two calls handle one delivery. The slower one writes its result all the same, so a processed row may be opened again as failed. `webhook-service.ts:32` promises "CAS-based concurrency protection". |
| `exports.cfg` | `Blocked` | Nothing ends a download within the 60 s of its lease (`server.ts:349-361`): the same token starts a second one, and both may end. `docs/operations.md:100` and `USER_MANUAL.md:237` say that concurrent downloads are blocked, `USER_MANUAL.md:234` that a token is for single use. |
| `exports.cfg`, `MayCrash = FALSE` | `OrphansRemoved` | The clean-up deletes the row of a file although it could not remove the file (`reconciliation-service.ts:193`): no later clean-up knows of it. `reconciliation-service.ts:153` says that orphan files are deleted. |
| `exports.cfg`, `UnlinkMayFail = FALSE` | `OrphansRemoved` | A crash between the file and its token (`audit-export-service.ts:138`) leaves a copy of the log or of the database that no row names. |
| `notifications.cfg`, `MaxFaults = 0` | `NoDuplicates` | `new WebClient(token)` (`slack-notifier.ts:74`) has no timeout and tries again for about half an hour, and a row in `sending` counts as stuck after 300 s (`job-worker.ts:81`): a second worker sends the message, and both copies arrive although nothing has failed. With a fault a lost answer or a crash before `sent` is recorded does the same. `USER_MANUAL.md:216` says that duplicates are prevented. |
| `notifications.cfg`, `Topic <- OneTopic` | `CompletedWasTold` | Two requests served by one grant share the key `request_granted`: the second requester is not told (`USER_MANUAL.md:48`). |
| `notifications.cfg`, `Topic <- OneTopic`, `Alerts = {"granted"}`, `MaxWindow = 1`, `MaxAttempts = 1` | `DeadIsOwn` | The last attempt of an alert computes its key anew and marks the row of another alert dead (`job-worker.ts:1746-1762`). |
| `policies.cfg` | `LogTellsStatus` | The validation disables a policy without an event (`job-worker.ts:321`); `docs/threat-model.md:61` says that changes of policies are in the log. |
| `policies.cfg` | `DeletionsShow` | `verifyChain` accepts a log without its last rows (`audit-repository.ts:149`); `docs/audit-log.md:9` says that deletions show. |

The answer to an approver's click (`actions.ts:189`, `replace_original: true`)
replaces the card that named him (`card = "notice"` in AccessRequest), where
`USER_MANUAL.md:63` says that the card shows "Approved by @approver_name".

Differences that were read and not checked: `USER_MANUAL.md:193` says that a
cancelled revocation resets the grant to `active`; the code sets `pending` and
queues a job (`revocation-service.ts:486`). `/lightgrant unlink` is documented,
and nothing calls `IdentityRepository.unlink`. `docs/audit-log.md` lists
`created_at` among the hashed columns; the code does not hash it.
`docs/threat-model.md:60` promises a bound on durations that
`MAX_REQUEST_DURATION_MINUTES` does not enforce anywhere.

### Bounds

* *Time.* A tick of AccessLifecycle is an abstract unit: `RevokeLease` = 2,
  `CallTimeout` = 1, requests of 3 or 4. What matters is their order (call
  timeout < lease < request), which is that of the code (60 s, 15 min, hours).
  `MaxTime` 8 to 10 lets a request expire, a revocation stall past its lease
  and another one follow; 20 in `lifecycle`, so that time does not end before
  two requests, their revocations and every retry are over (for this, too,
  stalls count as faults there). The clock stops
  when no row waits for a later moment.
* *Retries.* `MCRetryDelay` of AccessLifecycle keeps the stages of
  `calculateRevokeRetryDelay` and shortens their delays. `MaxAttempts` stands
  for `JOB_MAX_ATTEMPTS`, 10 by default (`config.ts:137`). In `processes`,
  `permanent_member` and `elevation` it is 2, so that a job does run out of
  attempts; `lifecycle` keeps it at 4, above its three faults, so that no job
  gives up there: `AppMembershipAccounted` excuses that case and
  `ExpiredAccessRemoved` fails in it (table above). In `webhook` it is 3, which
  three faults reach.
* *Rows.* One grant, two where a second one can matter (after a failed or a
  revoked one); three jobs: one per request, and one that a cancelled
  revocation queues. Two approvals: one that meets the other at any point.
  Two or three lease ids, since a UUID that no row and no run holds is as good
  as new.
* *Faults.* `MaxFaults` bounds failing calls, crashes, ticks over a busy
  sweeper where `stall` is not admitted, jobs taken over, and moves of owners:
  one to three. The violations found need at most two.
* *Webhook deliveries.* A tick is 30 s: `ProcessingLease` 1, `ReadTimeout` 2 and
  `JobLock` 2 are the code's 30, 60 and 60 s. `MaxRequests` 3 lets a delivery be
  received, repeated and reprocessed while the first call runs.
  `AbandonedIsHandled` excuses a further fault: if a redelivery takes an
  abandoned row over and its own read fails, the row is `failed` with no job,
  and GitHub or an administrator must act. A row left `received` by a crash is
  found by nobody; no document promises that it is.
* *Decisions.* Nothing is bounded but approvers and handlers. Two of each show
  every race of one decision with another.
* *Notifications.* A unit is 150 s. A row counts as stuck when it is older than
  `StuckAfter` 1, so at 300 s; the 60 s of a lock and of the second retry are
  rounded up to 1, the retry after 5 min comes after 2, and the last one, 15 min
  in the code, is cut to as much. A call may end at once, later or never, and so
  outlive the lock of its job and its row. `MaxAttempts` is 5: the attempts that
  find a row in `sending` must not use up the job before the row is found stuck.
  In so coarse a unit the order of two moments in one tick is open, so
  `QueuedIsTold` says little about schedules that miss by seconds; with
  `MaxAttempts` 4 it fails. Two jobs fill a batch.
* *Linking.* Three flows, so that one user can be offered two; two users, each
  of whose codes may turn up in any of two browsers; two callbacks under way.
  What nothing tells apart (browsers, accounts, callbacks, the two flows of one
  user) is symmetric, which is sound for safety and action properties.
* *Exports.* A token lives for 4, a lease for 2, a clean-up is late after 1, in
  units of about 30 s with the life of a token cut short; downloads may take any
  time and the clean-up may be any number of units late. Every order of the four
  ends at every instant occurs.
* *Policies.* Two ids, since OneActivePolicy needs a second row to be inserted;
  two people, of whom one can lose his role (`MaxMoves` 1) between any two reads;
  limits of 60 and 120 minutes, so that a request can fit one version of a
  policy and not another. With one move the roles are settled in the end, which
  `LostOwnersDisabled` is about.

`CHECK_DEADLOCK FALSE` stands where requests, faults, flows and the clock are
bounded and the system really comes to rest. `decisions` checks for deadlock.

### Circumstances

`processes` admits stalls at will; `lifecycle` a late fence and a slow
cancellation; `permanent_member` and `elevation` the owners' moves, the first
also stolen jobs, the second events that take time to be handled (`slow_event`).
The fence of the code (`FencePassed`) asks for the lease and nothing else; that a
run comes to its DELETE with enough of the lease left is a conjunct of the
environment (`RemovalInTime`), which `late_fence` lifts. The circumstances that
break a property in the code have a row in the tables, and are left out of the
passing run of that property: `late_fence` (the last minute of a lease) with
stalls, `late_job` (a job delayed past the expiry of its grant: it needs ten
failed attempts or a worker that was down), `stolen_job` (a job that runs for
more than 60 s while another process polls), `departure` together with
`preexisting`, promotions together with their events, and webhook events while a
grant is pending or handed back. What the passing runs say holds outside these
only.

### Fairness

Weak fairness of each sweeper's and each worker's next step: `setInterval` loops
that call the sweep and the job cycle again whatever happened before, and calls
that GitHub and Slack answer or that time out. Of the clock and of `Tick`: time
passes. A call of Slack ends at some time, however late (`WF` of a worker's
step): the client gives up in the end. Of the webhook handler in AccessLifecycle
and the calls in WebhookDelivery: the code after an `await` runs. Of the
validation of policies, which the scheduler queues again and again, of its reads
and of the disablement after them; of the clean-up of exports, a part of the
scheduler's loop, and of the issue of a token whose file is written. Downloads
need not end. Not fair: approvals, clicks, modals, failures, crashes, owners'
moves, browsers and GitHub's redeliveries. In WebhookDelivery the recovery scan
runs with every job cycle. `oauth` and `decisions` check safety only: nobody is
bound to finish a flow or to click.

## 4. Proofs

| Theorem | Module | Says | Under |
|---|---|---|---|
| `TypeCorrect` | AccessLifecycle_proofs | `TypeOK` for all instances and circumstances | |
| `ExpiryCovers` | AccessLifecycle_proofs | no grant ends before a request it carries | |
| `MembersProtected` | AccessLifecycle_proofs | a member of long standing is never removed | `Protecting` |
| `AddsRemembered` | AccessLifecycle_proofs | no managed grant disowns a membership the app created | `OneRow`, `OneWorker`, `AddedByApp` |
| `RemovalFenced` | RevocationFence_proofs | a DELETE is on the wire only under a fresh lease of its sender | `Ordinary` |
| `AddsKeepClear` | RevocationFence_proofs | the PUT and the DELETE of one grant never race | `Ordinary` |
| `RevokedStaysRevoked` | RevocationFence_proofs | once the app has taken its membership back, nothing revives the grant | `Ordinary` |
| `WaitersHaveJobs` | RevocationFence_proofs | a grant that waits for access, or for being handed back, has a job | `Ordinary`, `MembersOnly` |
| `ActiveGrantsHaveMembers` | RevocationFence_proofs | a grant that says active has its member | `Ordinary`, `MembersStay`, `OneRow` |
| `MembershipAccounted` | RevocationFence_proofs | until a job gives up, a membership the app created stays on the books | `Ordinary`, `MembersOnly`, `AddedByApp`, `OneRow`, `OneWorker` |
| `DeliveryExclusive` | WebhookDelivery_proofs | one call at a time handles a delivery, but for reads that outlive their lease | |
| `DeliveryFinal` | WebhookDelivery_proofs | a processed delivery stays processed, with the same exception | |
| `AcknowledgedTruly` | WebhookDelivery_proofs | GitHub is answered 200 only after the event was handled | |
| `DecisionsConsistent` | AccessRequest_proofs | request, approvals and grants agree | |
| `DecisionsAuthorized` | AccessRequest_proofs | whoever decides has had authority since the click | |
| `CardTruthful` | AccessRequest_proofs | the card never announces another decision | |
| `DecidesOnce` | AccessRequest_proofs | AccessRequest implements RequestDecision | |
| `LinksFromVerifiedBrowser` | OAuthLink_proofs | a link is made in the browser that verified its flow with a code of its user | |
| `GithubAskedOnce` | OAuthLink_proofs | of all callbacks of a flow one asks GitHub | |
| `LinksInOrder` | OAuthLink_proofs | OAuthLink implements AccountLink | |
| `SendersExclude` | NotificationDelivery_proofs | two workers send one message at once only where a call has outlived the 300 s of its row | |
| `RepeatsOnlyInDoubt` | NotificationDelivery_proofs | each copy of a message but the first has a send in doubt to explain it | |
| `TypeCorrect` | ExportDownload_proofs | `ExportTypeOK`: in it, a usable token has its file | |
| `RetryStaysPossible` | ExportDownload_proofs | a lease nobody uses is released in time | |
| `DownloadsExclude` | ExportDownload_proofs | a token serves one download at a time, and one more for each that outlived its lease | |
| `DownloadedOnce` | ExportDownload_proofs | an export is sent to its end once, and once more for each of those | |
| `TypeCorrect` | PolicyAuthority_proofs | `PolicyTypeOK` | |
| `PoliciesSingle` | PolicyAuthority_proofs | a team has at most one active policy | |
| `DisabledStays` | PolicyAuthority_proofs | a disabled policy stays disabled | |
| `ApprovalsExplained` | PolicyAuthority_proofs | the log explains every automatic approval | |
| `LogKnowsVersions` | PolicyAuthority_proofs | the last event about a policy is its current version | |
| `ChainShowsDamage` | PolicyAuthority_proofs | the log passes `verifyChain`; a copy without one row, with two swapped or with one's columns replaced passes only if it is a beginning of the log | `HashIsNoSentinel` |

The last column names what a theorem assumes besides the assumptions on the
constants of its component; the paragraphs below say what each assumption is and
why it is there. For WebhookDelivery, AccessRequest, OAuthLink and
NotificationDelivery the types are proved too, and checked by no run.

**Types and expiries.** `ExpiryInv` is `TypeOK` and `ExpiryCoversRequests`. The
first lemmas of `AccessLifecycle_proofs` say of each statement that it keeps a
row a row, what it does to the expiry and which status it leaves; the step lemmas
go through the actions. The same lemmas carry all the theorems about grants.

**Members of long standing.** `ProtectInv` says that as long as the membership is
the preexisting one, nothing has begun that could end it (`Untouched`): every row
is harmless, either not of the app's making or not yet begun on, no run is past
its lease with a row of the app's making, no handler has sent an add, and no event
of a change is on its way. `Protecting` excludes one thing, the admission of
role changes together with the events that tell of them: the tables of section 3
show that a promotion makes the app the owner of what it never created.
Everything else is admitted, jobs that are executed twice included.

**Whose membership it is.** `OriginInv` says that the row has noted an add
before GitHub carries it out (`AddsNoted`) and what a handler knows of it at each
of its steps. `AddedByApp`: nobody was a member before and no owner adds the user
by hand, so that what a handler finds is the app's. With two rows the job that a
failed grant left behind adds the user behind the back of the next grant (in the
tables), and two workers that execute the jobs of one grant do the same to each
other; hence `OneRow` and `OneWorker`. Events and role changes are admitted.

**The fence.** `RemovalIsFenced` is not inductive: nothing in it says why a run
that passed its fence still has its lease when the clock moves. `FenceInv`
adds that a lease dates from its run's `now`, that two runs never share one, that
a DELETE was sent early enough to time out before the lease does, that a running
job's grant has a request that has not expired (so no revocation can start
under the job's feet), and that a cancellation saw such a request. The
theorems assume `Ordinary`: none of `late_fence`, `slow_import`, `late_job`,
`webhook` and `stolen_job`, and requests longer than the lease. The tables above
show that `late_fence`, `late_job`, `webhook` and `stolen_job` are needed by one
theorem or another; `slow_import` is what the argument uses.

**Revoked for good.** `HandBackInv`: the job of a grant that is being revoked is
its reactivation, and the row says so; a run knows whose membership it ends; and a
revoked grant of the app's making has no unfinished job. So the transaction that
revokes meets no job, and the transaction that finds the flag hands back. The
property leaves out grants that found their member present: their revocation
lacks the test (`lost_hand_back`), and its leftover job does revive them.

**Waiting.** `WaitInv` says of every row what its status and its flag owe
(`Awaits`), and of every handler that only checks a membership already confirmed
that its grant is neither flagged nor in `revoke_failed`. `MembersOnly` excludes
maintainers: a run that leaves a maintainer alone, and a handler that finds one,
leave a grant as it is, and the tables have the case in which it is then flagged
without a job. Rows, sweepers and workers are any number.

**Active means member.** With one row a run removes only while the row is being
revoked, and no handler is at work then; so what a handler has seen stays true
until it says `active` (`HandlersRight`). `OneRow` is needed: the tables have
the job of a failed grant that outlives it and calls it active over the removal
that ends the next grant of the pair. `MembersStay` excludes departures, which
make the property false by themselves until an event tells of them.

**On the books.** The sweep does not look at grants in `grant_failed` and
`revoked`. `BooksInv` says of a revoked row that there is no member, and of a failed
one that there is none or a job that has yet to look; of a run that found nobody
that it is right while it holds its lease; and of a handler that will give up that
the attempts of its job are used up. A job that gives up after its add went
through leaves a membership on nobody's books: that is what the code does (table
above), so the property ends there, and the invariant is `GaveUp \/ BooksInv`. A
job that gave up stays failed, so the exception, once made, is for good.
Sweepers, approvals, stalls, failures, crashes and departures are not bounded.

**Deliveries.** `LeaseInv` says that a call that reads is the one whose lease
is on the row, unless `overrun`: a read has outlived its lease, and since then
some read has always been under way. When the last of them has ended, the row is
in no call's hands and the lease excludes again. No length of read or lease is
assumed, so the theorems are about the code's 60 and 30 s too; how far they go
there is what `overrun` says. `AcknowledgedTruly` needs none of this: its
invariant `AckInv` looks at the row and at what was answered only.

**Decisions.** `RequestInv` adds to `DecisionsAgree` that nothing is decided
and no card posted before the request exists, and that a handler knows
the truth: one that is about to decide serves an approver with authority, one
that is about to write on the card has made the decision that is on the books.
The refinement maps `request.decision` to `decision`; clicks, cards and roles
are stutters. Assumed is only that `NULL` is no approver and no mode.

**Linking.** `OAuthInv` adds that the browser a row is bound to, or that a
callback has consumed it for, has presented a code of the flow's user for this
flow (`VerifiedHere`, from the history `verified`); that a flow that is being
linked, or is linked, is spent (`InOrder`); and that the row of a flow nobody was
offered is blank. It says nothing about who sits at a browser: nothing in the
code ties a code of Slack to the browser that presents it, so a link joins a
GitHub account to the Slack user whose code that browser brought, whoever uses
it. The refinement computes the phase of a flow from its row and from its link.
Assumed is that every flow has a user and that `None` is neither a browser, a
flow nor a user.

**Notifications.** `SendInv` adds to the types that workers hold rows that are
in the table and `SendersKnown`: the row of a message that is on its way is in
`sending` since the call went out, or dead, so that nobody can claim it, and as
old as the call; or its key is in `overrun`. `DoubtInv` counts: the copies of a
message that have arrived, that are on their way and that could still be sent
are one more than the sends of it in doubt, at most. Nothing is assumed of the
time a call takes, nor of the lock of a job.

**Exports.** `TokenInv` adds to the types that a lease that is still on a row is
not older than the last clean-up, and that a file that is being written is there
and leased by nobody. `DownloadInv` counts: what has been sent to its end or is
being sent is one more than the downloads that have outlived their lease
(`slow`), and no more than those as long as the token is open and no download
holds its lease in time. So whoever releases or takes over a lease by the row's
id finds none that is in use but for these. Nothing is assumed of the time a
download takes.

**Policies.** `PolicyInv` says that every active policy is explained by the log
(its version, enabled, with its limit), that the rows an evaluation remembers
are, whatever has become of their policies, and that those it found to match fit
the duration; the log only grows. `LogTold` says of each policy that the log has
all its versions and no others. Nothing is assumed of the number of modals,
requests and moves.

**The chain.** A log that `writeEventTx` has written passes `verifyChain`, and its
digests differ (`Chained`): the hash is injective, so a new row with the digest of
an old one would have to follow the same row as the old one did, and what the new
row follows is the last. The first row follows the empty string, and there
`HashIsNoSentinel` is used: no digest is empty. Since the digests differ,
no single row can be missing before another, no two rows be swapped and no row
have the columns of another; this needs no induction over the log. A copy that
lacks its last rows is a beginning of the log and passes, and nothing is said of
other changes, several at once among them.

### Model-checked only

Liveness under fairness, which is out of the prover's reach: `ExpiredAccessRemoved`,
`PendingSettles`, `RevokingSettles`, `AbandonedIsHandled`, `JobsSettle`,
`QueuedIsTold`, `FilesRemoved`, `LostOwnersDisabled`. Every other property of a
passing run is stated by a theorem.

What the theorems leave to the runs: `lifecycle` has `AppMembershipAccounted`
and `RevokedIsFinal` with `slow_import` and `late_fence`, which `Ordinary`
excludes. Several rows of a pair, for `ActiveHasMember` and `OriginRemembered`,
are in no passing run: these properties are then false (tables above). For
`AppMembershipAccounted` they are neither proved nor in a run that is kept.

## 5. Not modelled

* *Grants.* The role `pending` of a user who has not accepted an invitation: a
  team membership is pending only while the organization's is, and the handler
  refuses requesters whose membership of the organization is not active
  (`job-worker.ts:488`). More than one webhook handler at a time in
  AccessLifecycle (`hook`). Batches and backoff of `grant_access` jobs: there a
  queued job may run at any time before the expiry of its grant.
* *Alerts* to the administrators, as such and their throttling; the alert after
  the disablement of a policy may fail and is not repeated. What messages say
  and to whom they go.
* *Requests.* The message that offers to resume a decision after an approver has
  linked his account: its button starts the same handlers as the card's. The
  two reads of `authorization-service.ts:24-47` are two steps in the model, as
  in the code: no single moment has both answers. The snapshot hash.
* *Linking.* The signature of the state, what Slack and GitHub do to exchange a
  code (whose it is is in the model), the checks of a nonce inside Slack's token. Two facts read: there is one binding cookie per
  browser, so a refused callback clears that of another flow
  (`github-oauth-routes.ts:343`, in the model); and a crash after the flow was
  consumed loses it, the user starts again.
* *Policies.* Teams and reasons as conditions (an answer that may be either).
  Facts read: an updated policy keeps its first owner; an owner of the
  organization may write a policy that the evaluation, which asks for
  maintainers only, never applies.
* *Audit.* Which columns are hashed; `repairZeroOrgIds` rewrites `github_org_id`,
  which is hashed, in place.
* *Exports.* A lease left by a crash blocks `/setup/download` until the clean-up,
  while `/audit` takes it over (in the model); the administrator's token.
* *The team catalogue:* replaced as a whole in one step without an `await`; the
  mark that an identity provider synchronizes a team is set by a rejected add
  and never cleared.
* *Start-up, configuration, logging, HTTP set-up, hashing:* input, output and
  pure helpers. A graceful shutdown closes the database under running
  handlers: a crash.

## 6. Plan

The order follows what matters most to the people who use the program: first
that access given is taken back and nobody else loses his, then that decisions
and events are handled once, then everything around it.

1. *Done:* grants (GrantRepository to AccessLifecycle, with `stolen_job`);
   WebhookDelivery; RequestDecision and AccessRequest; JobQueue and
   NotificationDelivery; AccountLink and OAuthLink; ExportDownload; AuditChain
   and PolicyAuthority; theorems for every safety and action property that a
   passing run checks.
2. **TemporaryAccess**, an abstract specification (a member by grant, requests,
   removal after the last expiry) that AccessLifecycle implements, and the
   refinement as a theorem.
3. The late download, the late read and the late call of Slack with a repair (a
   token in the lease that the callbacks compare), to show what it would change.
4. `ActiveHasMember` for several rows of a pair when no grant fails.
