--------------------------- MODULE PolicyAuthority ---------------------------
(***************************************************************************)
(* Auto-approval policies: the modal that writes them (actions.ts,         *)
(* policy-service.ts), the evaluation of requests (policy-evaluator.ts)    *)
(* and the job that disables those whose owner has lost his authority      *)
(* (job-worker.ts).  Each awaits GitHub several times while roles change   *)
(* and the others run; what they change is to be found in the audit log.   *)
(*                                                                         *)
(* Of the conditions of a policy the duration is kept; the teams of the    *)
(* requester and the reason are an answer that may be either.  Of the log, *)
(* the events that name a policy are kept.                                 *)
(***************************************************************************)
EXTENDS AuditChain, FiniteSets

CONSTANTS
    Policies,    \* ids of policies
    Teams,       \* target teams
    People,      \* linked GitHub users
    Durations,   \* minutes; what a request or a limit may be
    Modals,      \* submissions of the policy modal
    Requests,    \* submissions of the request modal
    MaxMoves,    \* bound on changes of roles
    MaxFaults    \* bound on failing calls and crashes

ASSUME PolicyConstants ==
    /\ Durations \subseteq Nat
    /\ None \notin Policies \cup Teams \cup People \cup Durations
    /\ None \notin {"owner", "validator"}
    /\ MaxMoves \in Nat /\ MaxFaults \in Nat

VARIABLES
    policies,    \* the tables policies and policy_versions
    log,         \* audit_events
    maintainers, \* maintainers[t]: GitHub's maintainers of a team
    admins,      \* active owners of the organization
    modal,       \* modal[m]: what the handler of a submission remembers
    request,     \* request[r]: what an evaluation remembers, and its outcome
    validator,   \* what the job validate_policy_authority remembers
    moves, faults

vars == <<policies, log, maintainers, admins, modal, request, validator, moves, faults>>

-----------------------------------------------------------------------------
(* The tables *)

\* Before its insertion a policy has status "none"; limits[v] is
\* max_duration_minutes of its version v.
Policy ==
    [status: {"none", "active", "disabled"}, reason: {None, "owner", "validator"},
     team: Teams \cup {None}, owner: People \cup {None}, limits: Seq(Durations)]

NoPolicy == [status |-> "none", reason |-> None, team |-> None, owner |-> None, limits |-> <<>>]

Active(p) == policies[p].status = "active"

CurrentVersion(p) == Len(policies[p].limits)

\* A row of the queries: a policy joined with its current version.
Rows == [policy: Policies, version: Nat, limit: Durations]

\* The order in which a query returns its rows is left open.
FirstOf(rows) == CHOOSE row \in rows : TRUE

Row(p) == [policy |-> p, version |-> CurrentVersion(p), limit |-> policies[p].limits[CurrentVersion(p)]]

ActivePoliciesForTeam(t) == {p \in Policies : Active(p) /\ policies[p].team = t}

NewIds == {p \in Policies : policies[p].status = "none"}

\* Deviation: the status is not in the WHERE clause.
AnyPolicyOrNew(t) ==
    LET known == {p \in Policies : policies[p].team = t}
    IN  IF known = {} THEN NewIds ELSE known

\* Deviation: no look at the policies there are.
AlwaysNew(t) == NewIds

\* upsertPolicy: the policy of the team, looked up in the transaction that
\* writes, or a new one.
KnownOrNew(t) ==
    IF ActivePoliciesForTeam(t) = {} THEN NewIds ELSE ActivePoliciesForTeam(t)

\* createPolicyVersionTx: a row of policies, or a new version of one, which
\* keeps its owner and is active afterwards.
NewVersion(p, f) ==
    IF policies[p].status = "none"
    THEN [status |-> "active", reason |-> None, team |-> f.team, owner |-> f.by,
          limits |-> <<f.limit>>]
    ELSE [policies[p] EXCEPT !.status = "active", !.reason = None, !.limits = Append(@, f.limit)]

\* Deviation: disabled_reason is not written.
DisabledSilently(policy, why) == [policy EXCEPT !.status = "disabled"]

\* disablePolicy, whatever the row says.
Disabled(policy, why) == [policy EXCEPT !.status = "disabled", !.reason = why]

-----------------------------------------------------------------------------
(* GitHub *)

Authorized(t, u) == u \in maintainers[t] \cup admins

\* One of the two reads of verifyRequestDecisionAuthority.
Says(read, t, u) == IF read = "team" THEN u \in maintainers[t] ELSE u \in admins

Toggled(S, u) == IF u \in S THEN S \ {u} ELSE S \cup {u}

RoleMoves ==
    /\ moves < MaxMoves
    /\ \E u \in People :
         \/ /\ \E t \in Teams : maintainers' = [maintainers EXCEPT ![t] = Toggled(@, u)]
            /\ UNCHANGED admins
         \/ admins' = Toggled(admins, u) /\ UNCHANGED maintainers
    /\ moves' = moves + 1
    /\ UNCHANGED <<policies, log, modal, request, validator, faults>>

GitHub == <<maintainers, admins, moves>>

Fault == faults < MaxFaults /\ faults' = faults + 1

-----------------------------------------------------------------------------
(* handlePolicyModalSubmission *)

Fields == [by: People, team: Teams, limit: Durations, enabled: BOOLEAN]

Modal == [at: {"idle", "team", "org", "ack", "over"}, fields: Fields \cup {None}]

SubmitPolicy(m) ==
    /\ modal[m].at = "idle"
    /\ \E fields \in Fields : modal' = [modal EXCEPT ![m] = [at |-> "team", fields |-> fields]]
    /\ UNCHANGED <<policies, log, GitHub, request, validator, faults>>

\* After an authorization comes ack, another await; without one, an error.
AfterRead(read, yes) == IF yes THEN "ack" ELSE IF read = "team" THEN "org" ELSE "over"

ReadForPolicy(m) ==
    /\ modal[m].at \in {"team", "org"}
    /\ LET f == modal[m].fields
           read == modal[m].at
       IN  modal' = [modal EXCEPT ![m].at = AfterRead(read, Says(read, f.team, f.by))]
    /\ UNCHANGED <<policies, log, GitHub, request, validator, faults>>

Stored(p, f) == IF f.enabled THEN NewVersion(p, f) ELSE Disabled(NewVersion(p, f), "owner")

Updated(p, f) ==
    [type |-> "policy_updated", policy |-> p, version |-> CurrentVersion(p) + 1,
     limit |-> f.limit, enabled |-> f.enabled]

\* Deviation: the event has a transaction of its own, which the crash prevents.
CommitUnlogged(m) ==
    /\ modal[m].at = "ack"
    /\ \E p \in KnownOrNew(modal[m].fields.team) :
         /\ policies' = [policies EXCEPT ![p] = Stored(p, modal[m].fields)]
         /\ \/ log' = WriteEvent(log, Updated(p, modal[m].fields)) /\ UNCHANGED faults
            \/ UNCHANGED log /\ Fault
    /\ modal' = [modal EXCEPT ![m].at = "over"]
    /\ UNCHANGED <<GitHub, request, validator>>

\* The transaction: policy, version, disablement and event.
CommitPolicy(m) ==
    /\ modal[m].at = "ack"
    /\ \E p \in KnownOrNew(modal[m].fields.team) :
         /\ policies' = [policies EXCEPT ![p] = Stored(p, modal[m].fields)]
         /\ log' = WriteEvent(log, Updated(p, modal[m].fields))
    /\ modal' = [modal EXCEPT ![m].at = "over"]
    /\ UNCHANGED <<GitHub, request, validator, faults>>

\* A read, or ack, throws, or the process dies.
ModalFails(m) ==
    /\ modal[m].at \in {"team", "org", "ack"}
    /\ Fault
    /\ modal' = [modal EXCEPT ![m].at = "over"]
    /\ UNCHANGED <<policies, log, GitHub, request, validator>>
-----------------------------------------------------------------------------
(* evaluate, and what handleRequestModalSubmission does with its result *)

\* Deviation: the limit is compared the other way round.
FitAbove(row, d) == d >= row.limit

Fit(row, d) == d <= row.limit

Evaluation ==
    [at: {"idle", "owner", "requester", "evaluated", "approved", "over"},
     team: Teams \cup {None}, duration: Durations \cup {None},
     left: SUBSET Rows, matched: SUBSET Rows]

NoEvaluation(at) ==
    [at |-> at, team |-> None, duration |-> None, left |-> {}, matched |-> {}]

\* The policies are read once, before the first await.
SubmitRequest(r) ==
    /\ request[r].at = "idle"
    /\ \E t \in Teams, d \in Durations :
         request' = [request EXCEPT ![r] =
             [at |-> "owner", team |-> t, duration |-> d,
              left |-> {Row(p) : p \in ActivePoliciesForTeam(t)}, matched |-> {}]]
    /\ UNCHANGED <<policies, log, GitHub, modal, validator, faults>>

\* Whether the owner is a maintainer: an owner of the organization is not
\* enough here.
ReadOwner(r) ==
    /\ request[r].at = "owner"
    /\ request[r].left # {}
    /\ LET row == FirstOf(request[r].left) IN
         request' = [request EXCEPT ![r] =
             IF Says("team", request[r].team, policies[row.policy].owner)
             THEN [request[r] EXCEPT !.at = "requester"]
             ELSE [request[r] EXCEPT !.left = @ \ {row}]]
    /\ UNCHANGED <<policies, log, GitHub, modal, validator, faults>>

\* The requester's teams fit, or they, or the reason, do not.
ReadRequester(r) ==
    /\ request[r].at = "requester"
    /\ \E row \in {FirstOf(request[r].left)}, fits \in BOOLEAN :
         request' = [request EXCEPT ![r] =
             [request[r] EXCEPT
                 !.at = "owner", !.left = @ \ {row},
                 !.matched = @ \cup {x \in {row} : fits /\ Fit(row, request[r].duration)}]]
    /\ UNCHANGED <<policies, log, GitHub, modal, validator, faults>>

\* A read throws: the policy does not match.
EvaluationFails(r) ==
    /\ request[r].at \in {"owner", "requester"}
    /\ request[r].left # {}
    /\ Fault
    /\ request' = [request EXCEPT ![r] =
             [request[r] EXCEPT !.at = "owner", !.left = @ \ {FirstOf(request[r].left)}]]
    /\ UNCHANGED <<policies, log, GitHub, modal, validator>>

Evaluated(r, row) ==
    [type |-> "policy.evaluated", request |-> r, policy |-> row.policy, version |-> row.version]

Approved(r, row) ==
    [type |-> "request_approved", request |-> r, policy |-> row.policy, version |-> row.version,
     duration |-> request[r].duration]

\* The shortest limit is the best; what breaks a tie is left open.
BestMatches(r) ==
    {row \in request[r].matched : \A other \in request[r].matched : row.limit <= other.limit}

\* The transaction of the event policy.evaluated.
WriteEvaluated(r) ==
    /\ request[r].at = "owner" /\ request[r].left = {}
    /\ \E row \in BestMatches(r) :
         /\ log' = WriteEvent(log, Evaluated(r, row))
         /\ request' = [request EXCEPT ![r] = [request[r] EXCEPT !.at = "evaluated", !.matched = {row}]]
    /\ UNCHANGED <<policies, GitHub, modal, validator, faults>>

\* After the transaction of the request, which names no policy,
\* createGrantIntentTx: nothing is read again.
AutoApprove(r) ==
    /\ request[r].at = "evaluated"
    /\ \E row \in request[r].matched : log' = WriteEvent(log, Approved(r, row))
    /\ request' = [request EXCEPT ![r] = NoEvaluation("approved")]
    /\ UNCHANGED <<policies, GitHub, modal, validator, faults>>

\* It throws, or the process dies after the first transaction or the second.
AutoApproveFails(r) ==
    /\ request[r].at = "evaluated"
    /\ Fault
    /\ request' = [request EXCEPT ![r] = NoEvaluation("over")]
    /\ UNCHANGED <<policies, log, GitHub, modal, validator>>

\* No policy matched: an approver decides.
NoMatch(r) ==
    /\ request[r].at = "owner" /\ request[r].left = {} /\ request[r].matched = {}
    /\ request' = [request EXCEPT ![r] = NoEvaluation("over")]
    /\ UNCHANGED <<policies, log, GitHub, modal, validator, faults>>

-----------------------------------------------------------------------------
(* handleValidatePolicyAuthority *)

\* Deviation: the query joins the first version of a policy.
StartOnFirstVersions ==
    LET rows == {p \in Policies : Active(p) /\ CurrentVersion(p) = 1} IN
    /\ validator.left = {} /\ rows # {}
    /\ validator' = [at |-> "team", left |-> rows]
    /\ UNCHANGED <<policies, log, GitHub, modal, request, faults>>

\* A job runs: the active policies are read once.
StartValidation ==
    /\ validator.left = {}
    /\ {p \in Policies : Active(p)} # {}
    /\ validator' = [at |-> "team", left |-> {p \in Policies : Active(p)}]
    /\ UNCHANGED <<policies, log, GitHub, modal, request, faults>>

NoValidation == [at |-> "team", left |-> {}]

Validated(p) == [at |-> "team", left |-> validator.left \ {p}]

\* GitHub's answers about a policy of the snapshot, whatever has become of it.
ReadForValidation ==
    /\ validator.left # {} /\ validator.at \in {"team", "org"}
    /\ LET p == FirstOf(validator.left)
           yes == Says(validator.at, policies[p].team, policies[p].owner)
       IN  validator' = IF yes THEN Validated(p)
                        ELSE [validator EXCEPT !.at = IF @ = "team" THEN "org" ELSE "disable"]
    /\ UNCHANGED <<policies, log, GitHub, modal, request, faults>>

\* After the second no, and no look at the row or at GitHub.
DisablePolicy ==
    /\ validator.left # {} /\ validator.at = "disable"
    /\ LET p == FirstOf(validator.left) IN
         /\ policies' = [policies EXCEPT ![p] = Disabled(@, "validator")]
         /\ validator' = Validated(p)
    /\ UNCHANGED <<log, GitHub, modal, request, faults>>

\* A read, or the statement, throws: the next policy's turn.  Or the process dies.
ValidationFails ==
    /\ validator.left # {}
    /\ Fault
    /\ validator' \in {Validated(FirstOf(validator.left)), NoValidation}
    /\ UNCHANGED <<policies, log, GitHub, modal, request>>

-----------------------------------------------------------------------------

Init ==
    /\ policies = [p \in Policies |-> NoPolicy]
    /\ log = <<>>
    /\ maintainers \in [Teams -> SUBSET People]
    /\ admins \in SUBSET People
    /\ modal = [m \in Modals |-> [at |-> "idle", fields |-> None]]
    /\ request = [r \in Requests |-> NoEvaluation("idle")]
    /\ validator = NoValidation
    /\ moves = 0 /\ faults = 0

Next ==
    \/ \E m \in Modals :
         SubmitPolicy(m) \/ ReadForPolicy(m) \/ CommitPolicy(m) \/ ModalFails(m)
    \/ \E r \in Requests :
         \/ SubmitRequest(r) \/ ReadOwner(r) \/ ReadRequester(r) \/ EvaluationFails(r)
         \/ WriteEvaluated(r) \/ AutoApprove(r) \/ AutoApproveFails(r) \/ NoMatch(r)
    \/ StartValidation \/ ReadForValidation \/ DisablePolicy \/ ValidationFails
    \/ RoleMoves

Spec == Init /\ [][Next]_vars

\* The job is enqueued at every interval and its reads return.
FairSpec ==
    Spec /\ WF_vars(StartValidation) /\ WF_vars(ReadForValidation) /\ WF_vars(DisablePolicy)

-----------------------------------------------------------------------------
(* Properties *)

\* The tables, the log and what every handler remembers have their types.
PolicyTypeOK ==
    /\ policies \in [Policies -> Policy]
    /\ \A p \in Policies : (policies[p].status = "disabled") = (policies[p].reason # None)
    /\ \A i \in DOMAIN log : log[i].event.policy \in Policies
    /\ maintainers \in [Teams -> SUBSET People] /\ admins \in SUBSET People
    /\ modal \in [Modals -> Modal]
    /\ \A m \in Modals : modal[m].at # "idle" => modal[m].fields \in Fields
    /\ request \in [Requests -> Evaluation]
    /\ validator \in [at: {"team", "org", "disable"}, left: SUBSET Policies]
    /\ moves \in 0 .. MaxMoves /\ faults \in 0 .. MaxFaults

\* However the modals of two people overlap, a team has one active policy:
\* no index of the table says so (migrations/0001_initial.sql).
OneActivePolicy == \A t \in Teams : Cardinality(ActivePoliciesForTeam(t)) <= 1

\* A disabled policy stays disabled and keeps its versions: although
\* createPolicyVersionTx would make it active, no modal leads there, not even
\* one that began before the validation disabled it.
DisabledIsFinal ==
    [][\A p \in Policies :
         policies[p].status = "disabled" =>
             policies'[p].status = "disabled" /\ policies'[p].limits = policies[p].limits]_vars

\* The event of the log about the latest version of policy p, if there is one.
LastUpdate(p) ==
    LET updates == {e \in {log[i].event : i \in DOMAIN log} :
                      e.type = "policy_updated" /\ e.policy = p}
    IN  {e \in updates : \A other \in updates : other.version <= e.version}

\* Whatever crashes and overlaps: the log's last word on a policy is its
\* current version, and an active policy is one the log calls enabled.
LogTellsVersions ==
    \A p \in Policies : policies[p].status # "none" =>
        \E e \in LastUpdate(p) :
            /\ e.version = CurrentVersion(p)
            /\ e.limit = policies[p].limits[CurrentVersion(p)]
            /\ Active(p) => e.enabled

\* What threat-model.md says: disablements are in the log as well.
LogTellsStatus ==
    \A p \in Policies : \A e \in LastUpdate(p) : e.enabled => Active(p)

\* An automatic approval is explained by the log: before it comes the event
\* of the version it names, enabled and with a limit the duration keeps,
\* although by now there may be another version or none.
LogExplainsApprovals ==
    \A i \in DOMAIN log : log[i].event.type = "request_approved" =>
        \E j \in 1 .. i - 1 :
            /\ log[j].event.type = "policy_updated" /\ log[j].event.enabled
            /\ log[j].event.policy = log[i].event.policy
            /\ log[j].event.version = log[i].event.version
            /\ log[i].event.duration <= log[j].event.limit

\* The log of all these transactions passes verifyChain.  A copy that lacks one
\* row (its gap closed or not), or in which two rows have changed places or one
\* has the columns of another, passes only if it is a beginning of the log.
ChainHolds == VerifyChain(log) /\ DamageShows(log)

\* What audit-log.md says: any deletion shows.
DeletionsShow == DeletionShows(log)

\* A policy whose owner is for good neither maintainer nor owner of the
\* organization is disabled, whatever fails in between.
LostOwnersDisabled ==
    \A p \in Policies : []<>(Active(p) => Authorized(policies[p].team, policies[p].owner))
=============================================================================
