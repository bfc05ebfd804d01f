---------------------------- MODULE AccessRequest ----------------------------
(***************************************************************************)
(* One access request, from the submission of the modal to its decision:   *)
(* the submission handler, the approvers' clicks on the card in the        *)
(* approval channel, and the modal that asks for the reason of a denial.   *)
(* Every handler may be overtaken by others at each of its awaits, and a   *)
(* crash ends all of them.                                                 *)
(*                                                                         *)
(* An approver whose Slack user is not linked never gets past the first    *)
(* check of a click, which then changes nothing here.  GrantService models *)
(* what an approval does to the grants; here it counts the links it makes. *)
(***************************************************************************)
EXTENDS Naturals, Sequences

CONSTANTS
    NULL,
    Approvers, \* Slack users who may press the buttons
    Clicks     \* handlers of approvers' clicks that run at the same time

ASSUME RequestAssumption == NULL \notin Approvers \cup {"auto", "manual"}

VARIABLES
    request,     \* the row of access_requests
    approvals,   \* the rows of approvals, in the order of their insertion
    grants,      \* number of grant_requests rows of the request
    submission,  \* where handleRequestModalSubmission is
    click,       \* where the handlers of the clicks are
    modals,      \* approvers in front of an open denial modal
    card,        \* what the card in the approval channel shows
    role,        \* the approvers' roles at GitHub
    requester    \* whether the requester is linked, and a member at GitHub

vars == <<request, approvals, grants, submission, click, modals, card, role, requester>>

Request == [decision : {"none", "pending", "approved", "denied"},
            mode     : {NULL, "auto", "manual"},
            card     : BOOLEAN]  \* slack_approval_channel_id, _message_ts

Approval == [decision : {"approved", "denied"}, approver : Approvers]

Submissions == {"idle", "checking", "evaluating", "auto", "manual", "posting", "saving", "over"}

Roles == {"none", "maintainer", "owner"}

Kinds == {"approve", "deny", "submit"}

\* "card" is the card as the handler read it with the request; "held" (history)
\* whether the approver has had authority at some moment since the click.
Click == [pc   : {"idle", "team_role", "org_role", "requester", "approving",
                  "opening", "acking", "denying", "updating", "responding"},
          kind : Kinds,
          by   : Approvers,
          card : BOOLEAN,
          held : BOOLEAN]

\* "approved" and "denied" name the approver, "notice" does not.
Cards == {"none", "open", "approved", "denied", "notice"}

Init ==
    /\ request = [decision |-> "none", mode |-> NULL, card |-> FALSE]
    /\ approvals = <<>>
    /\ grants = 0
    /\ submission = "idle"
    /\ click \in [Clicks -> {k \in Click : k.pc = "idle" /\ k.kind = "approve"
                                                /\ ~k.card /\ ~k.held}]
    /\ modals = {}
    /\ card = "none"
    /\ role \in [Approvers -> Roles]
    /\ requester \in [linked : {TRUE}, member : BOOLEAN]

decided == <<request, approvals, grants>>
environment == <<role, requester>>

-----------------------------------------------------------------------------
(* The decision's transactions *)

\* Deviation: the UPDATE without AND decision_status = 'pending'.
DecidedOrNot == request.decision # "none"

\* updateDecisionStatus, a compare-and-set.
Undecided == request.decision = "pending"

\* createGrantIntentTx commits; otherwise it throws and is rolled back.
IntentAccepted == Undecided /\ requester.linked

ApprovalRecorded(a) ==
    approvals' = Append(approvals, [decision |-> "approved", approver |-> a])

\* Deviation: the decision is committed before the requester is looked up.
ApproveThenLink(a) ==
    /\ request' = IF Undecided
                  THEN [request EXCEPT !.decision = "approved", !.mode = "manual"]
                  ELSE request
    /\ IF IntentAccepted
       THEN ApprovalRecorded(a) /\ grants' = grants + 1
       ELSE UNCHANGED <<approvals, grants>>

\* The transaction of a manual approval, by approver a.
CreateGrantIntent(a) ==
    IF IntentAccepted
    THEN /\ request' = [request EXCEPT !.decision = "approved", !.mode = "manual"]
         /\ ApprovalRecorded(a)
         /\ grants' = grants + 1
    ELSE UNCHANGED decided

\* The transaction of handleDenyModalSubmission.
RecordDenial(a) ==
    IF Undecided
    THEN /\ request' = [request EXCEPT !.decision = "denied", !.mode = "manual"]
         /\ approvals' = Append(approvals, [decision |-> "denied", approver |-> a])
         /\ UNCHANGED grants
    ELSE UNCHANGED decided

-----------------------------------------------------------------------------
(* handleRequestModalSubmission *)

SubmissionStep(from, to) == submission = from /\ submission' = to

Submit ==
    /\ SubmissionStep("idle", IF requester.linked THEN "checking" ELSE "over")
    /\ UNCHANGED <<decided, click, modals, card, environment>>

CheckOrganization ==
    /\ SubmissionStep("checking", IF requester.member THEN "evaluating" ELSE "over")
    /\ UNCHANGED <<decided, click, modals, card, environment>>

\* evaluator.evaluate: what the policies say of the request is left open.
EvaluatePolicy ==
    /\ \E way \in {"auto", "manual"} : SubmissionStep("evaluating", way)
    /\ UNCHANGED <<decided, click, modals, card, environment>>

\* Two transactions with no await between them.  The second looks the
\* requester up once more: if it throws, the failure is logged and the
\* request stays pending.
AutoApprove ==
    /\ SubmissionStep("auto", "over")
    /\ request' = [request EXCEPT
           !.decision = IF requester.linked THEN "approved" ELSE "pending",
           !.mode = IF requester.linked THEN "auto" ELSE @]
    /\ grants' = IF requester.linked THEN grants + 1 ELSE grants
    /\ UNCHANGED <<approvals, click, modals, card, environment>>

CreateRequest ==
    /\ SubmissionStep("manual", "posting")
    /\ request' = [request EXCEPT !.decision = "pending"]
    /\ UNCHANGED <<approvals, grants, click, modals, card, environment>>

PostManualApproval ==
    /\ SubmissionStep("posting", "saving")
    /\ card' = "open"
    /\ UNCHANGED <<decided, click, modals, environment>>

UpdateSlackMessageInfo ==
    /\ SubmissionStep("saving", "over")
    /\ request' = [request EXCEPT !.card = TRUE]
    /\ UNCHANGED <<approvals, grants, click, modals, card, environment>>

\* A call of GitHub or Slack fails; the card may have been posted all the
\* same.  The evaluator takes a failure of GitHub for "no match".
SubmissionFails ==
    /\ \E at \in {"checking", "posting"} : SubmissionStep(at, "over")
    /\ card' \in IF submission = "posting" THEN {card, "open"} ELSE {card}
    /\ UNCHANGED <<decided, click, modals, environment>>

-----------------------------------------------------------------------------
(* handleApproveAction, handleDenyAction and handleDenyModalSubmission *)

Goes(c, pc) == click' = [click EXCEPT ![c].pc = pc]

Starts(c, k, a) ==
    click' = [click EXCEPT ![c] =
        [pc |-> "team_role", kind |-> k, by |-> a, card |-> request.card,
         held |-> role[a] # "none"]]

\* A button may be pressed on the card, whatever it shows by now, or in the
\* message that resumes a decision after the approver has linked himself.
PressButton(c, a) ==
    /\ click[c].pc = "idle"
    /\ card # "none"
    /\ Undecided
    /\ \E k \in {"approve", "deny"} : Starts(c, k, a)
    /\ UNCHANGED <<decided, submission, modals, card, environment>>

\* Deviation: the check made when the modal was opened is taken for good.
SubmitUnchecked(c, a) ==
    /\ click[c].pc = "idle"
    /\ a \in modals
    /\ click' = [click EXCEPT ![c] =
           [pc |-> "acking", kind |-> "submit", by |-> a, card |-> request.card,
            held |-> role[a] # "none"]]
    /\ UNCHANGED <<decided, submission, modals, card, environment>>

\* The submission of the modal does not look whether the request is pending.
SubmitReason(c, a) ==
    /\ click[c].pc = "idle"
    /\ a \in modals
    /\ Starts(c, "submit", a)
    /\ UNCHANGED <<decided, submission, modals, card, environment>>

\* Where a handler goes on when the approver's authority is verified.
Authorized(k) ==
    CASE k = "approve" -> "requester"
      [] k = "deny" -> "opening"
      [] k = "submit" -> "acking"

\* verifyRequestDecisionAuthority: a maintainer of the team, or else an owner
\* of the organization.  The requester of an approval must be linked.
Proceeds(c) ==
    Goes(c, IF click[c].kind = "approve" /\ ~requester.linked
            THEN "idle" ELSE Authorized(click[c].kind))

CheckTeamRole(c) ==
    /\ click[c].pc = "team_role"
    /\ IF role[click[c].by] = "maintainer" THEN Proceeds(c) ELSE Goes(c, "org_role")
    /\ UNCHANGED <<decided, submission, modals, card, environment>>

CheckOrgRole(c) ==
    /\ click[c].pc = "org_role"
    /\ IF role[click[c].by] = "owner" THEN Proceeds(c) ELSE Goes(c, "idle")
    /\ UNCHANGED <<decided, submission, modals, card, environment>>

CheckRequester(c) ==
    /\ click[c].pc = "requester"
    /\ Goes(c, IF requester.member THEN "approving" ELSE "idle")
    /\ UNCHANGED <<decided, submission, modals, card, environment>>

\* After its own decision a handler writes on the card, if the request it has
\* read knew of one; after somebody else's it stops.
AfterApproval(c) ==
    IF ~IntentAccepted THEN "idle"
    ELSE IF click[c].card THEN "updating" ELSE "responding"

Approve(c) ==
    /\ click[c].pc = "approving"
    /\ CreateGrantIntent(click[c].by)
    /\ Goes(c, AfterApproval(c))
    /\ UNCHANGED <<submission, modals, card, environment>>

OpenDenialModal(c) ==
    /\ click[c].pc = "opening"
    /\ modals' = modals \cup {click[c].by}
    /\ Goes(c, "idle")
    /\ UNCHANGED <<decided, submission, card, environment>>

Acknowledge(c) ==
    /\ click[c].pc = "acking"
    /\ modals' = modals \ {click[c].by}
    /\ Goes(c, "denying")
    /\ UNCHANGED <<decided, submission, card, environment>>

\* Deviation: the result of the transaction is ignored.
AfterAnyDenial(c) == IF click[c].card THEN "updating" ELSE "idle"

AfterDenial(c) == IF Undecided /\ click[c].card THEN "updating" ELSE "idle"

Deny(c) ==
    /\ click[c].pc = "denying"
    /\ RecordDenial(click[c].by)
    /\ Goes(c, AfterDenial(c))
    /\ UNCHANGED <<submission, modals, card, environment>>

\* What a handler knows it has decided.
VerdictOf(c) == IF click[c].kind = "approve" THEN "approved" ELSE "denied"

UpdateApprovalMessage(c) ==
    /\ click[c].pc = "updating"
    /\ card' = VerdictOf(c)
    /\ Goes(c, IF click[c].kind = "approve" THEN "responding" ELSE "idle")
    /\ UNCHANGED <<decided, submission, modals, environment>>

\* respond with replace_original: a text in the place of the message that was
\* clicked, the card or the message that resumes the decision.
RespondToApprover(c) ==
    /\ click[c].pc = "responding"
    /\ card' \in {card, "notice"}
    /\ Goes(c, "idle")
    /\ UNCHANGED <<decided, submission, modals, environment>>

\* A call of GitHub or Slack fails, and the handler ends.
ClickFails(c) ==
    /\ click[c].pc \notin {"idle", "approving", "denying"}
    /\ Goes(c, "idle")
    /\ UNCHANGED <<decided, submission, modals, card, environment>>

-----------------------------------------------------------------------------
(* Surroundings *)

\* The approver closes the modal, or submits it after he has unlinked himself.
CloseModal(a) ==
    /\ a \in modals
    /\ modals' = modals \ {a}
    /\ UNCHANGED <<decided, submission, click, card, environment>>

ChangeRole(a, r) ==
    /\ r # role[a]
    /\ role' = [role EXCEPT ![a] = r]
    /\ click' = [c \in Clicks |->
                    IF click[c].by = a /\ click[c].pc # "idle" /\ r # "none"
                    THEN [click[c] EXCEPT !.held = TRUE] ELSE click[c]]
    /\ UNCHANGED <<decided, submission, modals, card, requester>>

\* The requester is unlinked for good: linking again makes another identity.
ChangeRequester ==
    /\ \/ requester' = [requester EXCEPT !.member = ~@]
       \/ requester.linked /\ requester' = [requester EXCEPT !.linked = FALSE]
    /\ UNCHANGED <<decided, submission, click, modals, card, role>>

\* A crash that hits the submission between its two transactions leaves the
\* request pending.
Crash ==
    /\ click' = [c \in Clicks |-> [click[c] EXCEPT !.pc = "idle"]]
    /\ submission' = IF submission = "idle" THEN "idle" ELSE "over"
    /\ request' \in IF submission = "auto"
                    THEN {request, [request EXCEPT !.decision = "pending"]}
                    ELSE {request}
    /\ UNCHANGED <<approvals, grants, modals, card, environment>>

-----------------------------------------------------------------------------
SubmissionNext ==
    \/ Submit \/ CheckOrganization \/ EvaluatePolicy \/ AutoApprove
    \/ CreateRequest \/ PostManualApproval \/ UpdateSlackMessageInfo
    \/ SubmissionFails

ClickNext(c) ==
    \/ \E a \in Approvers : PressButton(c, a) \/ SubmitReason(c, a)
    \/ CheckTeamRole(c) \/ CheckOrgRole(c) \/ CheckRequester(c)
    \/ Approve(c) \/ OpenDenialModal(c) \/ Acknowledge(c) \/ Deny(c)
    \/ UpdateApprovalMessage(c) \/ RespondToApprover(c) \/ ClickFails(c)

Surroundings ==
    \/ \E a \in Approvers : CloseModal(a) \/ \E r \in Roles : ChangeRole(a, r)
    \/ ChangeRequester
    \/ Crash

Next == SubmissionNext \/ (\E c \in Clicks : ClickNext(c)) \/ Surroundings

Spec == Init /\ [][Next]_vars

-----------------------------------------------------------------------------
(* Properties *)

\* The rows, the handlers and what people see have their types, and at most
\* one decision is on the books.
RequestTypeOK ==
    /\ request \in Request
    /\ approvals \in Seq(Approval) /\ Len(approvals) <= 1
    /\ grants \in 0..1
    /\ submission \in Submissions
    /\ click \in [Clicks -> Click]
    /\ modals \subseteq Approvers
    /\ card \in Cards
    /\ role \in [Approvers -> Roles]
    /\ requester \in [linked : BOOLEAN, member : BOOLEAN]

\* The row of the request, the approvals and the grants tell the same story,
\* whoever else was deciding and whatever was rolled back: an approval is
\* linked to a grant and signed by one approver or by none if a policy made
\* it, a denial is signed and linked to nothing, a pending request has neither.
DecisionsAgree ==
    /\ grants = (IF request.decision = "approved" THEN 1 ELSE 0)
    /\ (request.mode = NULL) <=> (request.decision \in {"none", "pending"})
    /\ IF request.mode = "manual"
       THEN Len(approvals) = 1 /\ approvals[1].decision = request.decision
       ELSE approvals = <<>>
    /\ request.mode = "auto" => request.decision = "approved"

\* Nobody decides on the strength of a check that was made for an earlier
\* click: a handler about to record a decision serves an approver who has
\* been a maintainer or an owner since this very click, however long the
\* denial modal was open before.
DecisionUnderAuthority ==
    \A c \in Clicks : click[c].pc \in {"approving", "denying"} => click[c].held

\* The card never announces a decision other than the one on the books: an
\* approver who came second does not overwrite it.
CardShowsDecision ==
    /\ card \in {"approved", "denied"} => card = request.decision
    /\ card = "notice" => request.decision = "approved"

\* Every step is a step of the abstract specification, or changes nothing
\* that it sees.
Decision == INSTANCE RequestDecision WITH decision <- request.decision
DecidedOnce == Decision!Spec

\* A request that waits for a decision has a card to decide it on: "a request
\* card is posted in the designated Approval Channel" (USER_MANUAL.md).
PendingHasCard == Undecided /\ submission = "over" => card # "none"
=============================================================================
