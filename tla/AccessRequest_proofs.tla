------------------------- MODULE AccessRequest_proofs -------------------------
(***************************************************************************)
(* Proofs about AccessRequest, for any set of approvers and any number of  *)
(* handlers that run at the same time.                                     *)
(*                                                                         *)
(* DecisionsAgree is inductive once it is known that nothing is decided    *)
(* before the submission has made the request (NothingBefore), and what    *)
(* the handlers know is true (HandlersKnow): one about to decide serves an *)
(* approver with authority, one about to write on the card has decided.    *)
(***************************************************************************)
EXTENDS AccessRequest, TLAPS

Types ==
    /\ request \in Request
    /\ approvals \in Seq(Approval)
    /\ grants \in Nat
    /\ submission \in Submissions
    /\ click \in [Clicks -> Click]
    /\ modals \subseteq Approvers
    /\ card \in Cards
    /\ role \in [Approvers -> Roles]
    /\ requester \in [linked : BOOLEAN, member : BOOLEAN]

NothingBefore ==
    /\ submission \in {"idle", "checking", "evaluating", "auto", "manual"}
           => request.decision = "none"
    /\ submission \in {"posting", "saving"} => request.decision # "none"
    /\ request.decision = "none" => card = "none"

\* What handler k may rely on, given the approvers' roles and the decision.
Knows(k, roles, decision) ==
    /\ k.pc \in {"requester", "approving", "opening", "acking", "denying"} => k.held
    /\ k.pc \in {"team_role", "org_role"} /\ roles[k.by] # "none" => k.held
    /\ k.pc \in {"requester", "approving", "responding"} => k.kind = "approve"
    /\ k.pc \in {"acking", "denying"} => k.kind = "submit"
    /\ k.pc \in {"updating", "responding"}
           => decision = IF k.kind = "approve" THEN "approved" ELSE "denied"

HandlersKnow == \A c \in Clicks : Knows(click[c], role, request.decision)

RequestInv ==
    Types /\ DecisionsAgree /\ NothingBefore /\ HandlersKnow /\ CardShowsDecision

-----------------------------------------------------------------------------
(* The steps, grouped by what they touch *)

\* Everything but the handlers of clicks stays as it is.
LEMMA HandlerSteps ==
    ASSUME RequestInv, NEW c \in Clicks,
           \/ CheckTeamRole(c) \/ CheckOrgRole(c) \/ CheckRequester(c) \/ ClickFails(c)
    PROVE  RequestInv'
<1> USE RequestAssumption DEF RequestInv
<1>u. UNCHANGED <<request, approvals, grants, submission, modals, card, role, requester>>
  BY DEF CheckTeamRole, CheckOrgRole, CheckRequester, ClickFails, decided, environment
<1>1. PICK p : /\ click' = [click EXCEPT ![c].pc = p]
               /\ \/ p = "idle"
                  \/ p = "org_role" /\ click[c].pc = "team_role"
                  \/ /\ click[c].pc \in {"team_role", "org_role"}
                     /\ role[click[c].by] # "none"
                     /\ p = Authorized(click[c].kind)
                  \/ p = "approving" /\ click[c].pc = "requester"
  BY DEF CheckTeamRole, CheckOrgRole, CheckRequester, ClickFails, Goes, Proceeds
<1>2. click[c] \in Click
  BY DEF Types
<1>3. p \in {"idle", "org_role", "approving", "requester", "opening", "acking"}
  BY <1>1, <1>2 DEF Authorized, Click, Kinds
<1>4. Types'
  BY <1>u, <1>1, <1>2, <1>3 DEF Types, Click
<1>5. HandlersKnow'
  <2> SUFFICES ASSUME NEW d \in Clicks
               PROVE  Knows(click'[d], role, request.decision)
    BY <1>u DEF HandlersKnow
  <2>1. CASE d # c
    BY <2>1, <1>1 DEF HandlersKnow, Types
  <2>2. CASE d = c
    <3>1. click'[c] = [click[c] EXCEPT !.pc = p]
      BY <1>1 DEF Types
    <3>2. /\ click'[c].pc = p /\ click'[c].kind = click[c].kind
          /\ click'[c].by = click[c].by /\ click'[c].held = click[c].held
      BY <3>1, <1>2 DEF Click
    <3>3. click[c].kind \in Kinds
      BY <1>2 DEF Click
    <3> QED
      BY <2>2, <3>2, <3>3, <1>1, <1>3 DEF HandlersKnow, Knows, Authorized, Kinds
  <2> QED
    BY <2>1, <2>2
<1>6. DecisionsAgree' /\ NothingBefore' /\ CardShowsDecision'
  BY <1>u DEF DecisionsAgree, NothingBefore, CardShowsDecision
<1> QED
  BY <1>4, <1>5, <1>6

LEMMA StartSteps ==
    ASSUME RequestInv, NEW c \in Clicks, NEW a \in Approvers,
           PressButton(c, a) \/ SubmitReason(c, a)
    PROVE  RequestInv'
<1> USE RequestAssumption DEF RequestInv
<1>u. UNCHANGED <<request, approvals, grants, submission, modals, card, role, requester>>
  BY DEF PressButton, SubmitReason, decided, environment
<1>1. PICK k \in Kinds :
        click' = [click EXCEPT ![c] =
           [pc |-> "team_role", kind |-> k, by |-> a, card |-> request.card,
            held |-> role[a] # "none"]]
  BY DEF PressButton, SubmitReason, Starts, Kinds
<1>2. click'[c] = [pc |-> "team_role", kind |-> k, by |-> a, card |-> request.card,
                   held |-> role[a] # "none"]
  BY <1>1 DEF Types
<1>3. (role[a] # "none") \in BOOLEAN /\ request.card \in BOOLEAN
  BY DEF Types, Request
<1>4. click'[c] \in Click
  BY <1>2, <1>3 DEF Click
<1>5. Types'
  BY <1>u, <1>1, <1>2, <1>4 DEF Types
<1>6. HandlersKnow'
  <2> SUFFICES ASSUME NEW d \in Clicks
               PROVE  Knows(click'[d], role, request.decision)
    BY <1>u DEF HandlersKnow
  <2>1. CASE d # c
    BY <2>1, <1>1 DEF HandlersKnow, Types
  <2>2. CASE d = c
    <3>1. /\ click'[c].pc = "team_role" /\ click'[c].by = a
          /\ click'[c].held = (role[a] # "none")
      BY <1>2
    <3> QED
      BY <2>2, <3>1 DEF Knows
  <2> QED
    BY <2>1, <2>2
<1>7. DecisionsAgree' /\ NothingBefore' /\ CardShowsDecision'
  BY <1>u DEF DecisionsAgree, NothingBefore, CardShowsDecision
<1> QED
  BY <1>5, <1>6, <1>7

\* The handlers that end, or go from one known place to the next, with an
\* effect on the modals or on the card.
LEMMA EffectSteps ==
    ASSUME RequestInv, NEW c \in Clicks,
           \/ OpenDenialModal(c) \/ Acknowledge(c)
           \/ UpdateApprovalMessage(c) \/ RespondToApprover(c)
    PROVE  RequestInv'
<1> USE RequestAssumption DEF RequestInv
<1>u. UNCHANGED <<request, approvals, grants, submission, role, requester>>
  BY DEF OpenDenialModal, Acknowledge, UpdateApprovalMessage, RespondToApprover, decided, environment
<1>k. click[c] \in Click
  BY DEF Types
<1>1. PICK p : /\ click' = [click EXCEPT ![c].pc = p]
               /\ \/ p = "idle"
                  \/ p = "denying" /\ click[c].pc = "acking"
                  \/ p = "responding" /\ click[c].pc = "updating" /\ click[c].kind = "approve"
  BY DEF OpenDenialModal, Acknowledge, UpdateApprovalMessage, RespondToApprover, Goes
<1>2. /\ modals' \subseteq Approvers
      /\ \/ card' = card
         \/ card' = VerdictOf(c) /\ click[c].pc = "updating"
         \/ card' = "notice" /\ click[c].pc = "responding"
  BY <1>k DEF OpenDenialModal, Acknowledge, UpdateApprovalMessage, RespondToApprover, Types, Click
<1>3. /\ request.decision \in {"none", "pending", "approved", "denied"}
      /\ click[c].pc \in {"updating", "responding"} => request.decision = VerdictOf(c)
      /\ VerdictOf(c) \in {"approved", "denied"}
      /\ click[c].pc = "responding" => VerdictOf(c) = "approved"
  BY DEF HandlersKnow, Knows, Types, Request, VerdictOf
<1>4. Types'
  BY <1>u, <1>1, <1>2, <1>3, <1>k DEF Types, Click, Cards
<1>5. HandlersKnow'
  <2> SUFFICES ASSUME NEW d \in Clicks
               PROVE  Knows(click'[d], role, request.decision)
    BY <1>u DEF HandlersKnow
  <2>1. CASE d # c
    BY <2>1, <1>1 DEF HandlersKnow, Types
  <2>2. CASE d = c
    <3>1. click'[c] = [click[c] EXCEPT !.pc = p]
      BY <1>1 DEF Types
    <3>2. /\ click'[c].pc = p /\ click'[c].kind = click[c].kind
          /\ click'[c].by = click[c].by /\ click'[c].held = click[c].held
      BY <3>1, <1>k DEF Click
    <3> QED
      BY <2>2, <3>2, <1>1, <1>3 DEF HandlersKnow, Knows, VerdictOf
  <2> QED
    BY <2>1, <2>2
<1>6. DecisionsAgree'
  BY <1>u DEF DecisionsAgree
<1>7. NothingBefore' /\ CardShowsDecision'
  BY <1>u, <1>2, <1>3 DEF NothingBefore, CardShowsDecision
<1> QED
  BY <1>4, <1>5, <1>6, <1>7

-----------------------------------------------------------------------------
(* Decisions *)

\* What a handler's transaction does, seen from the outside: nothing, or the
\* first decision of the request.
Decides(c, verdict) ==
    \/ UNCHANGED <<request, approvals, grants>>
    \/ /\ request.decision = "pending"
       /\ request' = [request EXCEPT !.decision = verdict, !.mode = "manual"]
       /\ approvals' = Append(approvals, [decision |-> verdict, approver |-> click[c].by])
       /\ grants' = IF verdict = "approved" THEN grants + 1 ELSE grants

LEMMA DecisionSteps ==
    ASSUME RequestInv, NEW c \in Clicks, Approve(c) \/ Deny(c)
    PROVE  /\ RequestInv'
           /\ \E v \in {"approved", "denied"} : Decides(c, v)
<1> USE RequestAssumption DEF RequestInv
<1>u. UNCHANGED <<submission, modals, card, role, requester>>
  BY DEF Approve, Deny, environment
<1>k. click[c] \in Click
  BY DEF Types
<1>1. PICK v \in {"approved", "denied"}, p \in {"idle", "updating", "responding"} :
        /\ Decides(c, v)
        /\ click' = [click EXCEPT ![c].pc = p]
        /\ VerdictOf(c) = v
        /\ p = "responding" => click[c].kind = "approve"
        /\ p # "idle" => request'.decision = v
  <2>1. CASE Approve(c)
    <3>1. VerdictOf(c) = "approved" /\ click[c].kind = "approve"
      BY <2>1 DEF Approve, HandlersKnow, Knows, VerdictOf
    <3>2. CASE IntentAccepted
      <4>1. Decides(c, "approved") /\ request'.decision = "approved"
        BY <2>1, <3>2 DEF Approve, CreateGrantIntent, ApprovalRecorded, Decides,
                          IntentAccepted, Undecided, Types, Request
      <4> QED
        BY <2>1, <3>1, <3>2, <4>1 DEF Approve, AfterApproval, Goes
    <3>3. CASE ~IntentAccepted
      <4>1. Decides(c, "approved")
        BY <2>1, <3>3 DEF Approve, CreateGrantIntent, Decides, decided
      <4> QED
        BY <2>1, <3>1, <3>3, <4>1 DEF Approve, AfterApproval, Goes
    <3> QED
      BY <3>2, <3>3
  <2>2. CASE Deny(c)
    <3>1. VerdictOf(c) = "denied"
      BY <2>2 DEF Deny, HandlersKnow, Knows, VerdictOf
    <3>2. CASE Undecided
      <4>1. Decides(c, "denied") /\ request'.decision = "denied"
        BY <2>2, <3>2 DEF Deny, RecordDenial, Decides, Undecided, Types, Request
      <4> QED
        BY <2>2, <3>1, <3>2, <4>1 DEF Deny, AfterDenial, Goes
    <3>3. CASE ~Undecided
      <4>1. Decides(c, "denied")
        BY <2>2, <3>3 DEF Deny, RecordDenial, Decides, decided
      <4> QED
        BY <2>2, <3>1, <3>3, <4>1 DEF Deny, AfterDenial, Goes
    <3> QED
      BY <3>2, <3>3
  <2> QED
    BY <2>1, <2>2
<1>2. /\ request' \in Request
      /\ \/ request' = request
         \/ /\ request.decision = "pending" /\ request'.decision = v
            /\ request'.mode = "manual"
  BY <1>1 DEF Decides, Types, Request
<1>3. [decision |-> v, approver |-> click[c].by] \in Approval
  BY <1>k DEF Approval, Click
<1>4. Types'
  <2>1. click' \in [Clicks -> Click]
    BY <1>k, <1>1 DEF Types, Click
  <2>2. approvals' \in Seq(Approval) /\ grants' \in Nat
    <3>1. approvals \in Seq(Approval) /\ grants \in Nat
      BY DEF Types
    <3>2. Append(approvals, [decision |-> v, approver |-> click[c].by]) \in Seq(Approval)
      BY <3>1, <1>3
    <3>3. \/ approvals' = approvals
          \/ approvals' = Append(approvals, [decision |-> v, approver |-> click[c].by])
      BY <1>1 DEF Decides
    <3>4. grants' = grants \/ grants' = grants + 1
      BY <1>1 DEF Decides
    <3> QED
      BY <3>1, <3>2, <3>3, <3>4
  <2> QED
    BY <1>u, <1>2, <2>1, <2>2 DEF Types
<1>5. DecisionsAgree'
  <2>1. CASE UNCHANGED <<request, approvals, grants>>
    BY <2>1 DEF DecisionsAgree
  <2>2. CASE ~UNCHANGED <<request, approvals, grants>>
    <3>1. request.decision = "pending" /\ request'.decision = v /\ request'.mode = "manual"
      BY <2>2, <1>1, <1>2 DEF Decides, Types, Request
    <3>2. approvals = <<>> /\ grants = 0
      BY <3>1 DEF DecisionsAgree
    <3>3. approvals' = Append(<<>>, [decision |-> v, approver |-> click[c].by])
      BY <2>2, <1>1, <3>2 DEF Decides
    <3>4. Len(approvals') = 1 /\ approvals'[1] = [decision |-> v, approver |-> click[c].by]
      BY <3>3
    <3>5. grants' = IF v = "approved" THEN 1 ELSE 0
      BY <2>2, <1>1, <3>2 DEF Decides
    <3> QED
      BY <3>1, <3>4, <3>5 DEF DecisionsAgree
  <2> QED
    BY <2>1, <2>2
<1>6. HandlersKnow'
  <2> SUFFICES ASSUME NEW d \in Clicks
               PROVE  Knows(click'[d], role, request'.decision)
    BY <1>u DEF HandlersKnow
  <2>1. CASE d # c
    <3>1. click'[d] = click[d]
      BY <2>1, <1>1 DEF Types
    <3> QED
      BY <3>1, <1>2 DEF HandlersKnow, Knows, VerdictOf
  <2>2. CASE d = c
    <3>1. click'[c] = [click[c] EXCEPT !.pc = p]
      BY <1>1 DEF Types
    <3>2. /\ click'[c].pc = p /\ click'[c].kind = click[c].kind
          /\ click'[c].by = click[c].by /\ click'[c].held = click[c].held
      BY <3>1, <1>k DEF Click
    <3> QED
      BY <2>2, <3>2, <1>1 DEF Knows, VerdictOf
  <2> QED
    BY <2>1, <2>2
<1>7. NothingBefore' /\ CardShowsDecision'
  BY <1>u, <1>2 DEF NothingBefore, CardShowsDecision
<1> QED
  BY <1>1, <1>4, <1>5, <1>6, <1>7

-----------------------------------------------------------------------------
(* The submission and the surroundings *)

\* The decision of a request that is being made.
LEMMA CreationSteps ==
    ASSUME RequestInv, AutoApprove \/ CreateRequest
    PROVE  /\ RequestInv'
           /\ request.decision = "none"
           /\ UNCHANGED approvals
           /\ \/ request'.decision = "pending" /\ UNCHANGED grants
              \/ request'.decision = "approved" /\ grants' = 1
<1> USE RequestAssumption DEF RequestInv
<1>1. /\ request.decision = "none" /\ request.mode = NULL /\ card = "none"
      /\ approvals = <<>> /\ grants = 0
  BY DEF AutoApprove, CreateRequest, SubmissionStep, NothingBefore, DecisionsAgree
<1>2. /\ UNCHANGED <<approvals, click, modals, card, role, requester>>
      /\ submission' \in {"over", "posting"}
      /\ request' \in Request
      /\ \/ request'.decision = "pending" /\ request'.mode = NULL /\ grants' = 0
         \/ request'.decision = "approved" /\ request'.mode = "auto" /\ grants' = 1
  <2>1. request \in Request
    BY DEF Types
  <2>2. CASE CreateRequest
    <3>1. /\ request' = [request EXCEPT !.decision = "pending"]
          /\ UNCHANGED <<approvals, grants, click, modals, card, role, requester>>
          /\ submission' = "posting"
      BY <2>2 DEF CreateRequest, SubmissionStep, environment
    <3>2. request' \in Request /\ request'.decision = "pending" /\ request'.mode = NULL
      BY <2>1, <3>1, <1>1 DEF Request
    <3> QED
      BY <3>1, <3>2, <1>1
  <2>3. CASE AutoApprove /\ requester.linked
    <3>1. /\ request' = [request EXCEPT !.decision = "approved", !.mode = "auto"]
          /\ grants' = grants + 1
          /\ UNCHANGED <<approvals, click, modals, card, role, requester>>
          /\ submission' = "over"
      BY <2>3 DEF AutoApprove, SubmissionStep, environment
    <3>2. request' \in Request /\ request'.decision = "approved" /\ request'.mode = "auto"
      BY <2>1, <3>1 DEF Request
    <3> QED
      BY <3>1, <3>2, <1>1
  <2>4. CASE AutoApprove /\ ~requester.linked
    <3>1. /\ request' = [request EXCEPT !.decision = "pending", !.mode = request.mode]
          /\ grants' = grants
          /\ UNCHANGED <<approvals, click, modals, card, role, requester>>
          /\ submission' = "over"
      BY <2>4 DEF AutoApprove, SubmissionStep, environment
    <3>2. request' \in Request /\ request'.decision = "pending" /\ request'.mode = NULL
      BY <2>1, <3>1, <1>1 DEF Request
    <3> QED
      BY <3>1, <3>2, <1>1
  <2> QED
    BY <2>2, <2>3, <2>4
<1>3. Types'
  BY <1>2 DEF Types, Submissions
<1>4. DecisionsAgree'
  BY <1>1, <1>2 DEF DecisionsAgree
<1>5. \A c \in Clicks : click[c].pc \notin {"updating", "responding"}
  BY <1>1 DEF HandlersKnow, Knows, VerdictOf
<1>6. HandlersKnow'
  BY <1>2, <1>5 DEF HandlersKnow, Knows, VerdictOf
<1>7. NothingBefore' /\ CardShowsDecision'
  BY <1>1, <1>2 DEF NothingBefore, CardShowsDecision
<1> QED
  BY <1>1, <1>2, <1>3, <1>4, <1>6, <1>7

LEMMA SubmissionSteps ==
    ASSUME RequestInv,
           \/ Submit \/ CheckOrganization \/ EvaluatePolicy \/ SubmissionFails
           \/ PostManualApproval \/ UpdateSlackMessageInfo
    PROVE  /\ RequestInv'
           /\ UNCHANGED <<request.decision, approvals, grants>>
<1> USE RequestAssumption DEF RequestInv
<1>1. UNCHANGED <<approvals, grants, click, modals, role, requester>>
  BY DEF Submit, CheckOrganization, EvaluatePolicy, SubmissionFails, PostManualApproval,
         UpdateSlackMessageInfo, SubmissionStep, decided, environment
<1>2. /\ request' \in Request
      /\ request'.decision = request.decision /\ request'.mode = request.mode
  BY DEF Submit, CheckOrganization, EvaluatePolicy, SubmissionFails, PostManualApproval,
         UpdateSlackMessageInfo, decided, Types, Request
<1>3. /\ submission' \in Submissions
      /\ submission' \in {"idle", "checking", "evaluating", "auto", "manual"}
             => request.decision = "none"
      /\ submission' \in {"posting", "saving"} => request.decision # "none"
  BY DEF Submit, CheckOrganization, EvaluatePolicy, SubmissionFails, PostManualApproval,
         UpdateSlackMessageInfo, SubmissionStep, Types, Submissions, NothingBefore
<1>4. card' = card \/ (card' = "open" /\ submission = "posting")
  BY DEF Submit, CheckOrganization, EvaluatePolicy, SubmissionFails, PostManualApproval,
         UpdateSlackMessageInfo, SubmissionStep
<1>5. Types'
  BY <1>1, <1>2, <1>3, <1>4 DEF Types, Cards
<1>6. DecisionsAgree'
  BY <1>1, <1>2 DEF DecisionsAgree
<1>7. HandlersKnow'
  BY <1>1, <1>2 DEF HandlersKnow
<1>8. NothingBefore' /\ CardShowsDecision'
  BY <1>2, <1>3, <1>4 DEF NothingBefore, CardShowsDecision
<1> QED
  BY <1>1, <1>2, <1>5, <1>6, <1>7, <1>8

LEMMA SurroundingSteps ==
    ASSUME RequestInv, Surroundings
    PROVE  /\ RequestInv'
           /\ UNCHANGED <<approvals, grants>>
           /\ \/ request'.decision = request.decision
              \/ request.decision = "none" /\ request'.decision = "pending"
<1> USE RequestAssumption DEF RequestInv
<1>1. ASSUME NEW a \in Approvers, CloseModal(a)
      PROVE  RequestInv' /\ UNCHANGED <<request, approvals, grants>>
  BY <1>1 DEF CloseModal, decided, environment, Types, DecisionsAgree, NothingBefore,
              HandlersKnow, CardShowsDecision
<1>2. ASSUME NEW a \in Approvers, NEW r \in Roles, ChangeRole(a, r)
      PROVE  RequestInv' /\ UNCHANGED <<request, approvals, grants>>
  <2>u. UNCHANGED <<request, approvals, grants, submission, modals, card, requester>>
    BY <1>2 DEF ChangeRole, decided
  <2>1. \A c \in Clicks :
           /\ click'[c] \in Click
           /\ click'[c].pc = click[c].pc /\ click'[c].kind = click[c].kind
           /\ click'[c].by = click[c].by
           /\ click[c].held => click'[c].held
           /\ click[c].by = a /\ click[c].pc # "idle" /\ r # "none" => click'[c].held
    BY <1>2 DEF ChangeRole, Types, Click
  <2>2. role' = [role EXCEPT ![a] = r] /\ click' = [c \in Clicks |-> click'[c]]
    BY <1>2 DEF ChangeRole
  <2>3. Types'
    BY <2>u, <2>1, <2>2 DEF Types
  <2>4. HandlersKnow'
    <3> SUFFICES ASSUME NEW c \in Clicks
                 PROVE  Knows(click'[c], role', request.decision)
      BY <2>u DEF HandlersKnow
    <3>1. click[c].by \in Approvers
      BY DEF Types, Click
    <3>2. role'[click[c].by] = IF click[c].by = a THEN r ELSE role[click[c].by]
      BY <2>2, <3>1 DEF Types
    <3> QED
      BY <2>1, <3>2 DEF HandlersKnow, Knows, VerdictOf
  <2> QED
    BY <2>u, <2>3, <2>4 DEF DecisionsAgree, NothingBefore, CardShowsDecision
<1>3. CASE ChangeRequester
  <2>1. UNCHANGED <<request, approvals, grants, submission, click, modals, card, role>>
    BY <1>3 DEF ChangeRequester, decided
  <2>2. requester' \in [linked : BOOLEAN, member : BOOLEAN]
    BY <1>3 DEF ChangeRequester, Types
  <2> QED
    BY <2>1, <2>2 DEF Types, DecisionsAgree, NothingBefore, HandlersKnow, CardShowsDecision
<1>4. CASE Crash
  <2>1. /\ UNCHANGED <<approvals, grants, modals, card, role, requester>>
        /\ submission' \in {"idle", "over"}
        /\ submission' = "idle" => submission = "idle" /\ request' = request
    BY <1>4 DEF Crash, environment
  <2>2. \A c \in Clicks : click'[c] \in Click /\ click'[c].pc = "idle"
    BY <1>4 DEF Crash, Types, Click
  <2>3. /\ request' \in Request /\ request'.mode = request.mode
        /\ \/ request'.decision = request.decision
           \/ request.decision = "none" /\ request'.decision = "pending"
    BY <1>4 DEF Crash, Types, Request, NothingBefore
  <2>4. Types'
    BY <1>4, <2>1, <2>2, <2>3 DEF Crash, Types, Submissions
  <2>5. DecisionsAgree'
    BY <2>1, <2>3 DEF DecisionsAgree
  <2>6. HandlersKnow' /\ NothingBefore' /\ CardShowsDecision'
    BY <2>1, <2>2, <2>3 DEF HandlersKnow, Knows, NothingBefore, CardShowsDecision
  <2> QED
    BY <2>1, <2>3, <2>4, <2>5, <2>6
<1> QED
  BY <1>1, <1>2, <1>3, <1>4 DEF Surroundings

-----------------------------------------------------------------------------
(* Theorems *)

LEMMA InitEstablishes == Init => RequestInv
<1> SUFFICES ASSUME Init PROVE RequestInv
  OBVIOUS
<1> USE RequestAssumption
<1>1. Types
  <2>1. click \in [Clicks -> Click]
    BY DEF Init
  <2>2. approvals \in Seq(Approval)
    BY DEF Init
  <2>3. request \in Request
    BY DEF Init, Request
  <2>4. requester \in [linked : BOOLEAN, member : BOOLEAN]
    BY DEF Init
  <2> QED
    BY <2>1, <2>2, <2>3, <2>4 DEF Init, Types, Submissions, Cards
<1>2. \A c \in Clicks : click[c].pc = "idle"
  BY DEF Init
<1> QED
  BY <1>1, <1>2 DEF Init, RequestInv, DecisionsAgree, NothingBefore, HandlersKnow, Knows,
                    CardShowsDecision

\* A step keeps the invariant, and does to the books what RequestDecision
\* allows.
LEMMA StepKeeps ==
    RequestInv /\ [Next]_vars => RequestInv' /\ [Decision!Next]_<<request.decision, approvals, grants>>
<1> SUFFICES ASSUME RequestInv, [Next]_vars
             PROVE  RequestInv' /\ [Decision!Next]_<<request.decision, approvals, grants>>
  OBVIOUS
<1>1. ASSUME NEW c \in Clicks,
             CheckTeamRole(c) \/ CheckOrgRole(c) \/ CheckRequester(c) \/ ClickFails(c)
      PROVE  RequestInv' /\ UNCHANGED <<request, approvals, grants>>
  BY <1>1, HandlerSteps DEF CheckTeamRole, CheckOrgRole, CheckRequester, ClickFails, decided
<1>2. ASSUME NEW c \in Clicks, NEW a \in Approvers, PressButton(c, a) \/ SubmitReason(c, a)
      PROVE  RequestInv' /\ UNCHANGED <<request, approvals, grants>>
  BY <1>2, StartSteps DEF PressButton, SubmitReason, decided
<1>3. ASSUME NEW c \in Clicks,
             \/ OpenDenialModal(c) \/ Acknowledge(c)
             \/ UpdateApprovalMessage(c) \/ RespondToApprover(c)
      PROVE  RequestInv' /\ UNCHANGED <<request, approvals, grants>>
  BY <1>3, EffectSteps DEF OpenDenialModal, Acknowledge, UpdateApprovalMessage,
                           RespondToApprover, decided
<1>4. ASSUME NEW c \in Clicks, Approve(c) \/ Deny(c)
      PROVE  RequestInv' /\ [Decision!Next]_<<request.decision, approvals, grants>>
  <2>1. RequestInv'
    BY <1>4, DecisionSteps
  <2>2. PICK v \in {"approved", "denied"} : Decides(c, v)
    BY <1>4, DecisionSteps
  <2>3. CASE UNCHANGED <<request, approvals, grants>>
    BY <2>1, <2>3
  <2>4. CASE ~UNCHANGED <<request, approvals, grants>>
    <3>1. click[c].by \in Approvers /\ request \in Request
      BY DEF RequestInv, Types, Click
    <3>2. request.decision = "pending" /\ request'.decision = v /\ grants = 0
      BY <2>2, <2>4, <3>1 DEF Decides, Request, RequestInv, DecisionsAgree
    <3>3. Decision!Decide(click[c].by, v)
      BY <2>2, <2>4, <3>2 DEF Decides, Decision!Decide
    <3> QED
      BY <2>1, <3>1, <3>3 DEF Decision!Next, Decision!Verdicts
  <2> QED
    BY <2>3, <2>4
<1>5. CASE AutoApprove \/ CreateRequest
  BY <1>5, CreationSteps DEF Decision!Next, Decision!Open, Decision!OpenApproved
<1>6. CASE \/ Submit \/ CheckOrganization \/ EvaluatePolicy \/ SubmissionFails
           \/ PostManualApproval \/ UpdateSlackMessageInfo
  BY <1>6, SubmissionSteps
<1>7. CASE Surroundings
  BY <1>7, SurroundingSteps DEF Decision!Next, Decision!Open
<1>8. CASE UNCHANGED vars
  BY <1>8 DEF vars, RequestInv, Types, DecisionsAgree, NothingBefore, HandlersKnow,
              CardShowsDecision
<1> QED
  BY <1>1, <1>2, <1>3, <1>4, <1>5, <1>6, <1>7, <1>8 DEF Next, SubmissionNext, ClickNext

LEMMA RequestInvHolds == Spec => []RequestInv
<1>1. Init => RequestInv
  BY InitEstablishes
<1>2. RequestInv /\ [Next]_vars => RequestInv'
  BY StepKeeps
<1> QED
  BY <1>1, <1>2, PTL DEF Spec

\* Whoever else is deciding, whatever fails or is rolled back and however
\* many handlers run, the request, the approvals and the grants tell the same
\* story.
THEOREM DecisionsConsistent == Spec => []DecisionsAgree
<1>1. RequestInv => DecisionsAgree
  BY DEF RequestInv
<1> QED
  BY <1>1, RequestInvHolds, PTL

\* A handler about to record a decision serves an approver who has had
\* authority since the click, for any number of approvers and handlers.
THEOREM DecisionsAuthorized == Spec => []DecisionUnderAuthority
<1>1. RequestInv => DecisionUnderAuthority
  BY DEF RequestInv, HandlersKnow, Knows, DecisionUnderAuthority
<1> QED
  BY <1>1, RequestInvHolds, PTL

\* Rows, handlers and card keep their types, and the two transactions that
\* decide never leave two approvals or two grants of one request.
THEOREM TypeCorrect == Spec => []RequestTypeOK
<1>1. ASSUME RequestInv PROVE RequestTypeOK
  <2>1. Len(approvals) <= 1
    <3>1. CASE request.mode = "manual"
      BY <1>1, <3>1 DEF RequestInv, DecisionsAgree
    <3>2. CASE request.mode # "manual"
      <4>1. approvals = <<>>
        BY <1>1, <3>2 DEF RequestInv, DecisionsAgree
      <4> QED
        BY <4>1
    <3> QED
      BY <3>1, <3>2
  <2>2. grants \in 0..1
    BY <1>1 DEF RequestInv, DecisionsAgree
  <2> QED
    BY <1>1, <2>1, <2>2 DEF RequestInv, Types, RequestTypeOK
<1> QED
  BY <1>1, RequestInvHolds, PTL

\* The card never announces a decision other than the one on the books,
\* however many approvers click and in whatever order their handlers end.
THEOREM CardTruthful == Spec => []CardShowsDecision
<1>1. RequestInv => CardShowsDecision
  BY DEF RequestInv
<1> QED
  BY <1>1, RequestInvHolds, PTL

\* AccessRequest implements RequestDecision: the first decision is the only
\* one.
THEOREM DecidesOnce == Spec => DecidedOnce
<1>1. Init => Decision!Init
  BY DEF Init, Decision!Init
<1>2. RequestInv /\ [Next]_vars => [Decision!Next]_<<request.decision, approvals, grants>>
  BY StepKeeps
<1>3. [Decision!Next]_<<request.decision, approvals, grants>> => [Decision!Next]_Decision!Vars
  BY DEF Decision!Vars
<1> QED
  BY <1>1, <1>2, <1>3, RequestInvHolds, PTL DEF Spec, DecidedOnce, Decision!Spec
=============================================================================
