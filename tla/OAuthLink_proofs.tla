--------------------------- MODULE OAuthLink_proofs ---------------------------
(***************************************************************************)
(* Proofs about OAuthLink, for any number of flows, browsers, accounts and *)
(* callbacks that run at the same time.                                    *)
(*                                                                         *)
(* What carries LinkFromVerifiedBrowser is VerifiedHere: the browser a row *)
(* is bound to, or a callback has consumed it for, has brought a code of   *)
(* the user of the flow.  AskedOnce and the refinement rest on InOrder: a  *)
(* flow that is being linked, or is linked, is spent.                      *)
(***************************************************************************)
EXTENDS OAuthLink, TLAPS

\* A row of a flow that has not been offered is blank.
Blank ==
    \A f \in Flows : ~states[f].created =>
        /\ states[f].oidc_nonce = None
        /\ ~states[f].slack_verified /\ ~states[f].used

VerifiedFrom(f, b) == [flow |-> f, browser |-> b, user |-> FlowUser[f]] \in verified

VerifiedHere ==
    /\ \A f \in Flows : states[f].binding_token # None =>
          VerifiedFrom(f, states[f].binding_token)
    /\ \A h \in Handlers : handler[h].at = "linking" =>
          VerifiedFrom(handler[h].flow, handler[h].browser)

InOrder ==
    /\ \A h \in Handlers : handler[h].at = "linking" => states[handler[h].flow].used
    /\ \A h \in Handlers : handler[h].at = "exchanging" => handler[h].nonce \in Browsers
    /\ \A l \in links : states[l.flow].used /\ l.user = FlowUser[l.flow]

OAuthInv ==
    OAuthTypeOK /\ Blank /\ VerifiedHere /\ InOrder /\ LinkFromVerifiedBrowser /\ AskedOnce

-----------------------------------------------------------------------------

LEMMA InitHolds == Init => OAuthInv
<1> SUFFICES ASSUME Init
             PROVE  OAuthInv
  OBVIOUS
<1> USE OAuthConstants DEF Init, Idle
<1>1. states \in [Flows -> DbOAuthState] /\ handler \in [Handlers -> Handler]
  BY DEF DbOAuthState, Handler
<1>2. OAuthTypeOK
  BY <1>1 DEF OAuthTypeOK
<1> QED
  BY <1>2 DEF OAuthInv, Blank, VerifiedHere, InOrder, LinkFromVerifiedBrowser, AskedOnce

-----------------------------------------------------------------------------
(* The invariant, one lemma for each part of a flow *)

\* The row is offered, expires or is started.
LEMMA RowSteps ==
    ASSUME OAuthInv, NEW f \in Flows,
           CreateState(f) \/ Expire(f) \/ \E b \in Browsers : Start(b, f)
    PROVE  OAuthInv'
<1> USE OAuthConstants DEF OAuthInv
<1>1. UNCHANGED <<links, cookie, handler, verified>> /\ pages' \subseteq Pages
  BY DEF CreateState, Expire, Start, OAuthTypeOK, Pages
<1>2. states[f] \in DbOAuthState
  BY DEF OAuthTypeOK
<1>3. /\ states' \in [Flows -> DbOAuthState]
      /\ \A g \in Flows \ {f} : states'[g] = states[g]
      /\ states'[f].created
      /\ states'[f].used = states[f].used
      /\ states'[f].slack_verified = states[f].slack_verified
      /\ states'[f].binding_token = states[f].binding_token
      /\ states'[f].oidc_nonce # None => ~states[f].slack_verified
  <2>1. CASE CreateState(f)
    BY <2>1, <1>2 DEF CreateState, OAuthTypeOK, DbOAuthState
  <2>2. CASE Expire(f)
    BY <2>2, <1>2 DEF Expire, OAuthTypeOK, DbOAuthState
  <2>3. ASSUME NEW b \in Browsers, Start(b, f)
        PROVE  <1>3
    BY <2>3, <1>2 DEF Start, Startable, Presentable, OAuthTypeOK, DbOAuthState
  <2> QED
    BY <2>1, <2>2, <2>3
<1>6. OAuthTypeOK'
  BY <1>1, <1>3 DEF OAuthTypeOK
<1>7. Blank'
  BY <1>3 DEF Blank
<1>8. VerifiedHere'
  BY <1>1, <1>3 DEF VerifiedHere, VerifiedFrom
<1>9. InOrder'
  BY <1>1, <1>3 DEF InOrder, OAuthTypeOK, DbIdentityLink
<1>10. LinkFromVerifiedBrowser' /\ AskedOnce'
  BY <1>1 DEF LinkFromVerifiedBrowser, AskedOnce
<1> QED
  BY <1>6, <1>7, <1>8, <1>9, <1>10

\* A browser forgets its cookie, or loses it with a refusal.
LEMMA CookieSteps ==
    ASSUME OAuthInv, NEW b \in Browsers,
           CookieExpires(b) \/ \E f \in Flows : GithubRefused(b, f)
    PROVE  OAuthInv'
<1>1. UNCHANGED <<states, links, pages, handler, verified>> /\ cookie' = [cookie EXCEPT ![b] = None]
  BY DEF CookieExpires, GithubRefused
<1> QED
  BY <1>1 DEF OAuthInv, OAuthTypeOK, Blank, VerifiedHere, VerifiedFrom, InOrder,
              LinkFromVerifiedBrowser, AskedOnce

\* A callback ends with no more than a cookie gone; the process restarts.
LEMMA EndSteps ==
    ASSUME OAuthInv,
           Crash \/ \E h \in Handlers : SlackRefused(h) \/ NothingLinked(h)
    PROVE  OAuthInv'
<1> USE OAuthConstants DEF OAuthInv
<1>1. UNCHANGED <<states, links, pages, verified>>
  BY DEF Crash, SlackRefused, NothingLinked
<1>2. /\ handler' \in [Handlers -> Handler]
      /\ \A h \in Handlers : handler'[h] \in {handler[h], Idle}
  BY DEF Crash, SlackRefused, NothingLinked, Finish, OAuthTypeOK, Idle, Handler
<1>3. cookie' \in [Browsers -> Flows \cup {None}]
  BY DEF Crash, SlackRefused, NothingLinked, OAuthTypeOK
<1>4. \A h \in Handlers : handler'[h].at # "idle" => handler'[h] = handler[h]
  BY <1>2 DEF Idle
<1>5. OAuthTypeOK'
  BY <1>1, <1>2, <1>3, <1>4 DEF OAuthTypeOK
<1>6. VerifiedHere' /\ InOrder'
  BY <1>1, <1>4 DEF VerifiedHere, VerifiedFrom, InOrder
<1>7. AskedOnce'
  BY <1>1, <1>4 DEF AskedOnce
<1> QED
  BY <1>1, <1>5, <1>6, <1>7 DEF Blank, LinkFromVerifiedBrowser

LEMMA SlackCallbackStep ==
    ASSUME OAuthInv, NEW h \in Handlers, NEW b \in Browsers, NEW page \in pages,
           NEW u \in Users, SlackCallback(h, b, page, u)
    PROVE  OAuthInv'
<1> USE OAuthConstants DEF OAuthInv
<1>1. UNCHANGED <<states, links, pages, cookie, verified>>
  BY DEF SlackCallback
<1>2. page.flow \in Flows /\ page.nonce \in Browsers
  BY DEF OAuthTypeOK, Pages
<1> DEFINE k == [at |-> "exchanging", flow |-> page.flow, nonce |-> page.nonce,
                   browser |-> b, user |-> u]
<1>3. handler' = [handler EXCEPT ![h] = k] /\ k \in Handler
  BY <1>2 DEF SlackCallback, Handler
<1>4. /\ handler' \in [Handlers -> Handler]
      /\ \A g \in Handlers : handler'[g] = IF g = h THEN k ELSE handler[g]
  BY <1>3 DEF OAuthTypeOK
<1>5. /\ k.at = "exchanging" /\ k.flow \in Flows /\ k.nonce \in Browsers /\ k.browser \in Browsers
  BY <1>2
<1> HIDE DEF k
<1>6. OAuthTypeOK'
  BY <1>1, <1>4, <1>5 DEF OAuthTypeOK
<1>7. VerifiedHere' /\ InOrder'
  BY <1>1, <1>4, <1>5 DEF VerifiedHere, VerifiedFrom, InOrder
<1>8. AskedOnce'
  BY <1>1, <1>4, <1>5 DEF AskedOnce
<1> QED
  BY <1>1, <1>6, <1>7, <1>8 DEF Blank, LinkFromVerifiedBrowser

LEMMA VerificationStep ==
    ASSUME OAuthInv, NEW h \in Handlers, CompleteSlackVerification(h)
    PROVE  OAuthInv'
<1> USE OAuthConstants DEF OAuthInv
<1> DEFINE f == handler[h].flow
           b == handler[h].browser
<1>1. f \in Flows /\ b \in Browsers /\ b # None
  BY DEF CompleteSlackVerification, OAuthTypeOK
<1>2. /\ verified' = verified \cup {[flow |-> f, browser |-> b, user |-> FlowUser[f]]}
      /\ Verifiable(states[f], handler[h].nonce)
      /\ UNCHANGED <<links, pages>>
      /\ states' = [states EXCEPT ![f].slack_verified = TRUE,
                                  ![f].binding_token = b,
                                  ![f].oidc_nonce = None]
  BY DEF CompleteSlackVerification, SignedInAs
<1>3. /\ handler' = [handler EXCEPT ![h] = Idle]
      /\ cookie' \in [Browsers -> Flows \cup {None}]
  BY <1>1 DEF CompleteSlackVerification, Finish, OAuthTypeOK
<1> HIDE DEF f, b
<1>4. states[f] \in DbOAuthState
  BY <1>1 DEF OAuthTypeOK
<1>5. /\ states' \in [Flows -> DbOAuthState]
      /\ \A g \in Flows \ {f} : states'[g] = states[g]
      /\ states'[f].created /\ ~states'[f].used /\ states'[f].slack_verified
      /\ states'[f].binding_token = b /\ states'[f].oidc_nonce = None
  BY <1>1, <1>2, <1>4 DEF OAuthTypeOK, DbOAuthState, Verifiable, Presentable
<1>6. /\ handler' \in [Handlers -> Handler]
      /\ \A g \in Handlers : handler'[g].at # "idle" => g # h /\ handler'[g] = handler[g]
  BY <1>3 DEF OAuthTypeOK, Idle, Handler
<1>7. ~states[f].used
  BY <1>2 DEF Verifiable, Presentable
<1>8. OAuthTypeOK'
  <2>1. FlowUser[f] \in Users
    BY <1>1
  <2>2. verified' \subseteq Verifications
    BY <1>1, <1>2, <2>1 DEF OAuthTypeOK, Verifications
  <2> QED
    BY <1>2, <1>3, <1>5, <1>6, <2>2 DEF OAuthTypeOK
<1>9. Blank'
  BY <1>5 DEF Blank
<1>10. VerifiedHere'
  <2>1. verified \subseteq verified'
    BY <1>2
  <2>2. [flow |-> f, browser |-> b, user |-> FlowUser[f]] \in verified'
    BY <1>2
  <2>3. ASSUME NEW g \in Flows, states'[g].binding_token # None
        PROVE  [flow |-> g, browser |-> states'[g].binding_token, user |-> FlowUser[g]] \in verified'
    <3>1. CASE g = f
      BY <1>5, <2>2, <3>1
    <3>2. CASE g # f
      BY <1>5, <2>1, <2>3, <3>2 DEF VerifiedHere, VerifiedFrom
    <3> QED
      BY <3>1, <3>2
  <2>4. ASSUME NEW g \in Handlers, handler'[g].at = "linking"
        PROVE  [flow |-> handler'[g].flow, browser |-> handler'[g].browser,
                user |-> FlowUser[handler'[g].flow]] \in verified'
    BY <1>6, <2>1, <2>4 DEF VerifiedHere, VerifiedFrom
  <2> QED
    BY <2>3, <2>4 DEF VerifiedHere, VerifiedFrom
<1>11. InOrder'
  BY <1>2, <1>5, <1>6, <1>7 DEF InOrder, OAuthTypeOK, DbIdentityLink
<1>12. LinkFromVerifiedBrowser' /\ AskedOnce'
  BY <1>2, <1>6 DEF LinkFromVerifiedBrowser, AskedOnce
<1> QED
  BY <1>8, <1>9, <1>10, <1>11, <1>12

LEMMA ConsumeStep ==
    ASSUME OAuthInv, NEW h \in Handlers, NEW b \in Browsers, NEW f \in Flows,
           ConsumeVerifiedState(h, b, f)
    PROVE  OAuthInv'
<1> USE OAuthConstants DEF OAuthInv
<1> DEFINE k == [at |-> "linking", flow |-> f, nonce |-> None, browser |-> b, user |-> None]
<1>1. /\ UNCHANGED <<links, pages, cookie, verified>>
      /\ states' = [states EXCEPT ![f] = Consumed(states[f])]
      /\ handler' = [handler EXCEPT ![h] = k]
      /\ states[f].created /\ ~states[f].used /\ states[f].slack_verified
      /\ states[f].binding_token = b
  BY DEF ConsumeVerifiedState, Consumable, Presentable, OAuthTypeOK
<1>2. states[f] \in DbOAuthState
  BY DEF OAuthTypeOK
<1>3. /\ states' \in [Flows -> DbOAuthState]
      /\ \A g \in Flows \ {f} : states'[g] = states[g]
      /\ states'[f].created /\ states'[f].used /\ states'[f].slack_verified
      /\ states'[f].binding_token = None /\ states'[f].oidc_nonce = states[f].oidc_nonce
  BY <1>1, <1>2 DEF Consumed, OAuthTypeOK, DbOAuthState
<1>4. k \in Handler
  BY DEF Handler
<1>5. /\ handler' \in [Handlers -> Handler]
      /\ \A g \in Handlers : handler'[g] = IF g = h THEN k ELSE handler[g]
      /\ k.at = "linking" /\ k.flow = f /\ k.browser = b
  BY <1>1, <1>4 DEF OAuthTypeOK
<1>6. VerifiedFrom(f, b)
  BY <1>1 DEF VerifiedHere
<1> HIDE DEF k
<1>7. OAuthTypeOK'
  BY <1>1, <1>3, <1>5 DEF OAuthTypeOK
<1>8. Blank'
  BY <1>3 DEF Blank
<1>9. VerifiedHere'
  BY <1>1, <1>3, <1>5, <1>6 DEF VerifiedHere, VerifiedFrom
<1>10. InOrder'
  BY <1>1, <1>3, <1>5 DEF InOrder, OAuthTypeOK, DbIdentityLink
<1>11. AskedOnce'
  <2>1. \A g \in Handlers : handler[g].at = "linking" => handler[g].flow # f
    BY <1>1 DEF InOrder
  <2>2. \A l \in links : l.flow # f
    BY <1>1 DEF InOrder
  <2> QED
    BY <1>1, <1>5, <2>1, <2>2 DEF AskedOnce
<1> QED
  BY <1>1, <1>7, <1>8, <1>9, <1>10, <1>11 DEF LinkFromVerifiedBrowser

LEMMA LinkStep ==
    ASSUME OAuthInv, NEW h \in Handlers, NEW a \in Accounts, CreateLink(h, a)
    PROVE  OAuthInv'
<1> USE OAuthConstants DEF OAuthInv
<1> DEFINE f == handler[h].flow
           b == handler[h].browser
           l == [user |-> FlowUser[f], account |-> a, flow |-> f, browser |-> b]
<1>1. f \in Flows /\ b \in Browsers /\ handler[h].at = "linking"
  BY DEF CreateLink, OAuthTypeOK
<1>2. /\ UNCHANGED <<states, pages, verified>>
      /\ links' = links \cup {l}
      /\ cookie' \in [Browsers -> Flows \cup {None}]
      /\ handler' = [handler EXCEPT ![h] = Idle]
  BY DEF CreateLink, OAuthTypeOK, Finish
<1>3. /\ l \in DbIdentityLink
      /\ l.flow = f /\ l.user = FlowUser[f] /\ l.account = a /\ l.browser = b
  BY <1>1 DEF DbIdentityLink
<1>4. states[f].used /\ VerifiedFrom(f, b)
  BY <1>1 DEF InOrder, VerifiedHere
<1>5. /\ handler' \in [Handlers -> Handler]
      /\ \A g \in Handlers : handler'[g].at # "idle" => g # h /\ handler'[g] = handler[g]
  BY <1>2 DEF OAuthTypeOK, Idle, Handler
<1>6. \A g \in Handlers : handler'[g].at = "linking" => handler'[g].flow # f
  BY <1>1, <1>5 DEF AskedOnce
<1> HIDE DEF f, b, l
<1>7. OAuthTypeOK'
  BY <1>2, <1>3, <1>5 DEF OAuthTypeOK
<1>8. Blank'
  BY <1>2 DEF Blank
<1>9. VerifiedHere' /\ InOrder'
  BY <1>2, <1>3, <1>4, <1>5 DEF VerifiedHere, VerifiedFrom, InOrder
<1>10. LinkFromVerifiedBrowser'
  BY <1>2, <1>3, <1>4 DEF LinkFromVerifiedBrowser, VerifiedFrom
<1>11. AskedOnce'
  BY <1>2, <1>3, <1>5, <1>6 DEF AskedOnce
<1> QED
  BY <1>7, <1>8, <1>9, <1>10, <1>11

LEMMA NextKeeps == OAuthInv /\ [Next]_vars => OAuthInv'
<1> SUFFICES ASSUME OAuthInv, [Next]_vars
             PROVE  OAuthInv'
  OBVIOUS
<1>1. CASE UNCHANGED vars
  BY <1>1 DEF vars, OAuthInv, OAuthTypeOK, Blank, VerifiedHere, VerifiedFrom, InOrder,
              LinkFromVerifiedBrowser, AskedOnce
<1>2. CASE Next
  BY <1>2, RowSteps, CookieSteps, EndSteps, SlackCallbackStep, VerificationStep,
     ConsumeStep, LinkStep DEF Next
<1> QED
  BY <1>1, <1>2

LEMMA OAuthInvHolds == Spec => []OAuthInv
  BY InitHolds, NextKeeps, PTL DEF Spec

-----------------------------------------------------------------------------

\* Tables, cookies and callbacks have their types, and a row is in one of the
\* states of the comment in oauth-state-repository.ts.
THEOREM TypeCorrect == Spec => []OAuthTypeOK
<1>1. OAuthInv => OAuthTypeOK
  BY DEF OAuthInv
<1> QED
  BY <1>1, OAuthInvHolds, PTL

\* The browser that finished a link at GitHub is one that brought a code of the
\* link's Slack user for the same flow (github-oauth-routes.ts:209-268, 304-365).
THEOREM LinksFromVerifiedBrowser == Spec => []LinkFromVerifiedBrowser
<1>1. OAuthInv => LinkFromVerifiedBrowser
  BY DEF OAuthInv
<1> QED
  BY <1>1, OAuthInvHolds, PTL

\* Of the callbacks of a flow only one asks GitHub (github-oauth-routes.ts:
\* 352-372).
THEOREM GithubAskedOnce == Spec => []AskedOnce
<1>1. OAuthInv => AskedOnce
  BY DEF OAuthInv
<1> QED
  BY <1>1, OAuthInvHolds, PTL

-----------------------------------------------------------------------------
(* OAuthLink implements AccountLink *)

Phase == [f \in Flows |-> PhaseOf(f)]
Linked == {[user |-> l.user, account |-> l.account] : l \in links}

\* A flow whose row and links stay as they are stays in its phase.
LEMMA SamePhase ==
    ASSUME NEW f \in Flows, states'[f] = states[f],
           \A l \in links \cup links' : l.flow = f => l \in links /\ l \in links'
    PROVE  PhaseOf(f)' = PhaseOf(f)
<1>1. (\E l \in links : l.flow = f) <=> (\E l \in links' : l.flow = f)
  OBVIOUS
<1> QED
  BY <1>1 DEF PhaseOf

\* A flow that moves from one phase to the next while the others stay.
LEMMA PhaseMoves ==
    ASSUME NEW f \in Flows, NEW to, PhaseOf(f)' = to,
           \A g \in Flows \ {f} : PhaseOf(g)' = PhaseOf(g)
    PROVE  Phase' = [Phase EXCEPT ![f] = to]
  BY DEF Phase

\* The row alone tells the phase of a flow that is not spent.
LEMMA OpenPhase ==
    ASSUME InOrder, NEW f \in Flows, ~states[f].used
    PROVE  PhaseOf(f) = IF states[f].slack_verified THEN "slack_verified"
                        ELSE IF states[f].oidc_nonce # None THEN "oidc_pending"
                        ELSE IF states[f].created THEN "unstarted" ELSE "none"
<1>1. ~ \E l \in links : l.flow = f
  BY DEF InOrder
<1> QED
  BY <1>1 DEF PhaseOf

LEMMA StepSimulates ==
    ASSUME OAuthInv, OAuthInv', [Next]_vars
    PROVE  [Promise!Next]_<<Phase, Linked>>
<1> USE OAuthConstants DEF OAuthInv
<1> DEFINE Goal == [Promise!Next]_<<Phase, Linked>>
<1>0. ASSUME NEW f \in Flows, NEW from, NEW to,
             PhaseOf(f) = from, PhaseOf(f)' = to,
             \/ from = "none" /\ to = "unstarted"
             \/ from = "unstarted" /\ to = "oidc_pending"
             \/ from = "oidc_pending" /\ to = "slack_verified"
             \/ from = "slack_verified" /\ to = "consumed",
             UNCHANGED links,
             \A g \in Flows \ {f} : states'[g] = states[g]
      PROVE  Goal
  <2>1. \A g \in Flows \ {f} : PhaseOf(g)' = PhaseOf(g)
    BY <1>0, SamePhase
  <2>2. Phase' = [Phase EXCEPT ![f] = to]
    BY <1>0, <2>1, PhaseMoves
  <2>3. Phase[f] = from
    BY <1>0 DEF Phase
  <2>4. Linked' = Linked
    BY <1>0 DEF Linked
  <2>5. Promise!Step(f, from, to)
    BY <2>2, <2>3 DEF Promise!Step, Phase
  <2> QED
    BY <1>0, <2>4, <2>5 DEF Promise!Next, Phase, Linked
<1>1. ASSUME UNCHANGED <<links>>, \A g \in Flows : PhaseOf(g)' = PhaseOf(g)
      PROVE  Goal
  BY <1>1 DEF Phase, Linked
<1>2. ASSUME UNCHANGED <<states, links>>
      PROVE  Goal
  <2>1. \A g \in Flows : PhaseOf(g)' = PhaseOf(g)
    BY <1>2, SamePhase
  <2> QED
    BY <1>1, <1>2, <2>1
<1>3. ASSUME NEW f \in Flows, CreateState(f)
      PROVE  Goal
  <2>1. /\ UNCHANGED links
        /\ \A g \in Flows \ {f} : states'[g] = states[g]
        /\ states'[f] = [states[f] EXCEPT !.created = TRUE]
        /\ states[f] \in DbOAuthState
        /\ states[f].oidc_nonce = None /\ ~states[f].slack_verified /\ ~states[f].used
        /\ ~states[f].created
    BY <1>3 DEF CreateState, OAuthTypeOK, Blank
  <2>2. /\ states'[f].oidc_nonce = None /\ ~states'[f].slack_verified /\ ~states'[f].used
        /\ states'[f].created
    BY <2>1 DEF DbOAuthState
  <2>3. PhaseOf(f) = "none"
    BY <2>1, OpenPhase
  <2>4. PhaseOf(f)' = "unstarted"
    BY <2>1, <2>2 DEF PhaseOf, InOrder
  <2> QED
    BY <1>0, <2>1, <2>3, <2>4
<1>4. ASSUME NEW f \in Flows, Expire(f)
      PROVE  Goal
  <2>1. /\ UNCHANGED links
        /\ \A g \in Flows \ {f} : states'[g] = states[g]
        /\ states'[f] = [states[f] EXCEPT !.expired = TRUE]
        /\ states[f] \in DbOAuthState
    BY <1>4 DEF Expire, OAuthTypeOK
  <2>2. /\ states'[f].oidc_nonce = states[f].oidc_nonce
        /\ states'[f].slack_verified = states[f].slack_verified
        /\ states'[f].used = states[f].used /\ states'[f].created = states[f].created
    BY <2>1 DEF DbOAuthState
  <2>3. PhaseOf(f)' = PhaseOf(f)
    BY <2>1, <2>2 DEF PhaseOf
  <2>4. \A g \in Flows \ {f} : PhaseOf(g)' = PhaseOf(g)
    BY <2>1, SamePhase
  <2> QED
    BY <1>1, <2>1, <2>3, <2>4
<1>5. ASSUME NEW f \in Flows, NEW b \in Browsers, Start(b, f)
      PROVE  Goal
  <2>1. /\ UNCHANGED links
        /\ \A g \in Flows \ {f} : states'[g] = states[g]
        /\ states'[f] = [states[f] EXCEPT !.oidc_nonce = b]
        /\ states[f] \in DbOAuthState
        /\ states[f].oidc_nonce = None /\ ~states[f].slack_verified /\ ~states[f].used
        /\ states[f].created
    BY <1>5 DEF Start, Startable, Presentable, OAuthTypeOK
  <2>2. /\ states'[f].oidc_nonce # None /\ ~states'[f].slack_verified /\ ~states'[f].used
    BY <2>1 DEF DbOAuthState
  <2>3. PhaseOf(f) = "unstarted"
    BY <2>1, OpenPhase
  <2>4. PhaseOf(f)' = "oidc_pending"
    BY <2>1, <2>2 DEF PhaseOf, InOrder
  <2> QED
    BY <1>0, <2>1, <2>3, <2>4
<1>6. ASSUME NEW h \in Handlers, CompleteSlackVerification(h)
      PROVE  Goal
  <2>f. PICK f \in Flows : f = handler[h].flow
    BY <1>6 DEF CompleteSlackVerification, OAuthTypeOK
  <2>1. handler[h].nonce \in Browsers
    BY <1>6 DEF CompleteSlackVerification, InOrder
  <2>2. /\ UNCHANGED links
        /\ \A g \in Flows \ {f} : states'[g] = states[g]
        /\ states'[f] = [states[f] EXCEPT !.slack_verified = TRUE,
                                          !.binding_token = handler[h].browser,
                                          !.oidc_nonce = None]
        /\ states[f] \in DbOAuthState
        /\ states[f].oidc_nonce # None /\ ~states[f].slack_verified /\ ~states[f].used
    BY <1>6, <2>f, <2>1 DEF CompleteSlackVerification, Verifiable, Presentable, OAuthTypeOK
  <2>3. states'[f].slack_verified /\ ~states'[f].used
    BY <2>2 DEF DbOAuthState
  <2>4. PhaseOf(f) = "oidc_pending"
    BY <2>2, OpenPhase
  <2>5. PhaseOf(f)' = "slack_verified"
    BY <2>2, <2>3 DEF PhaseOf, InOrder
  <2> QED
    BY <1>0, <2>2, <2>4, <2>5
<1>7. ASSUME NEW h \in Handlers, NEW b \in Browsers, NEW f \in Flows,
             ConsumeVerifiedState(h, b, f)
      PROVE  Goal
  <2>1. /\ UNCHANGED links
        /\ \A g \in Flows \ {f} : states'[g] = states[g]
        /\ states'[f] = Consumed(states[f])
        /\ states[f] \in DbOAuthState
        /\ states[f].slack_verified /\ ~states[f].used
    BY <1>7 DEF ConsumeVerifiedState, Consumable, Presentable, OAuthTypeOK
  <2>2. states'[f].used
    BY <2>1 DEF Consumed, DbOAuthState
  <2>3. PhaseOf(f) = "slack_verified"
    BY <2>1, OpenPhase
  <2>4. PhaseOf(f)' = "consumed"
    BY <2>1, <2>2 DEF PhaseOf, InOrder
  <2> QED
    BY <1>0, <2>1, <2>3, <2>4
<1>8. ASSUME NEW h \in Handlers, NEW a \in Accounts, CreateLink(h, a)
      PROVE  Goal
  <2>f. PICK f \in Flows : f = handler[h].flow
    BY <1>8 DEF CreateLink, OAuthTypeOK
  <2>l. PICK l : l = [user |-> FlowUser[f], account |-> a, flow |-> f,
                      browser |-> handler[h].browser]
    OBVIOUS
  <2>p. PICK p : p = [user |-> FlowUser[f], account |-> a]
    OBVIOUS
  <2>1. l.flow = f /\ l.user = FlowUser[f] /\ l.account = a
    BY <2>l
  <2>2. UNCHANGED states /\ links' = links \cup {l} /\ NoLink(FlowUser[f], a)
    BY <1>8, <2>f, <2>l DEF CreateLink
  <2>3. states[f].used /\ \A k \in links : k.flow # f
    BY <1>8, <2>f DEF CreateLink, InOrder, AskedOnce
  <2>4. Linked' = Linked \cup {p}
    BY <2>1, <2>2, <2>p DEF Linked
  <2>5. PhaseOf(f) = "consumed"
    BY <2>3 DEF PhaseOf
  <2>6. PhaseOf(f)' = "linked"
    BY <2>1, <2>2 DEF PhaseOf
  <2>7. \A g \in Flows \ {f} : PhaseOf(g)' = PhaseOf(g)
    BY <2>1, <2>2, SamePhase
  <2>8. Phase' = [Phase EXCEPT ![f] = "linked"]
    BY <2>6, <2>7, PhaseMoves
  <2>9. Phase[f] = "consumed"
    BY <2>5 DEF Phase
  <2>10. Promise!Step(f, "consumed", "linked")
    BY <2>8, <2>9 DEF Promise!Step, Phase
  <2>11. \A q \in Linked : q.user # FlowUser[f] /\ q.account # a
    BY <2>2 DEF Linked, NoLink, LinksOfUser, LinksOfAccount
  <2>12. Promise!Unlinked(FlowUser[f], a)
    BY <2>11 DEF Promise!Unlinked, Linked
  <2>13. Promise!Link(f, a)
    BY <2>p, <2>4, <2>10, <2>12 DEF Promise!Link, Linked
  <2> QED
    BY <2>13 DEF Promise!Next
<1>9. CASE UNCHANGED vars
  BY <1>2, <1>9 DEF vars
<1>10. CASE Next
  BY <1>10, <1>2, <1>3, <1>4, <1>5, <1>6, <1>7, <1>8
     DEF Next, GithubRefused, SlackCallback, SlackRefused, NothingLinked, CookieExpires, Crash
<1> QED
  BY <1>9, <1>10

LEMMA InitSimulates == Init => Promise!Init
<1> SUFFICES ASSUME Init
             PROVE  Promise!Init
  OBVIOUS
<1>1. \A f \in Flows : PhaseOf(f) = "none"
  BY DEF Init, PhaseOf
<1> QED
  BY <1>1 DEF Promise!Init, Init

\* The routes implement the one-way state machine and the one-to-one links of
\* AccountLink (oauth-state-repository.ts:79-93).
THEOREM LinksInOrder == Spec => FlowsMoveForward
<1>1. OAuthInv /\ OAuthInv' /\ [Next]_vars => [Promise!Next]_<<Phase, Linked>>
  BY StepSimulates
<1>2. [Promise!Next]_<<Phase, Linked>> => [Promise!Next]_Promise!vars
  BY DEF Promise!vars, Phase, Linked
<1> QED
  BY <1>1, <1>2, InitSimulates, OAuthInvHolds, PTL DEF Spec, FlowsMoveForward, Promise!Spec
=============================================================================
