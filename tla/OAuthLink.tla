------------------------------ MODULE OAuthLink ------------------------------
(***************************************************************************)
(* Connecting a GitHub account (github-oauth-routes.ts): the routes        *)
(* /auth/github/start, /auth/slack/callback and /auth/github/callback over *)
(* the tables oauth_states and identity_links.  A link of Slack, and the   *)
(* pages it leads to, may be opened in any browser, several times and in   *)
(* several tabs; a browser keeps one binding cookie for all of them.       *)
(* Whose accounts they are is told by the codes that the callbacks bring,  *)
(* and by nothing else: a code may be anybody's in any browser.            *)
(*                                                                         *)
(* A random value is named after the browser it was made for; that its     *)
(* hash is stored is left out.                                             *)
(***************************************************************************)
EXTENDS FiniteSets, Naturals

CONSTANTS
    Flows, Users, Accounts, FlowUser,  \* as in AccountLink
    Browsers,    \* that bring callbacks, each with its cookies
    Handlers,    \* running callbacks
    None         \* NULL; no value

ASSUME OAuthConstants ==
    /\ FlowUser \in [Flows -> Users]
    /\ None \notin Browsers \cup Flows \cup Users

VARIABLES
    states,   \* oauth_states
    links,    \* identity_links, with the flow and the browser they come from
    pages,    \* sign-in pages of Slack that have been handed out
    cookie,   \* cookie[b]: the flow whose binding token the browser holds
    handler,  \* handler[h]: what a callback remembers across its awaits
    verified  \* history: the user whose code verified a flow, and from where

vars == <<states, links, pages, cookie, handler, verified>>

DbOAuthState ==
    [created: BOOLEAN, expired: BOOLEAN, oidc_nonce: Browsers \cup {None},
     slack_verified: BOOLEAN, binding_token: Browsers \cup {None}, used: BOOLEAN]

DbIdentityLink == [user: Users, account: Accounts, flow: Flows, browser: Browsers]

Pages == [flow: Flows, nonce: Browsers]

Verifications == [flow: Flows, browser: Browsers, user: Users]

\* "exchanging" a code of Slack, or of GitHub in order to link.
Handler ==
    [at: {"idle", "exchanging", "linking"}, flow: Flows \cup {None},
     nonce: Browsers \cup {None}, browser: Browsers \cup {None}, user: Users \cup {None}]

Idle == [at |-> "idle", flow |-> None, nonce |-> None, browser |-> None, user |-> None]

Init ==
    /\ states = [f \in Flows |->
                   [created |-> FALSE, expired |-> FALSE, oidc_nonce |-> None,
                    slack_verified |-> FALSE, binding_token |-> None, used |-> FALSE]]
    /\ links = {}
    /\ pages = {}
    /\ cookie = [b \in Browsers |-> None]
    /\ handler = [h \in Handlers |-> Idle]
    /\ verified = {}

-----------------------------------------------------------------------------
(* The compare-and-sets of OAuthStateRepository *)

\* A request with a token that is in its time and names an unused row.
Presentable(row) == row.created /\ ~row.expired /\ ~row.used

Startable(row) == Presentable(row) /\ ~row.slack_verified /\ row.oidc_nonce = None

Verifiable(row, nonce) == Presentable(row) /\ ~row.slack_verified /\ row.oidc_nonce = nonce

\* Deviation: that some browser has been verified is enough.
ConsumableByAny(row, b, held) == Presentable(row) /\ row.slack_verified

\* held: the cookie of b is the token of this flow.
Consumable(row, b, held) ==
    Presentable(row) /\ row.slack_verified /\ held /\ row.binding_token = b

-----------------------------------------------------------------------------
(* The routes *)

Finish(h) == handler' = [handler EXCEPT ![h] = Idle]

\* createState: the user is shown a link.
CreateState(f) ==
    /\ ~states[f].created
    /\ states' = [states EXCEPT ![f].created = TRUE]
    /\ UNCHANGED <<links, pages, cookie, handler, verified>>

\* Ten minutes are over.
Expire(f) ==
    /\ states[f].created /\ ~states[f].expired
    /\ states' = [states EXCEPT ![f].expired = TRUE]
    /\ UNCHANGED <<links, pages, cookie, handler, verified>>

\* GET /auth/github/start: beginSlackOidc, and the browser is sent to Slack.
Start(b, f) ==
    /\ Startable(states[f])
    /\ states' = [states EXCEPT ![f].oidc_nonce = b]
    /\ pages' = pages \cup {[flow |-> f, nonce |-> b]}
    /\ UNCHANGED <<links, cookie, handler, verified>>

\* GET /auth/slack/callback up to the exchange of the code, which was given to
\* user u; nothing ties it to the browser b.
SlackCallback(h, b, page, u) ==
    /\ handler[h] = Idle
    /\ Presentable(states[page.flow])
    /\ handler' = [handler EXCEPT ![h] =
                     [at |-> "exchanging", flow |-> page.flow, nonce |-> page.nonce,
                      browser |-> b, user |-> u]]
    /\ UNCHANGED <<states, links, pages, cookie, verified>>

\* The identity of the exchanged code is that of the row.
SignedInAs(f, u) == u = FlowUser[f]

\* completeSlackVerification; the answer with the cookie may be lost.
CompleteSlackVerification(h) ==
    LET f == handler[h].flow
        b == handler[h].browser
    IN  /\ handler[h].at = "exchanging"
        /\ SignedInAs(f, handler[h].user)
        /\ Verifiable(states[f], handler[h].nonce)
        /\ states' = [states EXCEPT ![f].slack_verified = TRUE,
                                    ![f].binding_token = b,
                                    ![f].oidc_nonce = None]
        /\ \/ cookie' = [cookie EXCEPT ![b] = f]
           \/ UNCHANGED cookie
        /\ verified' = verified \cup {[flow |-> f, browser |-> b, user |-> handler[h].user]}
        /\ Finish(h)
        /\ UNCHANGED <<links, pages>>

\* The exchange fails, the code is somebody else's or the row has moved on.
SlackRefused(h) ==
    /\ handler[h].at = "exchanging"
    /\ Finish(h)
    /\ UNCHANGED <<states, links, pages, cookie, verified>>

\* Deviation: the row is consumed when the link has been made.
ConsumeLater(row) == row

Consumed(row) == [row EXCEPT !.used = TRUE, !.binding_token = None]

\* GET /auth/github/callback up to consumeVerifiedState.
ConsumeVerifiedState(h, b, f) ==
    /\ handler[h] = Idle
    /\ Consumable(states[f], b, cookie[b] = f)
    /\ states' = [states EXCEPT ![f] = Consumed(@)]
    /\ handler' = [handler EXCEPT ![h] =
                     [at |-> "linking", flow |-> f, nonce |-> None, browser |-> b, user |-> None]]
    /\ UNCHANGED <<links, pages, cookie, verified>>

\* The browser was not verified for this flow: its cookie goes, even if it is
\* that of another flow.
GithubRefused(b, f) ==
    /\ Presentable(states[f])
    /\ ~Consumable(states[f], b, cookie[b] = f)
    /\ cookie[b] # None
    /\ cookie' = [cookie EXCEPT ![b] = None]
    /\ UNCHANGED <<states, links, pages, handler, verified>>

LinksOfUser(u) == {l \in links : l.user = u}
LinksOfAccount(a) == {l \in links : l.account = a}

\* Deviation: only the user is looked up.
NoLinkOfUser(u, a) == LinksOfUser(u) = {}

\* Neither Case B nor C nor D.
NoLink(u, a) == LinksOfUser(u) = {} /\ LinksOfAccount(a) = {}

\* The code of GitHub was for account a: Case A, and the cookie goes with the
\* response.
CreateLink(h, a) ==
    LET f == handler[h].flow
        b == handler[h].browser
    IN  /\ handler[h].at = "linking"
        /\ NoLink(FlowUser[f], a)
        /\ links' = links \cup
             {[user |-> FlowUser[f], account |-> a, flow |-> f, browser |-> b]}
        /\ cookie' = [cookie EXCEPT ![b] = None]
        /\ Finish(h)
        /\ UNCHANGED <<states, pages, verified>>

\* Cases B, C and D, a failing exchange: no row of the tables changes but the
\* time of the verification.
NothingLinked(h) ==
    /\ handler[h].at = "linking"
    /\ cookie' = [cookie EXCEPT ![handler[h].browser] = None]
    /\ Finish(h)
    /\ UNCHANGED <<states, links, pages, verified>>

\* A binding cookie lives for five minutes.
CookieExpires(b) ==
    /\ cookie[b] # None
    /\ cookie' = [cookie EXCEPT ![b] = None]
    /\ UNCHANGED <<states, links, pages, handler, verified>>

\* The process restarts: the callbacks are gone and so are their answers.
Crash ==
    /\ \E h \in Handlers : handler[h] # Idle
    /\ handler' = [h \in Handlers |-> Idle]
    /\ UNCHANGED <<states, links, pages, cookie, verified>>

Next ==
    \/ \E f \in Flows : CreateState(f) \/ Expire(f)
    \/ \E b \in Browsers, f \in Flows : Start(b, f) \/ GithubRefused(b, f)
    \/ \E h \in Handlers, b \in Browsers :
          \/ \E page \in pages, u \in Users : SlackCallback(h, b, page, u)
          \/ \E f \in Flows : ConsumeVerifiedState(h, b, f)
    \/ \E h \in Handlers :
          \/ CompleteSlackVerification(h) \/ SlackRefused(h)
          \/ \E a \in Accounts : CreateLink(h, a)
          \/ NothingLinked(h)
    \/ \E b \in Browsers : CookieExpires(b)
    \/ Crash

Spec == Init /\ [][Next]_vars

-----------------------------------------------------------------------------
(* Properties *)

\* Tables, cookies and callbacks have their types, and a row is in one state:
\* a nonce waits for Slack, a token for GitHub.
OAuthTypeOK ==
    /\ states \in [Flows -> DbOAuthState]
    /\ \A f \in Flows :
          /\ states[f].oidc_nonce # None => ~states[f].slack_verified
          /\ states[f].binding_token # None => states[f].slack_verified /\ ~states[f].used
          /\ states[f].used => states[f].slack_verified
    /\ links \subseteq DbIdentityLink
    /\ pages \subseteq Pages
    /\ cookie \in [Browsers -> Flows \cup {None}]
    /\ handler \in [Handlers -> Handler]
    /\ verified \subseteq Verifications
    /\ \A h \in Handlers : handler[h].at # "idle" =>
          handler[h].flow \in Flows /\ handler[h].browser \in Browsers

\* The two callbacks of a link came from one browser: the one that finished at
\* GitHub had brought a code of the Slack user the link is for, for the same
\* flow, whatever links, pages and tabs were opened where and whatever cookie
\* was set or lost in between (github-oauth-routes.ts:209-268, 304-365).
LinkFromVerifiedBrowser ==
    \A l \in links : [flow |-> l.flow, browser |-> l.browser, user |-> l.user] \in verified

\* A flow is spent before GitHub is asked: of the callbacks of a flow, in two
\* tabs or with the back button, only one ever asks (github-oauth-routes.ts:
\* 351-372).
AskedOnce ==
    /\ \A h \in Handlers : handler[h].at = "linking" =>
          \A l \in links : l.flow # handler[h].flow
    /\ \A g, h \in Handlers :
          /\ handler[g].at = "linking" /\ handler[h].at = "linking"
          /\ handler[g].flow = handler[h].flow
          => g = h

\* The states of the comment in oauth-state-repository.ts, read off the row.
PhaseOf(f) ==
    LET row == states[f]
    IN  IF \E l \in links : l.flow = f THEN "linked"
        ELSE IF row.used THEN "consumed"
        ELSE IF row.slack_verified THEN "slack_verified"
        ELSE IF row.oidc_nonce # None THEN "oidc_pending"
        ELSE IF row.created THEN "unstarted" ELSE "none"

Promise == INSTANCE AccountLink WITH
    phase <- [f \in Flows |-> PhaseOf(f)],
    linked <- {[user |-> l.user, account |-> l.account] : l \in links}

\* The compare-and-sets and the checks before the insert implement the
\* one-way state machine and the one-to-one links of AccountLink.
FlowsMoveForward == Promise!Spec
=============================================================================
