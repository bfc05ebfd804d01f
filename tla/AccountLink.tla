----------------------------- MODULE AccountLink -----------------------------
(***************************************************************************)
(* What connecting a GitHub account promises: a flow goes forward through  *)
(* its states, one at a time, and makes at most one link, between the      *)
(* Slack user it was started for and an account; links are one-to-one.     *)
(* The states are those of the comment in oauth-state-repository.ts.       *)
(***************************************************************************)
CONSTANTS
    Flows,     \* rows of oauth_states
    Users,     \* Slack users
    Accounts,  \* GitHub accounts
    FlowUser   \* the user who was offered the flow

VARIABLES
    phase,     \* phase[f]: none, unstarted, oidc_pending, slack_verified, consumed, linked
    linked     \* the active pairs of a user and an account

vars == <<phase, linked>>

Init ==
    /\ phase = [f \in Flows |-> "none"]
    /\ linked = {}

Step(f, from, to) ==
    /\ phase[f] = from
    /\ phase' = [phase EXCEPT ![f] = to]

\* Neither side of the pair is linked already.
Unlinked(u, a) == \A l \in linked : l.user # u /\ l.account # a

Link(f, a) ==
    /\ Step(f, "consumed", "linked")
    /\ Unlinked(FlowUser[f], a)
    /\ linked' = linked \cup {[user |-> FlowUser[f], account |-> a]}

Next ==
    \E f \in Flows :
        \/ /\ \/ Step(f, "none", "unstarted")
              \/ Step(f, "unstarted", "oidc_pending")
              \/ Step(f, "oidc_pending", "slack_verified")
              \/ Step(f, "slack_verified", "consumed")
           /\ UNCHANGED linked
        \/ \E a \in Accounts : Link(f, a)

Spec == Init /\ [][Next]_vars
=============================================================================
