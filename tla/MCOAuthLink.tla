---------------------------- MODULE MCOAuthLink ----------------------------
(***************************************************************************)
(* The finite instance of OAuthLink that TLC checks.                       *)
(***************************************************************************)
EXTENDS OAuthLink, TLC

CONSTANTS f1, f2, f3, ann, bob

\* Ann runs the command twice, Bob once.
MCFlowUser == (f1 :> ann) @@ (f2 :> ann) @@ (f3 :> bob)

\* Nothing tells browsers, accounts, callbacks or Ann's flows apart.
MCSymmetry ==
    Permutations(Browsers) \cup Permutations(Accounts) \cup Permutations(Handlers)
    \cup Permutations({f1, f2})
=============================================================================
