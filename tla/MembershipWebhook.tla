-------------------------- MODULE MembershipWebhook --------------------------
(***************************************************************************)
(* WebhookService.handleMembershipEvent.  GitHub announces every change of *)
(* the membership, whoever made it.  A delivery is late by any time,       *)
(* overtakes others, is handled again when it is reprocessed, and may      *)
(* never be handled: see WebhookDelivery.                                  *)
(***************************************************************************)
EXTENDS GrantStore

VARIABLES
    events,  \* deliveries to handle: "removed", or "changed" (added, edited)
    hook     \* the locals of the handler

HookState == [pc : {"idle", "read"}, action : {"removed", "changed"}, seen : Roles]

IdleHook == [pc |-> "idle", action |-> "changed", seen |-> "none"]

HookTypeOK == events \in SUBSET {"removed", "changed"} /\ hook \in HookState
HookInit == events = {} /\ hook = IdleHook

\* GitHub announces the change from role to role'.
Announce ==
    events' = IF role' = role \/ ~Admitted("webhook") THEN events
              ELSE events \cup {IF role' = "none" THEN "removed" ELSE "changed"}

ReadLiveRole(e) ==
    /\ hook.pc = "idle"
    /\ e \in events
    /\ events' \in {events, events \ {e}}
    /\ hook' = [pc |-> "read", action |-> e, seen |-> role]
    /\ UNCHANGED storeVars

\* What the handler makes of the one active grant of the key.
Drifted(row) ==
    CASE hook.action = "removed" /\ hook.seen = "none" ->
            UpdateRevocationStatusRevoked(row)
      [] hook.action = "changed" /\ hook.seen = "maintainer"
            /\ row.preexisting_role # "maintainer" ->
            UpdateGrantStatus(UpdateGrantStatusAndMembership(row, "active", 1, NULL),
                              "active", "elevated")
      [] hook.action = "changed" /\ hook.seen = "member" /\ row.elevated ->
            [UpdateGrantStatusAndMembership(row, "active", 1, NULL)
                EXCEPT !.elevated = FALSE]
      [] OTHER -> row

HandleMembershipEvent ==
    /\ hook.pc = "read"
    /\ grants' = [g \in Grants |-> IF g \in ActiveGrants THEN Drifted(grants[g])
                                   ELSE grants[g]]
    /\ hook' = IdleHook
    /\ UNCHANGED <<clock, requested, jobs, role, origin, faults, events>>
=============================================================================
