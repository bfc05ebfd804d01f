----------------------- MODULE MCNotificationDelivery -----------------------
(***************************************************************************)
(* The finite instances of NotificationDelivery that TLC checks.           *)
(***************************************************************************)
EXTENDS NotificationDelivery, TLC

CONSTANTS j1, j2

\* Every job has a key of its own.
OwnTopics == (j1 :> "granted") @@ (j2 :> "revoked")

\* One job alone.
OneJob == j1 :> "granted"

\* Two announcements of one grant: request_granted:<grantId>.
OneTopic == (j1 :> "granted") @@ (j2 :> "granted")

\* releaseJobForRetry waits 10 s, 1 min, 5 min, 15 min: in minutes, as the
\* 300 s of StuckAfter and the 60 s of JobLock are.
InMinutes(attempt) == CASE attempt = 1 -> 0 [] attempt = 2 -> 1 [] attempt = 3 -> 5 [] OTHER -> 15

\* The same in units of 150 s: a row that counts as stuck after 300 s has
\* StuckAfter = 1.  60 s are rounded up as JobLock is, 15 min cut to 5.
InUnits(attempt) == CASE attempt = 1 -> 0 [] attempt = 2 -> 1 [] OTHER -> 2
=============================================================================
