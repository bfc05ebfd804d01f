SPECIFICATION FairSpec
CONSTANTS
    None = None
    Policies = {p1, p2}
    Teams = {t1}
    People = {u1, u2}
    Durations = {60, 120}
    Modals = {m1, m2}
    Requests = {r1}
    MaxMoves = 1
    MaxFaults = 1
INVARIANTS
    PolicyTypeOK
    OneActivePolicy
    LogTellsVersions
    LogExplainsApprovals
    ChainHolds
PROPERTIES
    DisabledIsFinal
    LostOwnersDisabled
CHECK_DEADLOCK FALSE
