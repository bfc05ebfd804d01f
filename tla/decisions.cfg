SPECIFICATION Spec
CONSTANTS
  NULL = NULL
  Approvers = {a1, a2}
  Clicks = {c1, c2}
SYMMETRY RequestSymmetry
INVARIANTS
  DecisionsAgree
  DecisionUnderAuthority
  CardShowsDecision
PROPERTY DecidedOnce
