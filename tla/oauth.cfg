SPECIFICATION Spec
CONSTANTS
  f1 = f1
  f2 = f2
  f3 = f3
  ann = ann
  bob = bob
  None = None
  Flows = {f1, f2, f3}
  Users = {ann, bob}
  Accounts = {g1, g2}
  Browsers = {b1, b2}
  Handlers = {h1, h2}
  FlowUser <- MCFlowUser
SYMMETRY MCSymmetry
INVARIANTS
  LinkFromVerifiedBrowser
  AskedOnce
PROPERTIES
  FlowsMoveForward
CHECK_DEADLOCK FALSE
