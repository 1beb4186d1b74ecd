\* What survives when the cancel route is in use, and that every request that
\* is taken up ends.
SPECIFICATION FairSpec
CONSTANTS
  p1 = p1 p2 = p2 p3 = p3 ann = ann bob = bob w1 = w1 w2 = w2
  Handlers = {p1, p2}
  Users = {ann}
  Workspaces = {w1}
  WorkspaceOf <- OneUser
  Keys = {k1, k2}
  Amounts = {2}
  NoRequest = NoRequest
  CancelActors = {"customer"}
  InitialFunds <- Funds
INVARIANTS SafetyInv
PROPERTIES HandlersFinish
