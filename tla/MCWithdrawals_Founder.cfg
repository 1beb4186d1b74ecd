\* Founder decisions only: two customers of two workspaces, two handlers, who
\* race for requests, funds and one globally unique idempotency key.
SPECIFICATION Spec
CONSTANTS
  p1 = p1 p2 = p2 p3 = p3 ann = ann bob = bob w1 = w1 w2 = w2
  Handlers = {p1, p2}
  Users = {ann, bob}
  Workspaces = {w1, w2}
  WorkspaceOf <- TwoWorkspaces
  Keys = {k1, k2}
  Amounts = {2}
  NoRequest = NoRequest
  CancelActors = {}
  InitialFunds <- Funds
INVARIANTS ReservedMatchesOpenRequests ReleasedExactlyWhenClosed
PROPERTIES TransitionsAreLegal CircuitGatesCommits ImplementsBook
SYMMETRY HandlerSymmetry
