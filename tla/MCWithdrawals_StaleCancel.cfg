\* The cancel route decides on the state it loaded before it locked the row.
SPECIFICATION Spec
CONSTANTS
  p1 = p1 p2 = p2 p3 = p3 ann = ann bob = bob w1 = w1 w2 = w2
  Handlers = {p1, p2}
  Users = {ann}
  Workspaces = {w1}
  WorkspaceOf <- OneUser
  Keys = {k1, k2}
  Amounts = {1}
  NoRequest = NoRequest
  CancelActors = {"customer"}
  InitialFunds <- Funds
PROPERTIES TransitionsAreLegal
SYMMETRY HandlerSymmetry
