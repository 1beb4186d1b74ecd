\* Two rows in one poll, repeating or one-time: the second is decided on after
\* the first has run, and an operator edits both meanwhile.
SPECIFICATION Spec
CONSTANTS
  Schedules = {s1, s2}
  Definitions <- TwoKinds
  None = None
  NoRow = NoRow
  MaxNow = 1
  MaxRuns = 2
  MaxCrashes = 1
SYMMETRY Symmetry
CONSTRAINT OneMishap
INVARIANTS CountsOnlyRuns WithinMaximum AtMostOneStrayRun
PROPERTIES PollRespectsOperators NeverTwiceAtOnce
