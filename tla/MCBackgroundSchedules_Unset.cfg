\* A repeating schedule created without a first run.
SPECIFICATION Spec
CONSTANTS
  Schedules = {s1}
  Definitions <- UnsetOnly
  None = None
  NoRow = NoRow
  MaxNow = 1
  MaxRuns = 3
  MaxCrashes = 0
PROPERTY ListedIsDue
