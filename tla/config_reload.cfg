SPECIFICATION Spec
CONSTANTS
  good1 = good1
  good2 = good2
  bad = bad
  empty = empty
  cut = cut
  Absent = Absent
  Content <- AllContent
  Fragment <- Torn
  Valid <- ValidContent
  SaveStyle = {"in_place", "replace", "move_aside"}
  EarlyEdits = TRUE
  MaxSaves = 3
  MaxErrors = 2
INVARIANTS
  ActiveIsValid
PROPERTIES
  ReportedIsApplied
  RestsInForce
