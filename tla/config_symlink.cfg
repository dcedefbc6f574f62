SPECIFICATION Spec
CONSTANTS
  good1 = good1
  good2 = good2
  bad = bad
  empty = empty
  cut = cut
  Absent = Absent
  Content <- AllContent
  Fragment <- Torn
  Valid <- ValidContent
  SaveStyle = {"replace"}
  EarlyEdits = FALSE
  MaxSaves = 1
  MaxErrors = 0
PROPERTIES
  SavedIsApplied
