SPECIFICATION StudioSpec
CONSTANTS
  Slides = {s1, s2}
  Bodies = {a, b}
  Restores = FALSE
  Illustrated = {}
  Jobs = {j1, j2}
  Reviewers = {}
  Generates = {"video"}
  ReviewPass = TRUE
  MaxVersion = 2
  MaxArtifacts = 1
  MaxPersisted = 2
  None = None
  NoJob = NoJob
  NoWork = NoWork
SYMMETRY Symmetric
INVARIANTS DecksAsApproved NumbersInOrder
CHECK_DEADLOCK FALSE
