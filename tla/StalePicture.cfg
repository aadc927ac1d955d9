SPECIFICATION StudioSpec
CONSTANTS
  Slides = {s1}
  Bodies = {a, b}
  Restores = FALSE
  Illustrated = {a}
  Jobs = {j1}
  Reviewers = {r1}
  Generates = {"ppt"}
  ReviewPass = FALSE
  MaxVersion = 2
  MaxArtifacts = 1
  MaxPersisted = 2
  None = None
  NoJob = NoJob
  NoWork = NoWork
SYMMETRY Symmetric
INVARIANTS PicturesMatch
CHECK_DEADLOCK FALSE
