SPECIFICATION StudioSpec
CONSTANTS
  Slides = {s1}
  Bodies = {a, b}
  Restores = FALSE
  Illustrated = {a}
  Jobs = {j1}
  Reviewers = {r1}
  Generates = {"ppt", "video"}
  ReviewPass = FALSE
  MaxVersion = 2
  MaxArtifacts = 2
  MaxPersisted = 3
  None = None
  NoJob = NoJob
  NoWork = NoWork
SYMMETRY Symmetric
INVARIANTS DecksAsApproved VideosAfterDecks
CHECK_DEADLOCK FALSE
