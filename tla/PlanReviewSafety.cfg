SPECIFICATION PlanSpec
CONSTANTS
  Slides = {s1, s2}
  Bodies = {a, b}
  Clients = {c1, c2}
  ReviewPass = FALSE
  PlanRaces = {}
  Restores = FALSE
  MaxVersion = 3
  MaxReviews = 2
  None = None
  NoRequest = NoRequest
  NoScreen = NoScreen
SYMMETRY Symmetric
INVARIANTS ApprovedAsSeen  SlidesRecorded
PROPERTIES KeepsGate
