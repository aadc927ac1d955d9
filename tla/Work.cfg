SPECIFICATION WorkSpec
CONSTANTS
  None = None
  Sources <- SomeSources
  ChunkTokens = 3
  MaxSelected = 3
  MaxBullets = 2
  MinSentence = 2
  KeySize = 2
  BulletSize = 3
  CoverSize = 2
  TitleSize = 2
  MaxHeading = 3
  Documents <- SomeDocuments
  Edits <- SomeSlides
  Arrangements = {"columns", "list"}
  Boxes <- SomeBoxes
  Nil = Nil
  Files <- SomeFiles
  ControlUnits = 3
  Escape = 4
  MaxBytes = 9
  MaxCells = 2
  MaxRecords = 2
  Nothing = Nothing
  Kinds = {"llm", "comfy", "render", "parse"}
  MaxCalls = 2
  Retries = 1
  MaxPolls = 2
INVARIANTS ChunksCover DraftGrounded NothingDiscarded ReadAsWritten
PROPERTIES CallsEnd
CHECK_DEADLOCK FALSE
