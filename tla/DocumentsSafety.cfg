SPECIFICATION DocSpec
CONSTANTS
  Docs = {d1}
  Contents = {a, virus}
  Clean = {a}
  Jobs = {j1, j2, j3, j4}
  Offers = {"upload", "version", "template", "design_reference", "analyze", "plan", "delete", "edit"}
  MaxFiles = 3
  None = None
  NoDoc = NoDoc
  NoJob = NoJob
  NoWork = NoWork
SYMMETRY Symmetric
INVARIANTS DocTypeOK OnlyScanned UploadsKept VersionsInOrder DuplicatesInDocument 
CHECK_DEADLOCK FALSE
