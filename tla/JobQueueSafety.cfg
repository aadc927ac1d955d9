SPECIFICATION Spec
CONSTANTS
  Jobs = {1}
  Workers <- Twins
  Queue <- DocumentQueue
  Clients = {c1, c2}
  Kind <- References
  MaxRetries = 1
  ReviewPass = FALSE
  Races = {}
  Faults = {"crash", "db", "redis"}
  MaxFaults = 1
  Nobody = Nobody
  NoJob = NoJob
  NoRow = NoRow
  NoRequest = NoRequest
SYMMETRY SymmetricClients
INVARIANTS MutualExclusion Ownership Leased Checkpoints SessionFresh
PROPERTIES CheckpointsKept ImplementsLifecycle
