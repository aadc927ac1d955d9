SPECIFICATION Spec
CONSTANTS
  Jobs = {1}
  Workers <- Twins
  Queue <- DocumentQueue
  Clients = {c1}
  Kind <- Uploads
  MaxRetries = 1
  ReviewPass = FALSE
  Races = {"cancel", "retry", "recover", "claim", "lease"}
  Faults = {"crash", "db", "redis", "late"}
  MaxFaults = 1
  Nobody = Nobody
  NoJob = NoJob
  NoRow = NoRow
  NoRequest = NoRequest
INVARIANTS TypeOK 
PROPERTIES CancelRemembered
