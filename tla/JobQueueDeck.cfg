SPECIFICATION LiveSpec
CONSTANTS
  Jobs = {1}
  Workers <- PptWorkers
  Queue <- OwnQueue
  Clients = {c1}
  Kind <- Decks
  MaxRetries = 1
  ReviewPass = FALSE
  Races = {}
  Faults = {"crash", "redis"}
  MaxFaults = 2
  Nobody = Nobody
  NoJob = NoJob
  NoRow = NoRow
  NoRequest = NoRequest
INVARIANTS RightQueue
PROPERTIES Settles LostJobsRecovered CancelTakesEffect
