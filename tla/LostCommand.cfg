SPECIFICATION Spec
CONSTANTS
  d1 = d1
  d2 = d2
  h1 = h1
  h2 = h2
  Deliveries = {d1}
  NoDelivery = NoDelivery
  Handlers = {h1, h2}
  Events <- WorkEvents
  MaxJobs = 1
  CreatedAt <- Inverted
  MaxRepairs = 0
  MaxCrashes = 0
  MaxFaults = 1
INVARIANTS
  DuplicateHasJob
