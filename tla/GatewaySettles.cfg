SPECIFICATION FairSpec
CONSTANTS
  d1 = d1
  d2 = d2
  h1 = h1
  h2 = h2
  Deliveries = {d1, d2}
  NoDelivery = NoDelivery
  Handlers = {h1}
  Events <- SomeEvents
  MaxJobs = 2
  CreatedAt <- Inverted
  MaxRepairs = 1
  MaxCrashes = 1
  MaxFaults = 1
PROPERTIES
  QueuedJobSettles
