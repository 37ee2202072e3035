SPECIFICATION Spec
CONSTANTS
  d1 = d1
  d2 = d2
  h1 = h1
  h2 = h2
  Deliveries = {d1, d2}
  NoDelivery = NoDelivery
  Handlers = {h1, h2}
  Events <- AllEvents
  MaxJobs = 2
  CreatedAt <- Inverted
  MaxRepairs = 1
  MaxCrashes = 1
  MaxFaults = 1
SYMMETRY Symmetry
INVARIANTS
  TypeOK
  IInv
  OneJobPerDelivery
  AtMostOneExecution
  PullRequestsAreAuthorized
  AcknowledgedJobExists
  LeaseIsAudited
  OrphansAreAccountedFor
PROPERTIES
  LifecycleSpec
