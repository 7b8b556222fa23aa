SPECIFICATION PatientSpec
CONSTANTS
  Clients = {a, b}
  MaxEvents = 3
  BrokerStops = TRUE
INVARIANTS
  TypeOK
  ListedIffRegistered
  RemovedForGood
  CaughtUp
PROPERTIES
  ImplementsStream
  EveryoneIsServed
  TheGoneAreRemoved
CHECK_DEADLOCK FALSE
