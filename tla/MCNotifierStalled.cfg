SPECIFICATION FairSpec
CONSTANTS
  Clients = {a, b}
  MaxEvents = 2
  BrokerStops = FALSE
PROPERTIES
  HealthyAreServed
CHECK_DEADLOCK FALSE
