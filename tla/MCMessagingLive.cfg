SPECIFICATION FairSpec
CONSTANTS
  Users = {u1}
  Nobody = Nobody
  Channels = {g, c1}
  Messages = {m1}
  General = g
  Names = {t1}
  Bodies = {b1}
  DefaultName = t1
  Requests = {r1, r2}
  Null = Null
  Unborn = Unborn
  Gone = Gone
  QueueBound = 2
  DbErrors = FALSE
  BrokerStops = FALSE
  Crashes = FALSE
PROPERTIES
  EveryRequestEnds
  AnnouncedDeletionHappens
