SPECIFICATION FormsSpec
CONSTANTS
  Users = {u1, u2}
  Nobody = Nobody
  Channels = {g, c1}
  Messages = {m1}
  General = g
  Names = {t1, t2}
  Bodies = {b1}
  DefaultName = t1
  Requests = {r1}
  Null = Null
  Unborn = Unborn
  Gone = Gone
  QueueBound = 1
  DbErrors = FALSE
  BrokerStops = FALSE
  Crashes = FALSE
  Viewer = u1
  Typed = {t1, t2}
  MaxTimers = 2
SYMMETRY Symmetry
INVARIANTS
  FormsTypeOK
PROPERTIES
  CreatedAsPressed
  EditsKeepTheName
  ActsOnWhatWasShown
