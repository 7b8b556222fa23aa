SPECIFICATION ChatSpec
CONSTANTS
  Users = {u1, u2}
  Nobody = Nobody
  Channels = {g, c1}
  Messages = {m1, m2}
  General = g
  Names = {t1, t2}
  Bodies = {b1, b2}
  DefaultName = t1
  Requests = {r1}
  Null = Null
  Unborn = Unborn
  Gone = Gone
  QueueBound = 1
  DbErrors = FALSE
  BrokerStops = FALSE
  Crashes = FALSE
  Viewer = u1
  ChannelLimit = 100
  MessageLimit = 50
  MaxFetches = 1
  Overlaps = FALSE
SYMMETRY Symmetry
INVARIANTS
  ChatTypeOK
  ChannelsConverge
  MessagesConverge
  NoGhosts
