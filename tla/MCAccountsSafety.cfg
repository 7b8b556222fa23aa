SPECIFICATION Spec
CONSTANTS
  Users = {u1, u2}
  Sids = {s1, s2}
  Emails = {e1, e2}
  UserNames = {w1, w2}
  Names = {w1, w2}
  Empty = Empty
  Doubled = {w2}
  Forms <- MCForms
  e1 = e1
  e2 = e2
  w1 = w1
  w2 = w2
  Requests = {r1, r2}
  Null = Null
  Unborn = Unborn
  Ended = Ended
  Failures = TRUE
SYMMETRY Symmetry
INVARIANTS
  TypeOK
  SessionsKeepTheirOwner
  CurrentNameIsIndexed
PROPERTIES
  ImplementsSessions
  SignUpsRefuseTaken
  EndedUnlessUnderWay
