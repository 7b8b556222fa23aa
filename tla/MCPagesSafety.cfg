SPECIFICATION Spec
CONSTANTS
  Users = {u1, u2}
  Sids = {s1, s2}
  Clipped = {}
  Tabs = {t1, t2}
  Requests = {r1, r2}
  Null = Null
  Pending = Pending
  Refused = Refused
  Done = Done
SYMMETRY Symmetry
INVARIANTS
  TypeOK
  ActsAsShown
