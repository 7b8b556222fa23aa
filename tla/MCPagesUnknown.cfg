SPECIFICATION Spec
CONSTANTS
  Users = {u1, u2}
  Sids = {b1}
  Clipped = {b1}
  Tabs = {t1}
  Requests = {r1}
  Null = Null
  Pending = Pending
  Refused = Refused
  Done = Done
SYMMETRY Symmetry
INVARIANTS
  SignedInIsKnown
