SPECIFICATION Spec
CONSTANTS
  User = {u1, u2}
  Request = {r1, r2}
  NoOne = NoOne
  MaxLinks = 2
CONSTRAINT FewLinks
INVARIANT OwnersHoldTheirRole
CHECK_DEADLOCK FALSE
