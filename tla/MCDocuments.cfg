SPECIFICATION Spec
CONSTANTS
  User = {u1, u2}
  Request = {r1, r2, r3}
  NoOne = NoOne
  MaxLinks = 2
SYMMETRY Symmetry
CONSTRAINT FewLinks
INVARIANTS TypeOK OwnerHolds RolesWereShared
PROPERTIES OwnersStay ChangedByRole
CHECK_DEADLOCK FALSE
