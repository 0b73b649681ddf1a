SPECIFICATION Spec
CONSTANTS
  Users = {founder, u1, u2}
  Founder = founder
  Requests = {q1, q2}
  AllowNew = FALSE
SYMMETRY Symmetry
INVARIANTS TypeOK OwnerKeptUnlessOvertaken MembersAsked
PROPERTY OwnersMakeOwners
CHECK_DEADLOCK FALSE
