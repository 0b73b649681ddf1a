SPECIFICATION Spec
CONSTANTS
  Users = {founder, u1}
  Founder = founder
  Requests = {q1, q2}
  AllowNew = FALSE
SYMMETRY Symmetry
INVARIANT HasOwner
CHECK_DEADLOCK FALSE
