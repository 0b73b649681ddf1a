--------------------------- MODULE MCOrgMembership ---------------------------
(* OrgMembership for TLC: requests are interchangeable, and so are the users
   who did not found the organization. *)
EXTENDS OrgMembership, TLC

Symmetry == Permutations(Requests) \cup Permutations(Users \ {Founder})
=============================================================================
