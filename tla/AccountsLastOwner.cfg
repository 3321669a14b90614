\* Each of two owners deactivates the other.
SPECIFICATION Spec
CONSTANTS
  ann = ann
  ben = ben
  cleo = cleo
  i1 = i1
  i2 = i2
  q1 = q1
  q2 = q2
  Emails = {ann, ben, cleo}
  Founders = {ann, ben}
  Invites = {i1, i2}
  Requests = {q1, q2}
  NoEmail = NoEmail
  NoUser = NoUser
  NoInvite = NoInvite
INVARIANTS OwnerRemains
SYMMETRY Symmetry
