SPECIFICATION Spec
CONSTANTS
  u1 = u1
  u2 = u2
  u3 = u3
  u4 = u4
  i1 = i1
  i2 = i2
  k1 = k1
  k2 = k2
  k3 = k3
  k4 = k4
  s1 = s1
  s2 = s2
  s3 = s3
  s4 = s4
  m1 = m1
  m2 = m2
  l1 = l1
  l2 = l2
  r1 = r1
  r2 = r2
  None = None
  Gone = Gone
  Users = {u1, u2, u3, u4}
  Invites = {i1, i2}
  Keys = {k1, k2, k3}
  Sessions = {s1, s2, s3, s4}
  Ceremonies = {m1, m2}
  Lines = {l1, l2}
  Requests = {r1, r2}
  Asks <- MCAsks
  First <- MCFirst
  MaxCalls = 4
SYMMETRY Symmetry
INVARIANTS
  TypeOK
  InvitePaysOnce
  RotationIsLinear
  RevokedStaysOut
  AnAdminRemains
