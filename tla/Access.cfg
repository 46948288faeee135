\* Keys, their rate limit, and accounts, with failing statements and a
\* restart.
CONSTANTS
  c1 = c1
  c2 = c2
  c3 = c3
  c4 = c4
  k1 = k1
  k2 = k2
  k3 = k3
  k4 = k4
  a1 = a1
  x = x
  y = y
  z = z
  Caller <- FourCallers
  Configured <- ThreeKeys
  NewKey <- OneMore
  Ip = {a1}
  Whitelist <- AnyIp
  Expires <- Expiry
  Permissions <- Rights
  Needed = {"read"}
  Limit = 2
  MinuteTicks = 2
  Name = {x, y}
  Email = {y, z}
  Asks <- TwoOrFour
  Faults = {"statement", "reply"}
  MaxTime = 4
  MaxRestarts = 1
SPECIFICATION Spec
SYMMETRY Symmetry
INVARIANTS
  TypeOK
  WindowKept
  RevokedStaysOut
  AnswersMatchRows
  LoginFindsOwner
