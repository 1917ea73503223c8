SPECIFICATION FairSpec
CONSTANTS
  t1 = t1
  t2 = t2
  u1 = u1
  u2 = u2
  k1 = k1
  k2 = k2
  k3 = k3
  NoToken = NoToken
  NoUser = NoUser
  Tab <- OneTab
  User <- TwoUsers
  Token <- ThreeTokens
  Owner <- FirstTokenIsU1
  MaxLoads = 2
PROPERTY NoTabHangs
CHECK_DEADLOCK FALSE
