SPECIFICATION Spec
CONSTANTS
  t1 = t1
  t2 = t2
  u1 = u1
  u2 = u2
  k1 = k1
  k2 = k2
  k3 = k3
  NoToken = NoToken
  NoUser = NoUser
  Tab <- TwoTabs
  User <- TwoUsers
  Token <- TwoTokens
  Owner <- FirstTokenIsU1
  MaxLoads = 1
SYMMETRY AllAlike
INVARIANTS TypeOK ClearedStaysCleared LogoutSticks IdentityBacked
CHECK_DEADLOCK FALSE
