SPECIFICATION Spec
CONSTANTS
  p1 = p1
  p2 = p2
  i1 = i1
  i2 = i2
  ali = ali
  sara = sara
  AliTyped = AliTyped
  SaraTyped = SaraTyped
  good = good
  short = short
  NoId = NoId
  NoName = NoName
  NoRole = NoRole
  NoPermission = NoPermission
  Proc <- TwoProcs
  Id <- TwoIds
  Username <- TwoNames
  Typed <- TwoTyped
  Canonical <- CanonicalOf
  Password <- Passwords
  Short <- Shorts
  Offered <- OfferedFew
  Asked <- AskedFew
  MaxStarts = 4
SYMMETRY Alike
INVARIANTS TypeOK HoldersKnown GrantsMatchCommands PasswordSticks ServedRightly
CHECK_DEADLOCK FALSE
