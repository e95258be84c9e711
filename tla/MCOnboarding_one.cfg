\* One account: two registrations, a login, two refreshes of a token, two creations of a wallet; one fault.
CONSTANTS
  r1 = r1
  r2 = r2
  l = l
  f1 = f1
  f2 = f2
  w1 = w1
  w2 = w2
  e = e
  p1 = p1
  p2 = p2
  NoCall = NoCall
  NoUser = NoUser
  NoCreate = NoCreate
  Calls = {r1, r2, l, f1, f2}
  Emails = {e}
  Passwords = {p1, p2}
  Op <- MCOp
  Email <- MCEmail
  Password <- MCPassword
  Uses <- MCUses
  After <- MCAfter
  RefreshTTL = 2
  AccessTTL = 1
  MaxTime = 2
  MaxFaults = 1
  Creates = {w1, w2}
  Accounts <- MCAccounts
  Account <- MCAccount
  Bearer <- MCBearer
SPECIFICATION FairSpec
INVARIANTS TypeOK ReplayRefused LiveBounded RefusedForAReason WalletCreatedOnce
PROPERTIES AllAnswered
CHECK_DEADLOCK FALSE
