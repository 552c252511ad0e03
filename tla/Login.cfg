CONSTANTS
  t1 = t1
  t2 = t2
  b1 = b1
  b2 = b2
  c1 = c1
  Tabs = {t1, t2}
  Accounts = {a1, a2}
  Clients = {c1}
  Browsers = {b1, b2}
  Requests <- MCRequests
  ClientOf <- OneAddress
  BrowserOf <- TwoBrowsers
  Limit = 1
  Window = 2
  MaxFaults = 1
  NoGrant = NoGrant
  Denied = Denied
  NoCookie = NoCookie
  NoUser = NoUser
SPECIFICATION Spec
INVARIANTS TypeOK NeverStuck AtMostTwiceTheLimit StateConsumedOnce SessionsOfTheirAccount
SYMMETRY Symmetry
CHECK_DEADLOCK FALSE
