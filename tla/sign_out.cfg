CONSTANTS
  Browsers = {b1}
  Requests = {r1, r2}
  SessionIDs = {s1, s2}
  UserIDs = {admin, u1}
  Admin = admin
  NoUser = NoUser
  NoCookie = NoCookie
  NoRequest = NoRequest
  SignedOut = SignedOut
SPECIFICATION SessionsSpec
INVARIANTS SignedOutStays
SYMMETRY Symmetry
