\* One account, the owner's browser and another, one administrator.
SPECIFICATION Spec
CONSTANTS
  u1 = u1
  b1 = b1
  b2 = b2
  a1 = a1
  p1 = p1
  p2 = p2
  i1 = i1
  t1 = t1
  t2 = t2
  Users = {u1}
  Browsers = {b1, b2}
  Admins = {a1}
  Passwords = {p1, p2}
  Identities = {i1}
  ProviderOf <- OneProvider
  Tokens = {t1, t2}
  VerifyRequired = TRUE
  MaxCutoff = 2
  None = None
INVARIANTS EndedStaysOut
PROPERTIES NoLateCredential
SYMMETRY Symmetry
CHECK_DEADLOCK FALSE
