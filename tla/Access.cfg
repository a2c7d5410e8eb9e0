SPECIFICATION Spec
CONSTANTS
  Requests = {r1, r2, r3}
  Emails = {e1, e2}
  Passwords = {p1, p2}
  Codes = {c1, c2}
  Names = {budi}
  DbFails = TRUE
  None = None
SYMMETRY Symmetry
INVARIANTS
  KeysAreOne
  SameSiswaAgain
  PagesAreOpen
PROPERTY PasswordStays
\* Requests are bounded.
CHECK_DEADLOCK FALSE
