CONSTANTS
  MfaRequests = {q1, q2}
  Tickets = {t1}
  MaxSeed = 2
  MaxSet = 2
  CodesPerSet = 1
  MaxStep = 2
  Window = 0
  PasskeyUsers = {"u1", "u2"}
  PasswordUsers = {"u2"}
  Credentials = {k1, k2}
  Challenges = {w1, w2, w3}
  Ceremonies = {y1, y2}
  MaxCount = 1
  HandoffApps = {"app", "other"}
  AllowedSchemes = {"app"}
  HandoffCodes = {d1, d2}
  MaxHandoffTime = 3
  CodeTtl = 1
SPECIFICATION Spec
INVARIANTS
  FactorsProveOnce
  PasskeysAnswerForThemselves
  DesktopsCarryTheBrowser
SYMMETRY Sym
CHECK_DEADLOCK FALSE
