CONSTANTS
  Installations = {1, 2}
  NoInstallation = 0
  Named = {1}
  Callers = {c1, c2}
  NoCaller = none
  ReadAttempts = 2
  TokenLife = 2
  RefreshMargin = 1
  MaxTokens = 2
  LastMoment = 1
  Traces = {t1, t2}
  TracedRequests = {c1, c2}
  SpansPerRequest = 2
  MaxErrors = 1
  MaxLate = 1
  MaxSpansPerTrace = 2
  MaxBufferedTraces = 1
  Commands = {c1, c2}
  ConfigKeys = {"k1", "k2"}
  ConfigValues = {1, 2}
  Changes <- SetOrUnset
  Absent = 0
  Retries = 1
  Terminals = {c1, c2}
  MaxLines = 1
  PageLines = 1
  DrainEmptyPages = 2
  ConfirmAttempts = 2
SPECIFICATION Spec
INVARIANTS
  TokensAreShared
  SamplingIsWhole
  ToolsDoWhatTheyShow
SYMMETRY Sym
CHECK_DEADLOCK FALSE
