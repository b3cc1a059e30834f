CONSTANTS
  Requests = {q1, q2}
  OAuthClients = {"c1"}
  Tenants = {"", "t1"}
  OAuthScopes = {"r", "w"}
  AuthCodes = {x1, x2}
  GrantRequests = {q1, q2}
  MaxConsents = 2
  IncludeGranted = TRUE
  People = {"ann", "bob"}
  ProviderAccounts <- KnownProviderAccounts
  Locals <- KnownLocals
  PasswordHolders = {"bob"}
  OAuthStates = {s1, s2, s3}
  Callbacks = {q1, q2}
  Connections = {"corp", "evil"}
  OidcConnections = {"evil"}
  Advertises = {"evil"}
  Domains <- OwnDomains
  Subjects = {"s"}
  Members <- KnownMembers
  SsoEmails <- AssertedEmails
  Browsers = {"b", "x"}
  SsoStates = {s1, s2}
  SsoRequests = {q1, q2}
  ScimUsers = {"u", "v"}
  UserNames = {"a", "b"}
  ScimRequests = {q1, q2}
  PatchBodies <- SentBodies
SPECIFICATION Spec
INVARIANTS
  GrantsNeedTheUser
  ProviderSignInIsSafe
  TenantsEnterTheirOwn
  DirectoryIsFollowed
SYMMETRY Sym
CHECK_DEADLOCK FALSE
