SPECIFICATION FairSpec
CONSTANTS
  Handlers = {h1, h2}
  Keys = {k1}
  Subscribers = {m1, m2}
  Shortcodes <- MCShortcodes
  Segments <- MCSegments
  Tenants <- MCTenants
  Config <- MCConfig
  NoSession = NoSession
  NoState = NoState
  NoTenant = NoTenant
  NoRoute = NoRoute
  Orderly = TRUE
  Lossy = TRUE
  Abandons = TRUE
  StoreFaults = TRUE
  Expiry = FALSE
  Crashes = TRUE
  Durable = TRUE
  MaxCallbacks = 5
  MaxDepth = 3
CHECK_DEADLOCK FALSE
INVARIANT MenuIsRemembered
PROPERTY EveryCallbackIsAnswered
