SPECIFICATION Spec
CONSTANTS
  Handlers = {h1, h2}
  Keys = {k1}
  Subscribers = {m1, m2}
  Shortcodes <- OneShortcode
  Segments <- MCSegments
  Tenants <- MCTenants
  Config <- MCConfig
  NoSession = NoSession
  NoState = NoState
  NoTenant = NoTenant
  NoRoute = NoRoute
  Orderly = TRUE
  Lossy = TRUE
  Abandons = TRUE
  StoreFaults = FALSE
  Expiry = TRUE
  Crashes = TRUE
  Durable = FALSE
  MaxCallbacks = 5
  MaxDepth = 3
CHECK_DEADLOCK FALSE
INVARIANT OverLeavesNothing
PROPERTY TurnsAreAtomic
