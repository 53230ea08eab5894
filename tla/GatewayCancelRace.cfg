SPECIFICATION Spec
CONSTANTS
  Handlers = {h1, h2}
  Keys = {k1}
  Subscribers = {m1}
  Shortcodes <- OneShortcode
  Segments <- MCSegments
  Tenants <- MCTenants
  Config <- MCConfig
  NoSession = NoSession
  NoState = NoState
  NoTenant = NoTenant
  NoRoute = NoRoute
  Orderly = FALSE
  Lossy = FALSE
  Abandons = TRUE
  StoreFaults = FALSE
  Expiry = FALSE
  Crashes = FALSE
  Durable = TRUE
  MaxCallbacks = 3
  MaxDepth = 2
CHECK_DEADLOCK FALSE
INVARIANT AbandonedLeavesNothing
