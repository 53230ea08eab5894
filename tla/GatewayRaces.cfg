SPECIFICATION Spec
CONSTANTS
  Handlers = {h1, h2}
  Keys = {k1}
  Subscribers = {m1, m2}
  Shortcodes <- MCShortcodes
  Segments <- MCSegments
  Tenants <- MCTenants
  Config <- MCConfig
  NoSession = NoSession
  NoState = NoState
  NoTenant = NoTenant
  NoRoute = NoRoute
  Orderly = FALSE
  Lossy = TRUE
  Abandons = TRUE
  StoreFaults = TRUE
  Expiry = TRUE
  Crashes = TRUE
  Durable = FALSE
  MaxCallbacks = 4
  MaxDepth = 2
CHECK_DEADLOCK FALSE
SYMMETRY Symmetry
INVARIANTS TypeOK Ownership StateStaysWithItsTenant StateIsFromAnEarlierTurn
