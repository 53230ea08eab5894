SPECIFICATION Spec
CONSTANTS
  NoRoute = NoRoute
  Names <- MCNames
  Shortcodes <- MCShortcodes
  ConfigSegments <- MCTyped
  TypedSegments <- MCTyped
  MaxTenants = 3
  MaxPrefix = 2
  MaxDepth = 3
CHECK_DEADLOCK FALSE
INVARIANTS EveryPathIsRouted MostSpecificWins EveryTenantIsReachable
PROPERTY HandoversOnlyDeepen
