-------------------------- MODULE SharedShortcode --------------------------
(***************************************************************************)
(* Routing over the life of one dialogue on one gateway: NewRouter loads a *)
(* configuration, the subscriber's inputs accumulate in the path, and      *)
(* every turn is routed anew (inbound.go:145-154).                         *)
(***************************************************************************)
EXTENDS Routing, SequencesExt

CONSTANTS
  Names, Shortcodes,
  ConfigSegments,  \* prefix segments an operator writes in the file
  TypedSegments,   \* segments a network delivers
  MaxTenants,      \* bound: tenants in a configuration
  MaxPrefix,       \* bound: segments in a prefix
  MaxDepth         \* bound: inputs in the dialogue

VARIABLES config, shortcode, path

vars == <<config, shortcode, path>>

Records == [name: Names, shortcode: Shortcodes,
            prefix: BoundedSeq(ConfigSegments, MaxPrefix)]

Init ==
  /\ config \in SeqOf(Records, MaxTenants)
  /\ NewRouterAccepts(config)
  /\ shortcode \in {config[i].shortcode : i \in DOMAIN config}
  /\ path = <<>>

Type ==
  /\ Len(path) < MaxDepth
  /\ \E seg \in TypedSegments : path' = Append(path, seg)
  /\ UNCHANGED <<config, shortcode>>

Spec == Init /\ [][Type]_vars

----------------------------------------------------------------------------
(***************************************************************************)
(* On a shortcode the gateway serves every path is answered (RouteIsTotal, *)
(* tenant.go:119-126): no input can leave a dialogue with ErrNoRoute.      *)
(***************************************************************************)
EveryPathIsRouted == Route(config, shortcode, path) # NoRoute

(***************************************************************************)
(* The tenant routed to has strictly the longest of the matching prefixes: *)
(* no other order of the file routes the dialogue elsewhere                *)
(* (tenant.go:113-117; RouteIsLongestMatch).                               *)
(***************************************************************************)
MostSpecificWins ==
  LET i == RouteIndex(config, shortcode, path)
  IN \A j \in Matching(config, shortcode, path) \ {i} :
       Len(config[j].prefix) < Len(config[i].prefix)

(***************************************************************************)
(* As inputs accumulate a dialogue is only ever handed from a menu to a    *)
(* more specific service, never back: a tenant left behind does not see    *)
(* the dialogue again.                                                     *)
(***************************************************************************)
HandoversOnlyDeepen ==
  [][LET before == config[RouteIndex(config, shortcode, path)]
         after == config[RouteIndex(config, shortcode, path')]
     IN before = after \/ IsStrictPrefix(before.prefix, after.prefix)]_vars

(***************************************************************************)
(* Every tenant NewRouter accepts is reached by something a subscriber can *)
(* type: no prefix is shadowed by another (tenant.go:56-57: a              *)
(* misconfiguration surfaces on startup rather than as a dead shortcode),  *)
(* if its segments are ones a network can deliver.                         *)
(***************************************************************************)
EveryTenantIsReachable ==
  \A i \in DOMAIN config :
    \E p \in BoundedSeq(TypedSegments, MaxPrefix) :
      Route(config, config[i].shortcode, p) = config[i].name
=============================================================================
