----------------------- MODULE SharedShortcodeProofs -----------------------
(***************************************************************************)
(* Routing, and a dialogue on a shared shortcode, for every configuration  *)
(* NewRouter accepts, of any size, and every sequence of inputs.           *)
(***************************************************************************)
EXTENDS SharedShortcode, WellFoundedInduction, TLAPS

----------------------------------------------------------------------------
(* Routing, for every configuration of any size and every path *)

\* The fields of a configured tenant have their types.
LEMMA TenantFields ==
  ASSUME NEW names, NEW shortcodes, NEW segments,
         NEW tenants \in Seq(TenantRecord(names, shortcodes, segments)),
         NEW i \in DOMAIN tenants
  PROVE  /\ i \in Nat
         /\ tenants[i].name \in names
         /\ tenants[i].prefix \in Seq(segments)
         /\ Len(tenants[i].prefix) \in Nat
<1>1. i \in Nat /\ tenants[i] \in TenantRecord(names, shortcodes, segments)
  OBVIOUS
<1>2. /\ tenants[i].name \in names
      /\ tenants[i].prefix \in Seq(segments)
  BY <1>1 DEF TenantRecord
<1> QED
  BY <1>1, <1>2

\* Among the tenants that match, the stable sort puts one before all others:
\* all it needs to know of a tenant is a prefix.
LEMMA FirstMatchExists ==
  ASSUME NEW segments, NEW tenants, DOMAIN tenants \subseteq Nat,
         \A t \in DOMAIN tenants : tenants[t].prefix \in Seq(segments),
         NEW sc, NEW typed \in Seq(segments),
         Matching(tenants, sc, typed) # {}
  PROVE  \E i \in Matching(tenants, sc, typed) :
           \A j \in Matching(tenants, sc, typed) \ {i} :
             SortedBefore(tenants, i, j)
<1> DEFINE match == Matching(tenants, sc, typed)
           rank(i) == <<Len(typed) - Len(tenants[i].prefix), i>>
           less == OpToRel(<, Nat)
           order == LexPairOrdering(less, less, Nat, Nat)
<1>1. ASSUME NEW i \in match
      PROVE  /\ i \in Nat
             /\ Len(tenants[i].prefix) \in Nat
             /\ Len(typed) - Len(tenants[i].prefix) \in Nat
  BY DEF Matching, HasPrefix
<1>2. \A m, n \in Nat : m < n => <<m, n>> \in less
  BY DEF OpToRel
<1>3. IsWellFoundedOn(order, Nat \X Nat)
  BY NatLessThanWellFounded, WFLexPairOrdering, Zenon
<1>4. {rank(i) : i \in match} \subseteq Nat \X Nat /\ {rank(i) : i \in match} # {}
  <2>1. \A i \in match : rank(i) \in Nat \X Nat
    BY <1>1
  <2> QED
    BY <2>1, Zenon
<1> HIDE DEF less, order, match
<1>5. PICK i \in match : \A j \in match : <<rank(j), rank(i)>> \notin order
  <2>1. PICK x \in {rank(i) : i \in match} :
               \A y \in {rank(i) : i \in match} : <<y, x>> \notin order
    BY <1>3, <1>4, WFMin, Zenon
  <2> QED
    BY <2>1, Zenon
<1>6. ASSUME NEW j \in match \ {i} PROVE SortedBefore(tenants, i, j)
  <2> DEFINE pi == Len(tenants[i].prefix)
             pj == Len(tenants[j].prefix)
  <2>1. /\ i \in Nat /\ pi \in Nat /\ Len(typed) - pi \in Nat
        /\ j \in Nat /\ pj \in Nat /\ Len(typed) - pj \in Nat /\ Len(typed) \in Nat
    BY <1>1
  <2>2. /\ <<Len(typed) - pj, Len(typed) - pi>> \notin less
        /\ Len(typed) - pj = Len(typed) - pi => <<j, i>> \notin less
    BY <1>5, <2>1 DEF order, LexPairOrdering
  <2>3. ~(Len(typed) - pj < Len(typed) - pi) /\ (pj = pi => ~(j < i))
    BY <1>2, <2>1, <2>2
  <2>4. pi > pj \/ (pi = pj /\ i < j)
    <3> HIDE DEF pi, pj
    <3> QED
      BY <2>1, <2>3
  <2> QED
    BY <2>4 DEF SortedBefore
<1> QED
  BY <1>5, <1>6 DEF match

\* What the loop of Route stops at matches, and precedes every other match.
LEMMA RouteIndexMatches ==
  ASSUME NEW names, NEW shortcodes, NEW segments,
         NEW tenants \in Seq(TenantRecord(names, shortcodes, segments)),
         NEW sc, NEW typed \in Seq(segments),
         Matching(tenants, sc, typed) # {}
  PROVE  LET i == RouteIndex(tenants, sc, typed)
         IN  /\ i \in Matching(tenants, sc, typed)
             /\ \A j \in Matching(tenants, sc, typed) \ {i} :
                  SortedBefore(tenants, i, j)
<1>1. DOMAIN tenants \subseteq Nat /\ \A t \in DOMAIN tenants : tenants[t].prefix \in Seq(segments)
  BY TenantFields
<1> QED
  BY <1>1, FirstMatchExists, Zenon DEF RouteIndex

(***************************************************************************)
(* Route answers with a configured tenant, or with NoRoute.                *)
(***************************************************************************)
THEOREM RouteType ==
  ASSUME NEW names, NEW shortcodes, NEW segments,
         NEW tenants \in Seq(TenantRecord(names, shortcodes, segments)),
         NEW sc, NEW typed \in Seq(segments)
  PROVE  Route(tenants, sc, typed) \in names \cup {NoRoute}
<1>1. CASE Matching(tenants, sc, typed) = {}
  BY <1>1 DEF Route
<1>2. CASE Matching(tenants, sc, typed) # {}
  <2>1. RouteIndex(tenants, sc, typed) \in DOMAIN tenants
    BY <1>2, RouteIndexMatches DEF Matching
  <2> QED
    BY <1>2, <2>1, TenantFields DEF Route
<1> QED
  BY <1>1, <1>2

(***************************************************************************)
(* Every shortcode in an accepted configuration answers every path: the    *)
(* root tenant NewRouter insists on catches what no prefix does.           *)
(***************************************************************************)
THEOREM RouteIsTotal ==
  ASSUME NEW names, NEW shortcodes, NEW segments,
         NEW tenants \in Seq(TenantRecord(names, shortcodes, segments)),
         NEW typed \in Seq(segments),
         NoRoute \notin names, NewRouterAccepts(tenants),
         NEW t \in DOMAIN tenants
  PROVE  Route(tenants, tenants[t].shortcode, typed) # NoRoute
<1> DEFINE sc == tenants[t].shortcode
<1>1. PICK r \in DOMAIN tenants : /\ tenants[r].shortcode = sc
                                  /\ tenants[r].prefix = <<>>
  BY DEF NewRouterAccepts, OneRootEach, Roots
<1>2. r \in Matching(tenants, sc, typed)
  BY <1>1 DEF Matching, HasPrefix
<1>3. RouteIndex(tenants, sc, typed) \in DOMAIN tenants
  BY <1>2, RouteIndexMatches DEF Matching
<1>4. tenants[RouteIndex(tenants, sc, typed)].name \in names
  BY <1>3, TenantFields
<1> QED
  BY <1>2, <1>4 DEF Route

(***************************************************************************)
(* The tenant routed to has strictly the longest of the matching prefixes, *)
(* so the order of the tenants in the configuration file never matters.    *)
(***************************************************************************)
THEOREM RouteIsLongestMatch ==
  ASSUME NEW names, NEW shortcodes, NEW segments,
         NEW tenants \in Seq(TenantRecord(names, shortcodes, segments)),
         NEW sc, NEW typed \in Seq(segments),
         NewRouterAccepts(tenants), Matching(tenants, sc, typed) # {}
  PROVE  LET i == RouteIndex(tenants, sc, typed)
         IN  \A j \in Matching(tenants, sc, typed) \ {i} :
               Len(tenants[j].prefix) < Len(tenants[i].prefix)
<1> DEFINE i == RouteIndex(tenants, sc, typed)
           match == Matching(tenants, sc, typed)
<1>1. i \in match /\ \A j \in match \ {i} : SortedBefore(tenants, i, j)
  BY RouteIndexMatches
<1>2. ASSUME NEW j \in match \ {i},
             Len(tenants[j].prefix) = Len(tenants[i].prefix)
      PROVE  FALSE
  <2>0. i \in DOMAIN tenants /\ j \in DOMAIN tenants
    BY <1>1 DEF Matching
  <2>1. /\ tenants[i].prefix \in Seq(segments)
        /\ tenants[j].prefix \in Seq(segments)
    BY <2>0, TenantFields
  <2>2. tenants[i].prefix = tenants[j].prefix
    BY <1>1, <1>2, <2>1 DEF Matching, HasPrefix
  <2> QED
    BY <1>1, <1>2, <2>2 DEF Matching, NewRouterAccepts, UniqueRoutes
<1>3. ASSUME NEW j \in match \ {i}
      PROVE  Len(tenants[j].prefix) < Len(tenants[i].prefix)
  <2>1. Len(tenants[j].prefix) # Len(tenants[i].prefix)
    BY <1>2
  <2> QED
    BY <1>1, <2>1, TenantFields DEF SortedBefore, Matching
<1> QED
  BY <1>3

----------------------------------------------------------------------------
(* Every dialogue *)

Segments == ConfigSegments \cup TypedSegments

Tenants == TenantRecord(Names, Shortcodes, Segments)

\* The dialogue runs on a shortcode of an accepted configuration.
Served ==
  /\ config \in Seq(Tenants)
  /\ \A i \in DOMAIN config : config[i].prefix \in BoundedSeq(ConfigSegments, MaxPrefix)
  /\ NewRouterAccepts(config)
  /\ \E i \in DOMAIN config : config[i].shortcode = shortcode
  /\ path \in Seq(Segments)

LEMMA InitServed == Init => Served
<1> SUFFICES ASSUME Init PROVE Served
  OBVIOUS
<1>1. Records \subseteq Tenants
  BY DEF Records, Tenants, TenantRecord, BoundedSeq, SeqOf, Segments
<1>2. PICK m \in 0 .. MaxTenants : config \in [1 .. m -> Records]
  BY DEF Init, SeqOf
<1>3. config \in Seq(Tenants)
  BY <1>1, <1>2
<1>4. \A i \in DOMAIN config : config[i].prefix \in BoundedSeq(ConfigSegments, MaxPrefix)
  BY <1>2 DEF Records
<1> QED
  BY <1>3, <1>4 DEF Init, Served

LEMMA StepServed == Served /\ [Type]_vars => Served'
BY DEF Served, Type, vars, Segments

LEMMA ServedHolds == Spec => []Served
BY InitServed, StepServed, PTL DEF Spec

LEMMA SomeoneMatches ==
  ASSUME Served
  PROVE  Matching(config, shortcode, path) # {}
<1>1. PICK t \in DOMAIN config : config[t].shortcode = shortcode
  BY DEF Served
<1>2. PICK r \in DOMAIN config : /\ config[r].shortcode = shortcode
                                 /\ config[r].prefix = <<>>
  BY <1>1 DEF Served, NewRouterAccepts, OneRootEach, Roots
<1>3. r \in Matching(config, shortcode, path)
  BY <1>2 DEF Served, Matching, HasPrefix
<1> QED
  BY <1>3

(***************************************************************************)
(* No sequence of inputs leads a dialogue to ErrNoRoute.                   *)
(***************************************************************************)
THEOREM EveryPathIsAnswered ==
  ASSUME NoRoute \notin Names
  PROVE  Spec => []EveryPathIsRouted
<1>1. Served => EveryPathIsRouted
  BY RouteIsTotal DEF Served, EveryPathIsRouted, Tenants
<1> QED
  BY <1>1, ServedHolds, PTL

(***************************************************************************)
(* At every depth of a dialogue the tenant that answers is the one with    *)
(* strictly the longest matching prefix.                                   *)
(***************************************************************************)
THEOREM MostSpecificAnswers == Spec => []MostSpecificWins
<1>1. Served => MostSpecificWins
  BY SomeoneMatches, RouteIsLongestMatch DEF Served, MostSpecificWins, Tenants
<1> QED
  BY <1>1, ServedHolds, PTL

(***************************************************************************)
(* A further input leaves the dialogue with its tenant or takes it to one  *)
(* whose prefix extends that tenant's.                                     *)
(***************************************************************************)
THEOREM NoWayBack == Spec => HandoversOnlyDeepen
<1> DEFINE before == RouteIndex(config, shortcode, path)
           after == RouteIndex(config, shortcode, path')
           Deepens == \/ config[before] = config[after]
                      \/ IsStrictPrefix(config[before].prefix, config[after].prefix)
<1>1. ASSUME Served, Type PROVE Deepens
  <2>1. path' \in Seq(Segments) /\ config' = config /\ shortcode' = shortcode
    BY <1>1 DEF Served, Type, Segments
  <2>2. PICK seg : path' = Append(path, seg)
    BY <1>1 DEF Type
  <2>3. before \in Matching(config, shortcode, path)
    BY <1>1, SomeoneMatches, RouteIndexMatches DEF Served, Tenants
  <2>4. before \in DOMAIN config /\ config[before].prefix \in Seq(Segments)
    BY <1>1, <2>3, TenantFields DEF Matching, Served, Tenants
  <2>5. before \in Matching(config, shortcode, path')
    BY <1>1, <2>2, <2>3, <2>4 DEF Matching, HasPrefix, Served
  <2>6. after \in Matching(config, shortcode, path')
    BY <1>1, <2>1, <2>5, RouteIndexMatches DEF Served, Tenants
  <2>7. CASE before = after
    BY <2>7
  <2>8. CASE before # after
    <3>1. Len(config[before].prefix) < Len(config[after].prefix)
      BY <1>1, <2>1, <2>5, <2>8, RouteIsLongestMatch DEF Served, Tenants
    <3>2. config[after].prefix \in Seq(Segments)
      BY <1>1, <2>6, TenantFields DEF Matching, Served, Tenants
    <3>3. \A i \in DOMAIN config[before].prefix :
            config[before].prefix[i] = config[after].prefix[i]
      BY <2>4, <2>5, <2>6, <3>1, <3>2 DEF Matching, HasPrefix
    <3> QED
      BY <2>4, <3>1, <3>2, <3>3 DEF IsStrictPrefix, IsPrefix
  <2> QED
    BY <2>7, <2>8
<1>2. ASSUME UNCHANGED vars PROVE Deepens
  BY <1>2 DEF vars
<1> QED
  BY <1>1, <1>2, ServedHolds, PTL DEF Spec, HandoversOnlyDeepen

(***************************************************************************)
(* No tenant of an accepted configuration is shadowed: typing its own      *)
(* prefix reaches it, if its segments can be typed.                        *)
(***************************************************************************)
THEOREM NoTenantIsShadowed ==
  ASSUME ConfigSegments \subseteq TypedSegments
  PROVE  Spec => []EveryTenantIsReachable
<1>1. ASSUME Served, NEW i \in DOMAIN config
      PROVE  \E p \in BoundedSeq(TypedSegments, MaxPrefix) :
               Route(config, config[i].shortcode, p) = config[i].name
  <2> DEFINE p == config[i].prefix
             sc == config[i].shortcode
             r == RouteIndex(config, sc, p)
  <2>1. p \in BoundedSeq(TypedSegments, MaxPrefix)
    <3>1. p \in BoundedSeq(ConfigSegments, MaxPrefix)
      BY <1>1 DEF Served
    <3> QED
      BY <3>1 DEF BoundedSeq, SeqOf
  <2>2. p \in Seq(Segments)
    BY <1>1, TenantFields DEF Served, Tenants
  <2>3. i \in Matching(config, sc, p)
    BY <2>2 DEF Matching, HasPrefix
  <2>4. r \in Matching(config, sc, p)
    BY <1>1, <2>2, <2>3, RouteIndexMatches DEF Served, Tenants
  <2>5. r = i
    <3>1. SUFFICES ASSUME r # i PROVE FALSE
      OBVIOUS
    <3>2. Len(p) < Len(config[r].prefix)
      BY <1>1, <2>2, <2>3, <3>1, RouteIsLongestMatch DEF Served, Tenants
    <3>3. Len(config[r].prefix) <= Len(p)
      BY <2>4 DEF Matching, HasPrefix
    <3>4. Len(config[r].prefix) \in Nat
      BY <1>1, <2>4, TenantFields DEF Matching, Served, Tenants
    <3> QED
      BY <2>2, <3>2, <3>3, <3>4
  <2>6. Route(config, sc, p) = config[i].name
    BY <2>3, <2>5 DEF Route
  <2> QED
    BY <2>1, <2>6
<1>2. Served => EveryTenantIsReachable
  BY <1>1 DEF EveryTenantIsReachable
<1> QED
  BY <1>2, ServedHolds, PTL
=============================================================================
