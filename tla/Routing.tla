------------------------------ MODULE Routing ------------------------------
(***************************************************************************)
(* The routing table of gateway/internal/tenant/tenant.go: which           *)
(* configurations NewRouter accepts, and which tenant Router.Route picks   *)
(* for the inputs of a dialogue.                                           *)
(*                                                                         *)
(* A configuration is a sequence of tenants in the order of the file, each *)
(* a record [name, shortcode, prefix].  The fields Route never reads       *)
(* (webhook URL, secret, timeout) are left out.                            *)
(***************************************************************************)
EXTENDS Naturals, Sequences, FiniteSets

\* What Route answers when it returns ErrNoRoute.
CONSTANT NoRoute

TenantRecord(names, shortcodes, segments) ==
  [name: names, shortcode: shortcodes, prefix: Seq(segments)]

\* strings.Join(prefix, "*"): not injective on segments that hold a star.
Join(prefix) ==
  LET join[n \in 0 .. Len(prefix)] ==
        IF n = 0 THEN ""
        ELSE IF n = 1 THEN prefix[1]
        ELSE join[n - 1] \o "*" \o prefix[n]
  IN join[Len(prefix)]

(***************************************************************************)
(* NewRouter's three checks over the whole set: unique names, unique       *)
(* routes (a shortcode and a joined prefix), and one tenant with an empty  *)
(* prefix for each shortcode.                                              *)
(***************************************************************************)
UniqueNames(tenants) ==
  \A i, j \in DOMAIN tenants : tenants[i].name = tenants[j].name => i = j

UniqueRoutes(tenants) ==
  \A i, j \in DOMAIN tenants :
     /\ tenants[i].shortcode = tenants[j].shortcode
     /\ Join(tenants[i].prefix) = Join(tenants[j].prefix)
     => i = j

Roots(tenants, shortcode) ==
  {i \in DOMAIN tenants : /\ tenants[i].shortcode = shortcode
                          /\ tenants[i].prefix = <<>>}

OneRootEach(tenants) ==
  \A i \in DOMAIN tenants :
     \E r \in DOMAIN tenants : Roots(tenants, tenants[i].shortcode) = {r}

\* Mutants: the root tenants are not counted; routes are not compared.
NewRouterAcceptsRootless(tenants) ==
  UniqueNames(tenants) /\ UniqueRoutes(tenants)

NewRouterAcceptsCollisions(tenants) ==
  UniqueNames(tenants) /\ OneRootEach(tenants)

NewRouterAccepts(tenants) ==
  UniqueNames(tenants) /\ UniqueRoutes(tenants) /\ OneRootEach(tenants)

\* Mutant: the group is left in file order.
FileOrder(tenants, i, j) == i < j

(***************************************************************************)
(* sort.SliceStable leaves a shortcode's tenants longest prefix first, and *)
(* tenants with prefixes of one length in file order.                      *)
(***************************************************************************)
SortedBefore(tenants, i, j) ==
  \/ Len(tenants[i].prefix) > Len(tenants[j].prefix)
  \/ Len(tenants[i].prefix) = Len(tenants[j].prefix) /\ i < j

\* Mutant: the latest inputs are compared instead of the first.
HasSuffix(path, prefix) ==
  /\ Len(prefix) <= Len(path)
  /\ \A i \in DOMAIN prefix : path[Len(path) - Len(prefix) + i] = prefix[i]

HasPrefix(path, prefix) ==
  /\ Len(prefix) <= Len(path)
  /\ \A i \in DOMAIN prefix : path[i] = prefix[i]

Matching(tenants, shortcode, path) ==
  {i \in DOMAIN tenants : /\ tenants[i].shortcode = shortcode
                          /\ HasPrefix(path, tenants[i].prefix)}

\* The position in the file of the tenant Route's loop stops at.
RouteIndex(tenants, shortcode, path) ==
  LET match == Matching(tenants, shortcode, path)
  IN CHOOSE i \in match :
       \A j \in match \ {i} : SortedBefore(tenants, i, j)

Route(tenants, shortcode, path) ==
  IF Matching(tenants, shortcode, path) = {}
  THEN NoRoute
  ELSE tenants[RouteIndex(tenants, shortcode, path)].name

\* The path the routed tenant is sent: its prefix is stripped.
Stripped(path, prefix) == SubSeq(path, Len(prefix) + 1, Len(path))
=============================================================================
