----------------------------- MODULE MCGateway -----------------------------
(***************************************************************************)
(* A small deployment for TLC: a shortcode whose menu hands over to a      *)
(* service when the subscriber types 1, and a shortcode nobody serves.     *)
(***************************************************************************)
EXTENDS Gateway, TLC

MCShortcodes == {"served", "unserved"}
OneShortcode == {"served"}
MCSegments == {"1", "2"}
MCTenants == {"menu", "bank"}
MCConfig == << [name |-> "menu", shortcode |-> "served", prefix |-> <<>>],
               [name |-> "bank", shortcode |-> "served", prefix |-> <<"1">>] >>

Symmetry == Permutations(Handlers) \cup Permutations(Subscribers)
                                   \cup Permutations(Keys)
=============================================================================
