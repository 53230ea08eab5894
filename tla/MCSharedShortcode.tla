------------------------- MODULE MCSharedShortcode -------------------------
(***************************************************************************)
(* Every configuration of up to three tenants on two shortcodes with       *)
(* prefixes of up to two segments.                                         *)
(***************************************************************************)
EXTENDS SharedShortcode

MCNames == {"a", "b", "c"}
MCShortcodes == {"x", "y"}
MCTyped == {"1", "2"}
=============================================================================
