----------------------------- MODULE MCScreens -----------------------------
(***************************************************************************)
(* One rune of each kind, capacities in the proportions of the code's:     *)
(* texts that start short, near a full screen of UCS-2 and near one of     *)
(* GSM 03.38, and menus of up to three items.                              *)
(***************************************************************************)
EXTENDS Screens

MCBasic == {"a", "P", "T", "B", "0", "1", "2", "3", ".", " ", "\n"}
MCExtended == {"^"}
MCAstral == {"globe"}
MCSpaces == {" ", "\n", "nbsp"}
MCBreaks == {" ", "\n"}
MCTransliterations ==
  [r \in {"quote", "nbsp"} |-> IF r = "quote" THEN <<"a">> ELSE <<" ">>]

Words(n) == [i \in 1 .. n |-> IF i % 5 = 0 THEN " " ELSE "a"]
MCStarts == {<<>>, Words(7), Words(16)}

\* For screens, for pages, and for labels.
MCMaxRunes ==
  [a \in {{"a", " ", "^", "globe"}, {"a", " ", "\n", "globe"},
          {"a", " ", "nbsp", "\n", "globe", "quote", "^"}} |->
     IF "nbsp" \in a THEN 4 ELSE 7]
MCMixes == DOMAIN MCMaxRunes

MCLabelRunes == {"a", "\n", "^", "globe"}
MCFallback == <<"P">>
MCKeys == <<"1", "2", "3">>
MCTitle == <<"T">>
MCFooter == <<[key |-> <<"0">>, label |-> <<"B">>]>>
=============================================================================
