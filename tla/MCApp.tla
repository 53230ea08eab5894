------------------------------- MODULE MCApp -------------------------------
(***************************************************************************)
(* The application of sdk/go/app_test.go for TLC: a menu that counts       *)
(* invalid choices, a name, and a final screen; with a choice of language, *)
(* a transition to a screen that is not declared, and a later version with *)
(* another schema and without the name screen.                             *)
(***************************************************************************)
EXTENDS App

MCNames == {"menu", "name", "done", "nowhere"}
MCLangs == {"en", "sw"}

Goto(name) == [next |-> name, text |-> NoText, end |-> FALSE, lang |-> Same, adds |-> 0]
Stay == [next |-> Same, text |-> Notice, end |-> FALSE, lang |-> Same, adds |-> 1]
Finish(text) == [next |-> Same, text |-> text, end |-> TRUE, lang |-> Same, adds |-> 0]
InSwahili == [next |-> Same, text |-> NoText, end |-> FALSE, lang |-> "sw", adds |-> 0]

MenuExits == {Goto("name"), Goto("nowhere"), Stay, Finish(Notice), InSwahili}

MCFirst ==
  [screens |-> {"menu", "name", "done"}, asks |-> {"menu", "name"},
   start |-> "menu", schema |-> 1,
   exits |-> [s \in {"menu", "name"} |->
                IF s = "menu" THEN MenuExits
                ELSE {Stay, Goto("done"), Finish(NoText)}]]

\* The name screen is gone; the menu ends every dialogue or stays.
MCSecond ==
  [screens |-> {"menu", "done"}, asks |-> {"menu"}, start |-> "menu",
   schema |-> 1, exits |-> [s \in {"menu"} |-> {Stay, Goto("done")}]]

\* As the first, with another schema of its state.
MCThird == [MCFirst EXCEPT !.schema = 2]

MCVersions == {MCFirst, MCSecond, MCThird}
=============================================================================
