------------------------------ MODULE Screens ------------------------------
(***************************************************************************)
(* What the SDK makes of every text and of every menu within the bounds:   *)
(* a text grows rune by rune, and a menu label by label.                   *)
(***************************************************************************)
EXTENDS ScreenPromises

CONSTANTS
  Starts,         \* what a text may start with
  Mixes,          \* the kinds of runes a text may mix
  MaxRunes,       \* bound: runes after the start, for each mix
  Reserves,       \* units set aside on a page
  Keys,           \* the keys of a menu's items, in order
  LabelRunes,     \* the runes of their labels
  MaxLabelRunes,  \* bound: runes in all labels together
  Fallback,       \* what stands in for an unreadable label
  Title,
  Footer          \* items that must always be there

\* The application's title and footer fit a screen between them, neither they
\* nor the keys hold breaks, and its fallback is a line of GSM 03.38.
ASSUME MenuAssumption ==
  /\ Starts \subseteq Seq(UNION Mixes)
  /\ Reserves \subseteq Nat \ {0}
  /\ Fallback \in Seq(Basic \ Spaces)
  /\ Title \in Seq(Basic \ {"\n"})
  /\ Keys \in Seq(Basic \ Spaces)
  /\ Footer \in Seq([key : {<<r>> : r \in Basic \ Spaces}, label : Seq(Basic)])
  /\ FitsScreen(Title) /\ FitsScreen(Title \o Lines(Footer))

VARIABLES text, labels

vars == <<text, labels>>

Init == text \in Starts /\ labels = <<>>

Grow ==
  /\ labels = <<>>
  /\ \E start \in Starts, runes \in Mixes, r \in UNION Mixes :
       /\ text' = Append(text, r)
       /\ IsPrefix(start, text') /\ Len(text') <= Len(start) + MaxRunes[runes]
       /\ ToSet(text') \subseteq runes
  /\ UNCHANGED labels

AddItem ==
  /\ text = <<>>
  /\ Len(labels) < Len(Keys)
  /\ labels' = Append(labels, <<>>)
  /\ UNCHANGED text

AddRune ==
  /\ labels # <<>>
  /\ Len(FlattenSeq(labels)) < MaxLabelRunes
  /\ \E r \in LabelRunes : labels' = [labels EXCEPT ![Len(labels)] = Append(@, r)]
  /\ UNCHANGED text

Next == Grow \/ AddItem \/ AddRune

Spec == Init /\ [][Next]_vars

----------------------------------------------------------------------------
Items == [i \in DOMAIN labels |-> [key |-> <<Keys[i]>>, label |-> labels[i]]]

(***************************************************************************)
(* The properties are the promises of ScreenPromises for these texts and   *)
(* menus.                                                                  *)
(***************************************************************************)

\* Shrunk, a text fits one screen and keeps its start (render.go:29-62).
ShrinkFits == ShrinksToFit(text)

\* The binary searches find the longest prefix that fits (render.go:178-202).
SearchFindsTheLongest == \A reserve \in Reserves : SearchIsExact(text, reserve)

\* Every page fits beside the reserve, in its own encoding (render.go:117-122).
PagesFit == \A reserve \in Reserves : PagesFitBeside(text, reserve)

\* Pages leave out nothing but space (render.go:124-126).
PagesLoseNothing == \A reserve \in Reserves : PagesKeep(text, reserve)

\* A label is one line of GSM 03.38 within its limit (gsm.go:35-94).
LabelIsOneGSMLine == \A limit \in 1 .. Len(text) + 1 : OneGSMLine(text, limit, Fallback)

\* A menu fits and offers the first so many of its items (render.go:261-294).
MenuOffersItsFirstItems == OffersFirstItems(Title, Items)

\* A label is shortened no more than it must be (render.go:225-248).
LabelsAreLongest == ShortensNoMore(Title, Items)

\* With a footer every way off the screen stays (render.go:296-330).
FooterStays == KeepsFooter(Title, Items, Footer)
=============================================================================
