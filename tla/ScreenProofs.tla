---------------------------- MODULE ScreenProofs ----------------------------
(***************************************************************************)
(* Every text and every menu that can be reached keeps the promises, for   *)
(* every capacity, every mix of runes and every bound.                     *)
(***************************************************************************)
EXTENDS Screens, ScreenLemmas

Letters == (UNION Mixes) \cup LabelRunes \cup Basic

Typed ==
  /\ text \in Seq(Letters)
  /\ labels \in Seq(Seq(Letters))
  /\ Len(labels) <= Len(Keys)

LEMMA TypedHolds == Spec => []Typed
<1>1. Init => Typed
  <2>1. UNION Mixes \subseteq Letters
    BY DEF Letters
  <2>2. Starts \subseteq Seq(Letters)
    BY <2>1, MenuAssumption
  <2>3. Len(Keys) \in Nat
    BY MenuAssumption
  <2> QED
    BY <2>2, <2>3 DEF Init, Typed
<1>2. Typed /\ [Next]_vars => Typed'
  <2> SUFFICES ASSUME Typed, [Next]_vars PROVE Typed'
    OBVIOUS
  <2>1. CASE Grow
    BY <2>1 DEF Grow, Typed, Letters
  <2>2. CASE AddItem
    <3>1. <<>> \in Seq(Letters) /\ Len(Keys) \in Nat
      BY MenuAssumption
    <3> QED
      BY <2>2, <3>1 DEF AddItem, Typed
  <2>3. CASE AddRune
    <3>1. PICK r \in LabelRunes :
                 labels' = [labels EXCEPT ![Len(labels)] = Append(@, r)]
      BY <2>3 DEF AddRune
    <3>2. Len(labels) \in 1 .. Len(labels) /\ r \in Letters
      BY <2>3 DEF AddRune, Typed, Letters
    <3>3. Append(labels[Len(labels)], r) \in Seq(Letters)
      BY <3>2 DEF Typed
    <3>4. labels' \in Seq(Seq(Letters)) /\ Len(labels') = Len(labels)
      BY <3>1, <3>2, <3>3 DEF Typed
    <3> QED
      BY <2>3, <3>4 DEF AddRune, Typed
  <2>4. CASE UNCHANGED vars
    BY <2>4 DEF vars, Typed
  <2> QED
    BY <2>1, <2>2, <2>3, <2>4 DEF Next
<1> QED
  BY <1>1, <1>2, PTL DEF Spec

----------------------------------------------------------------------------
(* The application's menu *)

LEMMA LettersOfMenus ==
  /\ Basic \subseteq Letters /\ Basic \ Spaces \subseteq Letters \ Breaks
  /\ Title \in Seq(Letters \ {NewLine})
  /\ Footer \in Seq(ItemsOf(Letters))
  /\ FitsScreen(Title) /\ FitsScreen(Title \o Lines(Footer))
<1>1. Basic \subseteq Letters /\ Basic \ Spaces \subseteq Letters \ Breaks
  BY ScreenAssumption, Zenon DEF Letters
<1>2. Title \in Seq(Letters \ {NewLine})
  <2>1. Title \in Seq(Basic \ {NewLine})
    BY MenuAssumption, Zenon DEF NewLine
  <2> QED
    BY <1>1, <2>1
<1>3. Footer \in Seq(ItemsOf(Letters))
  <2> DEFINE Own == [key : {<<r>> : r \in Basic \ Spaces}, label : Seq(Basic)]
  <2>1. Seq(Basic) \subseteq Seq(Letters)
    BY <1>1
  <2>2. {<<r>> : r \in Basic \ Spaces} \subseteq Seq(Letters \ Breaks) \ {<<>>}
    <3>1. ASSUME NEW r \in Basic \ Spaces PROVE <<r>> \in Seq(Letters \ Breaks) \ {<<>>}
      <4>1. r \in Letters \ Breaks
        BY <1>1
      <4> QED
        BY <4>1
    <3> QED
      BY <3>1, Zenon
  <2>3. Own \subseteq ItemsOf(Letters)
    BY <2>1, <2>2, Zenon DEF ItemsOf
  <2>4. Footer \in Seq(Own)
    BY MenuAssumption, Zenon
  <2> HIDE DEF Own
  <2> QED
    BY <2>3, <2>4
<1>4. FitsScreen(Title) /\ FitsScreen(Title \o Lines(Footer))
  BY MenuAssumption, Zenon
<1> QED
  BY <1>1, <1>2, <1>3, <1>4, Zenon

LEMMA ItemsAreItems ==
  ASSUME Typed
  PROVE  Items \in Seq(ItemsOf(Letters))
<1>1. Keys \in Seq(Letters \ Breaks)
  <2>1. Keys \in Seq(Basic \ Spaces)
    BY MenuAssumption, Zenon
  <2> QED
    BY <2>1, LettersOfMenus
<1>2. DOMAIN labels = 1 .. Len(labels) /\ Len(labels) \in Nat
  BY DEF Typed
<1>3. \A i \in 1 .. Len(labels) : Keys[i] \in Letters \ Breaks /\ labels[i] \in Seq(Letters)
  BY <1>1 DEF Typed
<1>4. \A i \in 1 .. Len(labels) : Items[i] \in ItemsOf(Letters)
  <2>1. \A i \in 1 .. Len(labels) : Items[i] = [key |-> <<Keys[i]>>, label |-> labels[i]]
    BY <1>2, Zenon DEF Items
  <2>2. \A i \in 1 .. Len(labels) : <<Keys[i]>> \in Seq(Letters \ Breaks) \ {<<>>}
    BY <1>3
  <2>3. ASSUME NEW i \in 1 .. Len(labels)
        PROVE  [key |-> <<Keys[i]>>, label |-> labels[i]] \in ItemsOf(Letters)
    BY <1>3, <2>2 DEF ItemsOf
  <2> QED
    BY <2>1, <2>3, Zenon
<1>5. Items \in [1 .. Len(labels) -> ItemsOf(Letters)]
  BY <1>2, <1>4, Zenon DEF Items
<1> QED
  BY <1>2, <1>5

----------------------------------------------------------------------------
(* The promises *)

(***************************************************************************)
(* The backstop of every screen: shrunk, every text fits and is not lost   *)
(* (render.go:29-62).                                                      *)
(***************************************************************************)
THEOREM TextsShrink == Spec => []ShrinkFits
<1>1. Typed => ShrinkFits
  BY EveryTextShrinks DEF Typed, ShrinkFits
<1> QED
  BY <1>1, TypedHolds, PTL

(***************************************************************************)
(* The binary search finds the longest start of every text that fits       *)
(* beside every reserve (render.go:178-202).                               *)
(***************************************************************************)
THEOREM SearchIsAlwaysExact == Spec => []SearchFindsTheLongest
<1>1. Typed => SearchFindsTheLongest
  BY EverySearchIsExact, MenuAssumption DEF Typed, SearchFindsTheLongest
<1> QED
  BY <1>1, TypedHolds, PTL

(***************************************************************************)
(* Every page of every text fits beside every reserve (render.go:117-122). *)
(***************************************************************************)
THEOREM PagesAlwaysFit == Spec => []PagesFit
<1>1. Typed => PagesFit
  BY EveryPageFits, MenuAssumption DEF Typed, PagesFit
<1> QED
  BY <1>1, TypedHolds, PTL

(***************************************************************************)
(* The pages of every text, one after the other, hold all of it but space  *)
(* (render.go:117-168).                                                    *)
(***************************************************************************)
THEOREM PagesKeepEveryText == Spec => []PagesLoseNothing
<1>1. Typed => PagesLoseNothing
  BY PagesKeepTheText, MenuAssumption DEF Typed, PagesLoseNothing
<1> QED
  BY <1>1, TypedHolds, PTL

(***************************************************************************)
(* Every text becomes a label of one line in GSM 03.38 within every limit  *)
(* (gsm.go:35-94).                                                         *)
(***************************************************************************)
THEOREM LabelsAreGSMLines == Spec => []LabelIsOneGSMLine
<1>1. Fallback \in Seq(Basic \cup Extended) /\ Fallback = OneLine(Fallback)
  <2>1. Fallback \in Seq(Basic \ Spaces)
    BY MenuAssumption, Zenon
  <2>2. Fallback \in Seq(Basic) /\ \A i \in 1 .. Len(Fallback) : Fallback[i] \notin Breaks
    BY <2>1, LettersOfMenus
  <2>3. IsOneLine(Fallback) /\ Gap \in Basic
    BY <2>2, GapIs, Zenon DEF IsOneLine
  <2> QED
    BY <2>2, <2>3, OneLineIsItself
<1>2. Typed => LabelIsOneGSMLine
  <2> SUFFICES ASSUME Typed, NEW limit \in 1 .. Len(text) + 1
               PROVE  OneGSMLine(text, limit, Fallback)
    BY DEF LabelIsOneGSMLine
  <2>1. text \in Seq(Letters) /\ limit \in Nat
    BY DEF Typed
  <2> QED
    BY <1>1, <2>1, EveryLabelIsOneGSMLine
<1> QED
  BY <1>2, TypedHolds, PTL

(***************************************************************************)
(* Every menu fits and offers the first so many of its items, in their     *)
(* order, one line each, whatever their labels hold (render.go:261-294).   *)
(***************************************************************************)
THEOREM MenusOfferTheirFirstItems == Spec => []MenuOffersItsFirstItems
<1>1. Typed => MenuOffersItsFirstItems
  BY ItemsAreItems, LettersOfMenus, EveryMenuOffersItsFirstItems
     DEF MenuOffersItsFirstItems
<1> QED
  BY <1>1, TypedHolds, PTL

(***************************************************************************)
(* Every label is shortened no more than it must be (render.go:225-248).   *)
(***************************************************************************)
THEOREM LabelsAreShortenedLeast == Spec => []LabelsAreLongest
<1>1. Typed => LabelsAreLongest
  <2> SUFFICES ASSUME Typed PROVE ShortensNoMore(Title, Items)
    BY DEF LabelsAreLongest
  <2>1. Basic \subseteq Letters /\ Title \in Seq(Letters)
    BY LettersOfMenus
  <2> QED
    BY <2>1, ItemsAreItems, EveryLabelIsLongest
<1> QED
  BY <1>1, TypedHolds, PTL

(***************************************************************************)
(* Every list keeps its footer whole below as many of its first items as   *)
(* fit, and offers just these (render.go:296-330).                         *)
(***************************************************************************)
THEOREM FootersStay == Spec => []FooterStays
<1>1. Typed => FooterStays
  BY ItemsAreItems, LettersOfMenus, EveryFooterStays DEF FooterStays
<1> QED
  BY <1>1, TypedHolds, PTL
=============================================================================
