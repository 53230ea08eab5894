--------------------------- MODULE ScreenPromises ---------------------------
(***************************************************************************)
(* What the SDK promises of any text, any page and any menu: each promise  *)
(* is a predicate of what an application may hand to it.                   *)
(***************************************************************************)
EXTENDS ScreenBudget

(***************************************************************************)
(* Whatever encoding a text forces, shrunk it fits one screen, and is not  *)
(* lost: it is the text itself, or some of its start with a marker after   *)
(* it, or, where the marker alone fills the screen, dots (render.go:29-62: *)
(* the backstop every rendered screen passes through).                     *)
(***************************************************************************)
ShrinksToFit(text) ==
  LET shrunk == Shrink(text)
  IN /\ FitsScreen(shrunk)
     /\ \/ shrunk = text
        \/ \E n \in 0 .. Len(text) : shrunk = Take(text, n) \o Ellipsis
        \/ \E n \in 1 .. Len(Ellipsis) : shrunk = Take(Ellipsis, n)

(***************************************************************************)
(* The binary searches find the longest prefix that fits although one rune *)
(* may change the cost of all before it (render.go:41-57, 178-202).        *)
(***************************************************************************)
SearchIsExact(text, reserve) ==
  LET fits(n) == ScreenCost(Take(text, n)) + reserve <= Budget(Take(text, n))
      n == FitRunes(text, reserve)
  IN /\ n > 0 => fits(n)
     /\ \A m \in n + 1 .. Len(text) : ~fits(m)

(***************************************************************************)
(* Every page fits its screen beside the reserve, in its own encoding      *)
(* (render.go:117-122).                                                    *)
(***************************************************************************)
PagesFitBeside(text, reserve) ==
  \A page \in ToSet(Paginate(text, reserve)) :
    page # <<>> /\ ScreenCost(page) + reserve <= Budget(page)

Inked(s) ==
  FlattenSeq([i \in DOMAIN s |-> IF s[i] \in Spaces THEN <<>> ELSE <<s[i]>>])

(***************************************************************************)
(* Pages leave out nothing but space, however words, lines and paragraphs  *)
(* fall, as long as the reserve leaves room for one rune (render.go:       *)
(* 124-126: a word longer than a page is split rather than dropped).       *)
(***************************************************************************)
PagesKeep(text, reserve) ==
  reserve + 2 <= Least(MaxUCS2Units, MaxSeptets) =>
    Inked(FlattenSeq(Paginate(text, reserve))) = Inked(text)

(***************************************************************************)
(* Untrusted text becomes a label of one line within its limit, in GSM     *)
(* 03.38, so that neither an option nor the screen's capacity can be lost  *)
(* to it (gsm.go:35-94).                                                   *)
(***************************************************************************)
OneGSMLine(text, limit, fallback) ==
  LET label == Label(text, limit, fallback)
  IN /\ Len(label) <= limit
     /\ EncodingOf(label) = "gsm7"
     /\ label = OneLine(label)

----------------------------------------------------------------------------
\* The keys a subscriber reads: what starts a line, a break if it is empty.
Offered(screen) ==
  LET ended == Append(screen, "\n")
  IN FlattenSeq([i \in DOMAIN screen |->
                   IF screen[i] = "\n" THEN <<ended[i + 1]>> ELSE <<>>])

KeysOf(items) == [i \in DOMAIN items |-> items[i].key[1]]

(***************************************************************************)
(* A menu fits its screen and offers the first so many of its items, each  *)
(* on one line, whatever breaks and encodings the labels hold              *)
(* (render.go:261-294).                                                    *)
(***************************************************************************)
OffersFirstItems(title, items) ==
  LET screen == Menu(title, items)
  IN /\ FitsScreen(screen)
     /\ IsPrefix(title, screen)
     /\ IsPrefix(Offered(screen), KeysOf(items))

(***************************************************************************)
(* A label is shortened no more than it must be: no longer truncation of   *)
(* it would fit (render.go:225-248, a binary search although a longer      *)
(* truncation may break at another word and change the encoding).          *)
(***************************************************************************)
ShortensNoMore(title, items) ==
  items # <<>> =>
    LET item == items[Len(items)]
        above == Menu(title, Take(items, Len(items) - 1))
        cut(n) == [item EXCEPT !.label = Truncate(@, n)]
        longest == LongestLabelThatFits(above, item)
    IN ~FitsScreen(above \o Line(item)) =>
         \A n \in MinLabelRunes .. Len(item.label) :
           FitsScreen(above \o Line(cut(n))) =>
             Len(OneLine(cut(n).label)) <= Len(longest)

(***************************************************************************)
(* With a footer every way off the screen stays: the screen fits, offers   *)
(* the items counted as shown and then the whole footer, and the next item *)
(* would not have fitted (render.go:296-330).                              *)
(***************************************************************************)
KeepsFooter(title, items, footer) ==
  LET fit == MenuFit(title, items, footer)
  IN /\ FitsScreen(fit.text)
     /\ IsSuffix(Lines(footer), fit.text)
     /\ Offered(fit.text) = KeysOf(Take(items, fit.shown)) \o KeysOf(footer)
     /\ fit.shown < Len(items) =>
          ~FitsScreen(fit.text \o Line(items[fit.shown + 1]))
=============================================================================
