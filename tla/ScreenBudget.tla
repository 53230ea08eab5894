---------------------------- MODULE ScreenBudget ----------------------------
(***************************************************************************)
(* What fits a screen (canonical/encoding.go) and how the SDK makes text   *)
(* fit it (sdk/go/render.go, gsm.go).                                      *)
(*                                                                         *)
(* A text is a sequence of runes; a rune is a member of the sets below,    *)
(* which say what the code looks at.  Every capacity is a parameter: the   *)
(* code's are 182 septets, 70 units, and a lookback of 24 runes.           *)
(***************************************************************************)
EXTENDS Integers, SequencesExt

CONSTANTS
  Basic,        \* runes of the GSM 03.38 table: one septet
  Extended,     \* reached through its escape: two septets
  Astral,       \* outside the Basic Multilingual Plane: two UCS-2 units
  Spaces,       \* unicode.IsSpace
  Breaks,       \* what OneLine splits at
  Transliterations,  \* a text for some of the runes outside GSM 03.38
  MaxSeptets, MaxUCS2Units, MaxWordLookback, MinLabelRunes

\* What the code's numbers and tables have in common with smaller ones: any rune
\* fits with the marker, and septets are so many more than units that a prefix
\* in septets fits with what fitted in units, were it all of escaped runes.
ASSUME ScreenAssumption ==
  /\ MaxSeptets \in Nat /\ MaxUCS2Units \in Nat
  /\ MaxUCS2Units >= 5 /\ MaxSeptets >= 2 * MaxUCS2Units - 3
  /\ MaxWordLookback \in Nat /\ MinLabelRunes \in Nat \ {0}
  /\ {".", " ", "\n"} \subseteq Basic /\ Basic \cap (Extended \cup Astral) = {}
  /\ {" ", "\n"} \subseteq Breaks /\ Breaks \subseteq Spaces /\ "." \notin Spaces
  /\ \A r \in DOMAIN Transliterations :
       Transliterations[r] \in Seq(Basic \cup Extended)

Least(m, n) == IF m <= n THEN m ELSE n
Greatest(m, n) == IF m >= n THEN m ELSE n

Count(s, runes) == Cardinality({i \in DOMAIN s : s[i] \in runes})

Take(s, n) == SubSeq(s, 1, n)

----------------------------------------------------------------------------
(* Encodings *)

EncodingOf(s) == IF ToSet(s) \subseteq Basic \cup Extended THEN "gsm7" ELSE "ucs2"

ScreenCost(s) ==
  Len(s) + (IF EncodingOf(s) = "gsm7" THEN Count(s, Extended) ELSE Count(s, Astral))

Budget(s) == IF EncodingOf(s) = "gsm7" THEN MaxSeptets ELSE MaxUCS2Units

FitsScreen(s) == ScreenCost(s) <= Budget(s)

----------------------------------------------------------------------------
(* Cutting *)

\* Mutant: rounding down.
SearchDown(fits, most) ==
  LET search[p \in (0 .. most) \X (-1 .. most)] ==
        LET lo == p[1]
            hi == p[2]
            mid == (lo + hi) \div 2
        IN IF lo >= hi - 1 THEN lo
           ELSE IF fits[mid] THEN search[<<mid, hi>>] ELSE search[<<lo, mid - 1>>]
  IN search[<<0, most>>]

\* The binary search of Shrink, fitRunes and longestLabelThatFits: the largest
\* n up to most with fits[n], if fits[n] implies fits of everything below n.
Search(fits, most) ==
  LET search[p \in (0 .. most) \X (0 .. most)] ==
        LET lo == p[1]
            hi == p[2]
            mid == (lo + hi + 1) \div 2
        IN IF lo >= hi THEN lo
           ELSE IF fits[mid] THEN search[<<mid, hi>>] ELSE search[<<lo, mid - 1>>]
  IN search[<<0, most>>]

Ellipsis == <<".", ".", ".">>

TrimRight(s) ==
  Take(s, SelectLastInSeq(s, LAMBDA r : r \notin Spaces))

\* A word boundary inside the lookback is cut at, and so is one just after.
Truncate(s, limit) ==
  IF limit <= 0 THEN <<>>
  ELSE IF Len(s) <= limit THEN s
  ELSE IF limit <= Len(Ellipsis) THEN Take(Ellipsis, limit)
  ELSE LET cut == Take(s, limit - Len(Ellipsis))
           floor == Greatest(Len(cut) - MaxWordLookback, Len(cut) \div 2)
           space == SelectLastInSubSeq(cut, floor + 1, Len(cut),
                                       LAMBDA r : r \in Spaces)
       IN (IF s[Len(cut) + 1] \in Spaces THEN TrimRight(cut)
           ELSE IF space > 0 THEN TrimRight(Take(cut, space - 1))
           ELSE cut) \o Ellipsis

\* Mutant: the marker is not measured.
ShrinkUnmarked(s) ==
  IF FitsScreen(s) THEN s
  ELSE Take(s, Search([n \in 0 .. Len(s) |-> FitsScreen(Take(s, n))],
                      Least(Len(s), MaxSeptets))) \o Ellipsis

Shrink(s) ==
  IF FitsScreen(s) THEN s
  ELSE LET lo == Search([n \in 0 .. Len(s) |-> FitsScreen(Take(s, n) \o Ellipsis)],
                        Least(Len(s), MaxSeptets))
       IN IF lo = 0 THEN <<>> ELSE Truncate(Take(s, lo + 1), lo)

----------------------------------------------------------------------------
(* Pages *)

\* Mutant: the reserve is forgotten.
FitRunesAlone(s, reserve) ==
  Search([n \in 0 .. Len(s) |-> FitsScreen(Take(s, n))], Least(Len(s), MaxSeptets))

FitRunes(s, reserve) ==
  Search([n \in 0 .. Len(s) |->
            ScreenCost(Take(s, n)) + reserve <= Budget(Take(s, n))],
         Least(Len(s), MaxSeptets))

\* Runes before the last separator in the window, or 0.
LastIndex(window, sep) ==
  LET at == {i \in 1 .. Len(window) - Len(sep) :
               SubSeq(window, i + 1, i + Len(sep)) = sep}
  IN IF at = {} THEN 0 ELSE CHOOSE i \in at : \A j \in at : j <= i

\* Where to split a full window: at the last paragraph, else line, else word
\* that ends late enough in it.
BreakPoint(window) ==
  LET ends == [n \in 1 .. 3 |->
                 LastIndex(window, << <<"\n", "\n">>, <<"\n">>, <<" ">> >>[n])]
      late == {n \in 1 .. 3 : ends[n] > 0 /\ ends[n] >= Len(window) \div 3}
  IN IF late = {} THEN Len(window)
     ELSE ends[CHOOSE n \in late : \A m \in late : n <= m]

\* Mutant: the rune split at is skipped.
PageAtSkips(runes, at, reserve) ==
  LET window == SubSeq(runes, at + 1, Least(at + MaxSeptets, Len(runes)))
      fit == FitRunes(window, reserve)
      cut == BreakPoint(Take(window, fit))
  IN [page |-> TrimRight(Take(window, cut)), runes |-> cut + 1]

\* The page that starts after the first at runes, and the runes it uses up.
PageAt(runes, at, reserve) ==
  LET window == SubSeq(runes, at + 1, Least(at + MaxSeptets, Len(runes)))
      fit == FitRunes(window, reserve)
      cut == BreakPoint(Take(window, fit))
      page == TrimRight(Take(window, cut))
  IN IF \/ fit = Len(window) /\ at + Len(window) = Len(runes)
        \/ page = <<>>
     THEN [page |-> Take(window, fit), runes |-> fit]
     ELSE [page |-> page, runes |-> cut]

Paginate(body, reserve) ==
  LET runes == TrimRight(body)
      pages[at \in 0 .. Len(runes)] ==
        LET next == PageAt(runes, at, reserve)
        IN CASE at = Len(runes) -> <<>>
             [] at < Len(runes) /\ runes[at + 1] \in Spaces -> pages[at + 1]
             [] OTHER -> IF next.runes = 0 THEN <<>>
                         ELSE <<next.page>> \o pages[Least(at + next.runes, Len(runes))]
  IN IF \/ reserve >= MaxUCS2Units /\ EncodingOf(body) = "ucs2"
        \/ reserve >= MaxSeptets
     THEN <<>> ELSE pages[0]

----------------------------------------------------------------------------
(* Labels *)

\* Runs of separators become one space, those at the ends nothing:
\* strings.Join(strings.FieldsFunc(s, seps), " "), rune by rune.
JoinFields(s, seps) ==
  LET joined[n \in 0 .. Len(s)] ==
        IF n = 0 THEN <<>>
        ELSE LET before == joined[n - 1]
             IN IF s[n] \in seps THEN before
                ELSE IF before # <<>> /\ s[n - 1] \in seps
                THEN before \o <<" ", s[n]>>
                ELSE before \o <<s[n]>>
  IN joined[Len(s)]

OneLine(s) == JoinFields(s, Breaks)

\* Mutant: what has no transliteration is kept.
ToGSMKeeps(s) ==
  JoinFields(
    FlattenSeq([i \in DOMAIN s |->
                  IF s[i] \in DOMAIN Transliterations THEN Transliterations[s[i]]
                  ELSE <<s[i]>>]),
    Spaces)

\* A rune outside GSM 03.38 is transliterated or becomes a space.
ToGSM(s) ==
  IF EncodingOf(s) = "gsm7" THEN s
  ELSE JoinFields(
         FlattenSeq([i \in DOMAIN s |->
                       IF EncodingOf(<<s[i]>>) = "gsm7" THEN <<s[i]>>
                       ELSE IF s[i] \in DOMAIN Transliterations
                       THEN Transliterations[s[i]]
                       ELSE <<" ">>]),
         Spaces)

\* TrimSpace of a text whose breaks are collapsed: a space on either side.
TrimSpace(s) ==
  LET first == SelectInSeq(s, LAMBDA r : r \notin Spaces)
  IN IF first = 0 THEN <<>> ELSE TrimRight(SubSeq(s, first, Len(s)))

\* Untrusted text prepared for one menu line.
Label(s, limit, fallback) ==
  LET out == TrimSpace(OneLine(ToGSM(s)))
  IN Truncate(IF Len(out) < 2 THEN fallback ELSE out, limit)

----------------------------------------------------------------------------
(* Menus: an item is [key, label], both texts *)

\* Mutant: breaks in a label are rendered.
LineBroken(item) == <<"\n">> \o item.key \o <<".", " ">> \o item.label

Line(item) ==
  <<"\n">> \o OneLine(item.key) \o <<".", " ">> \o OneLine(item.label)

\* Mutant: a label of just as many runes as are worth showing is dropped.
LongestLabelAbove(rendered, item) ==
  LET cut(n) == [item EXCEPT !.label = Truncate(@, n)]
      lo == Search([n \in 0 .. Len(item.label) |-> FitsScreen(rendered \o Line(cut(n)))],
                      Len(item.label))
  IN IF lo <= MinLabelRunes THEN <<>> ELSE OneLine(cut(lo).label)

\* The longest truncation of the label that fits below what is rendered, or
\* nothing worth showing.
LongestLabelThatFits(rendered, item) ==
  LET cut(n) == [item EXCEPT !.label = Truncate(@, n)]
      lo == Search([n \in 0 .. Len(item.label) |-> FitsScreen(rendered \o Line(cut(n)))],
                      Len(item.label))
  IN IF lo < MinLabelRunes THEN <<>> ELSE OneLine(cut(lo).label)

\* Options that do not fit are shortened; the first that cannot be is dropped
\* with all that follow.
Menu(title, items) ==
  LET menu[n \in 0 .. Len(items)] ==
        IF n = 0 THEN [text |-> title, full |-> FALSE]
        ELSE LET above == menu[n - 1]
                 item == items[n]
                 short == LongestLabelThatFits(above.text, item)
             IN IF above.full THEN above
                ELSE IF FitsScreen(above.text \o Line(item))
                THEN [above EXCEPT !.text = @ \o Line(item)]
                ELSE IF short = <<>> THEN [above EXCEPT !.full = TRUE]
                ELSE [above EXCEPT !.text = @ \o Line([item EXCEPT !.label = short])]
  IN menu[Len(items)].text

Lines(items) == FlattenSeq([i \in DOMAIN items |-> Line(items[i])])

\* Mutant: the footer is not measured with the items.
MenuFitAbove(title, items, footer) ==
  LET fits(n) == FitsScreen(title \o Lines(Take(items, n)))
      shown == CHOOSE n \in 0 .. Len(items) :
                 /\ \A m \in 1 .. n : fits(m)
                 /\ n < Len(items) => ~fits(n + 1)
  IN [text |-> title \o Lines(Take(items, shown)) \o Lines(footer),
      shown |-> shown]

\* The footer is always whole, and as many items as fit are above it.
MenuFit(title, items, footer) ==
  LET fits(n) == FitsScreen(title \o Lines(Take(items, n)) \o Lines(footer))
      shown == CHOOSE n \in 0 .. Len(items) :
                 /\ \A m \in 1 .. n : fits(m)
                 /\ n < Len(items) => ~fits(n + 1)
  IN IF fits(0)
     THEN [text |-> title \o Lines(Take(items, shown)) \o Lines(footer),
           shown |-> shown]
     ELSE [text |-> Shrink(title \o Lines(footer)), shown |-> 0]
=============================================================================
