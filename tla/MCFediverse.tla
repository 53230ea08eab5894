---------------------------- MODULE MCFediverse ----------------------------
(***************************************************************************)
(* A small screen for TLC, its words cut down in proportion, and the       *)
(* statuses an instance may answer with.                                   *)
(***************************************************************************)
EXTENDS Fediverse

MCBasic == ToSet(Digits) \cup
  {"a", "b", "m", "h", "A", "B", "E", "M", "N", "P", "Q", "R", "T", "X", "+",
   "@", "(", ")", "/", ":", ".", " ", "\n"}
MCExtended == {"^", "[", "]"}
MCAstral == {"globe"}
MCSpaces == {" ", "\n"}
MCTransliterations == [r \in {"quote"} |-> <<"a">>]

MCT ==
  ("menu.title" :> <<"M">>) @@ ("menu.timeline" :> <<"T">>)
  @@ ("menu.about" :> <<"A">>) @@ ("menu.quit" :> <<"Q">>)
  @@ ("timeline.title" :> <<"T">>) @@ ("post" :> <<"P">>)
  @@ ("nav.next" :> <<"1", ".", " ", "N">>)
  @@ ("nav.prev" :> <<"2", ".", " ", "P">>)
  @@ ("nav.back" :> <<"0", ".", " ", "B">>)
  @@ ("error.fetch" :> <<"E", "E">>) @@ ("error.empty" :> <<"E", ".">>)
  @@ ("error.choice" :> <<"X", "X", "X", "X", "X">>)
  @@ ("session.ended" :> <<"E">>) @@ ("about.body" :> <<"a">>)
  @@ ("media.none" :> <<"m">>)

MCRune == MCBasic \cup MCExtended \cup MCAstral \cup {"quote"}

Times(n, r) == [i \in 1 .. n |-> r]

Status == [name |-> <<"a", "a", "a", "a", "a", "a">>, acct |-> <<"b">>,
           content |-> <<>>, media |-> <<>>, age |-> <<"2", "h">>, reblog |-> <<>>]

\* Three pages of GSM 03.38, several of UCS-2, and one page.
Plain ==
  << [Status EXCEPT !.content = Times(14, "a") \o <<" ">> \o Times(80, "b")],
     [Status EXCEPT !.content = <<"a", "b", "globe", "quote", " ", "b", "b">>,
                    !.name = <<"a", "a", "a", "globe", "a">>],
     [Status EXCEPT !.content = <<"a">>, !.media = << [type |-> <<"m">>, description |-> <<" ">>] >>] >>

\* A boost, and a name of extended runes.
Odd ==
  << [Status EXCEPT !.reblog = << [Status EXCEPT !.content = <<"a">>] >>, !.name = <<" ">>],
     [Status EXCEPT !.name = Times(6, "^"), !.content = Times(80, "a")] >>

\* As many as the application asks for, each short enough for all to be listed,
\* the last without a text.
Ten ==
  [i \in 1 .. 10 |->
     [Status EXCEPT !.name = <<"a", "a">>, !.content = Times(10 - i, "a"), !.age = <<>>]]

\* A name and a text that read as keys.
Tempting ==
  << [Status EXCEPT !.name = <<"a", " ", "7", ".", " ", "a">>, !.content = <<"5", ".", " ", "a">>],
     [Status EXCEPT !.content = <<"a">>] >>

MCTimelines == {Plain, Odd, Ten, Tempting, <<>>}

Extravagant == {<< [Status EXCEPT !.name = Times(6, "^"), !.content = Times(80, "a")] >>}

MCSubscriber == <<"+", "2">>
MCInputs == {<<>>, <<"0">>, <<"1">>, <<"2">>, <<"1", "0">>, <<" ", "+", "0", "1">>}
=============================================================================
