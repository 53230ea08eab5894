--------------------------- MODULE FediverseProofs ---------------------------
(***************************************************************************)
(* What the reference application keeps on every screen, for every         *)
(* timeline, every screen size and all words that satisfy                  *)
(* WordsAssumption: the types of its session, the dialogue its events      *)
(* carry, that it shows the keys it takes and takes those it shows, that   *)
(* they do what they say, and that a post is on the screen whole.          *)
(***************************************************************************)
EXTENDS Fediverse, ScreenLemmas

----------------------------------------------------------------------------
(* Texts *)

LEMMA Alphabet ==
  /\ Basic \subseteq Rune /\ Extended \subseteq Rune /\ Marks \subseteq Basic
  /\ "[" \in Rune /\ "]" \in Rune /\ "." \in Rune /\ Gap \in Rune /\ NewLine \in Rune
  /\ {"(", ")", "/", "@", ":", "R", "T"} \subseteq Rune
  /\ \A n \in 1 .. 10 : Digits[n] \in Marks /\ Digits[n] \in Rune
<1>1. /\ Basic \subseteq Rune /\ Extended \subseteq Rune /\ Marks \subseteq Basic
      /\ {"[", "]"} \subseteq Extended
  BY FediverseAssumption, Zenon
<1>2. "[" \in Rune /\ "]" \in Rune
  BY <1>1, Zenon
<1>3. "." \in Rune /\ Gap \in Rune /\ NewLine \in Rune
  BY <1>1, Alphabets, GapIs, Separators, Zenon
<1>4. {"(", ")", "/", "@", ":", "R", "T"} \subseteq Rune
  BY <1>1, Zenon DEF Marks
<1>5. DOMAIN Digits = 1 .. 10
  BY DEF Digits
<1>6. \A n \in 1 .. 10 : Digits[n] \in Marks
  BY <1>5, Zenon DEF Marks, ToSet
<1> QED
  BY <1>1, <1>2, <1>3, <1>4, <1>6, Zenon

LEMMA WordsAreTexts ==
  \A w \in Words : T[w] \in Text
BY FediverseAssumption, Zenon

LEMMA Sizes ==
  /\ MaxPostBytes \in Nat /\ MaxPostBytes >= 3
  /\ MaxHeaderLen \in Nat /\ MaxAnswers \in Nat /\ WidestPageCounter \in Nat \ {0}
  /\ \A timeline \in Timelines : timeline \in Seq(Statuses(Seq(Statuses({<<>>}))))
<1> DEFINE S == Seq(Statuses(Seq(Statuses({<<>>}))))
<1>1. /\ MaxPostBytes \in Nat /\ MaxPostBytes >= 3
      /\ MaxHeaderLen \in Nat /\ MaxAnswers \in Nat /\ WidestPageCounter \in Nat \ {0}
      /\ Timelines \subseteq S
  BY FediverseAssumption, Zenon
<1> HIDE DEF S
<1> QED
  BY <1>1, Zenon DEF S

\* Texts of one and of two runes.
LEMMA ShortTexts ==
  ASSUME NEW r \in Rune, NEW q \in Rune
  PROVE  <<r>> \in Text /\ <<r, q>> \in Text
BY DEF Text

LEMMA TextsJoin ==
  ASSUME NEW s \in Text, NEW t \in Text
  PROVE  s \o t \in Text
BY DEF Text

\* TrimSpace takes a text out of a text, and leaves one with no space at its
\* ends as it is.
\* A text that ends in something to read.
Legible(s) == s = <<>> \/ s[Len(s)] \notin Spaces

LEMMA TrimSpaceIs ==
  ASSUME NEW R, NEW s \in Seq(R)
  PROVE  /\ TrimSpace(s) \in Seq(R) /\ Legible(TrimSpace(s))
         /\ s # <<>> /\ s[1] \notin Spaces /\ s[Len(s)] \notin Spaces => TrimSpace(s) = s
<1> DEFINE I == {i \in 1 .. Len(s) : s[i] \notin Spaces}
           first == IF I # {} THEN Min(I) ELSE 0
           rest == SubSeq(s, first, Len(s))
<1>1. TrimSpace(s) = IF first = 0 THEN <<>> ELSE TrimRight(rest)
  BY Zenon DEF TrimSpace, SelectInSeq
<1>2. I \in SUBSET (0 .. Len(s)) /\ Len(s) \in Nat
  OBVIOUS
<1>3. I # {} => Min(I) \in I /\ \A n \in I : Min(I) <= n
  <2> HIDE DEF I
  <2> QED
    BY <1>2, MinIs
<1>4. first # 0 => first \in 1 .. Len(s)
  BY <1>3
<1>5. s # <<>> /\ s[1] \notin Spaces => first = 1
  <2> SUFFICES ASSUME s # <<>>, s[1] \notin Spaces PROVE first = 1
    OBVIOUS
  <2>1. 1 \in I
    BY <1>2
  <2>2. I # {} /\ Min(I) \in I /\ Min(I) <= 1
    <3> HIDE DEF I
    <3> QED
      BY <1>3, <2>1
  <2>3. Min(I) = 1
    BY <1>2, <2>2
  <2> QED
    BY <2>2, <2>3
<1> HIDE DEF first, I
<1>6. first # 0 => rest \in Seq(R) /\ Len(rest) = Len(s) - first + 1
                   /\ \A i \in 1 .. Len(rest) : rest[i] = s[first + i - 1]
  BY <1>2, <1>4, SubSeqProperties
<1>7. ASSUME NEW t \in Seq(R)
      PROVE  TrimRight(t) \in Seq(R) /\ Legible(TrimRight(t))
             /\ (t # <<>> /\ t[Len(t)] \notin Spaces => TrimRight(t) = t)
  <2>1. PICK n \in 0 .. Len(t) :
          /\ TrimRight(t) = Take(t, n)
          /\ n > 0 => t[n] \notin Spaces
          /\ \A i \in n + 1 .. Len(t) : t[i] \in Spaces
    BY TrimRightIs
  <2>2. TrimRight(t) \in Seq(R)
    BY <2>1, TakeIs
  <2>4. Legible(TrimRight(t))
    <3>1. CASE n = 0
      <4>1. Take(t, n) = <<>>
        BY <3>1, TakeNone
      <4> QED
        BY <2>1, <4>1, Zenon DEF Legible
    <3>2. CASE n > 0
      <4>1. n \in 1 .. n /\ n \in 0 .. Len(t)
        BY <3>2
      <4>2. Len(Take(t, n)) = n /\ Take(t, n)[n] = t[n]
        BY <4>1, TakeIs
      <4> QED
        BY <2>1, <3>2, <4>2 DEF Legible
    <3> QED
      BY <3>1, <3>2
  <2>3. ASSUME t # <<>>, t[Len(t)] \notin Spaces PROVE TrimRight(t) = t
    <3>1. Len(t) \in Nat /\ Len(t) # 0
      BY <2>3
    <3>2. n = Len(t)
      BY <2>1, <2>3, <3>1
    <3> QED
      BY <2>1, <3>2, TakeAll
  <2> QED
    BY <2>2, <2>3, <2>4
<1>8. TrimSpace(s) \in Seq(R) /\ Legible(TrimSpace(s))
  <2> HIDE DEF rest
  <2>1. <<>> \in Seq(R) /\ Legible(<<>>)
    BY DEF Legible
  <2> QED
    BY <1>1, <1>6, <1>7, <2>1
<1>9. ASSUME s # <<>>, s[1] \notin Spaces, s[Len(s)] \notin Spaces PROVE TrimSpace(s) = s
  <2>1. first = 1
    BY <1>5, <1>9
  <2>2. rest = s
    BY <2>1, SubSeqFull
  <2> HIDE DEF rest
  <2> QED
    BY <1>1, <1>7, <1>9, <2>1, <2>2
<1> QED
  BY <1>8, <1>9

----------------------------------------------------------------------------
(* Posts *)

LEMMA BytesConcat ==
  ASSUME NEW s \in Text, NEW t \in Text
  PROVE  Bytes(s) \in Nat /\ Bytes(s \o t) = Bytes(s) + Bytes(t)
<1> DEFINE w == s \o t
<1>1. \A C : /\ Count(w, C) = Count(s, C) + Count(t, C)
             /\ Count(s, C) \in Nat /\ Count(t, C) \in Nat
  BY CountConcat, CountIs DEF Text
<1>2. Len(w) = Len(s) + Len(t) /\ Len(s) \in Nat /\ Len(t) \in Nat
  BY ConcatProperties DEF Text
<1> HIDE DEF w
<1>3. /\ Count(w, Wide) = Count(s, Wide) + Count(t, Wide)
      /\ Count(w, Wider) = Count(s, Wider) + Count(t, Wider)
      /\ Count(s, Wide) \in Nat /\ Count(t, Wide) \in Nat
      /\ Count(s, Wider) \in Nat /\ Count(t, Wider) \in Nat
  BY <1>1
<1>5. \A u : Bytes(u) = Len(u) + 2 * Count(u, Wide) + 3 * Count(u, Wider)
  BY Zenon DEF Bytes
<1> DEFINE a == Count(s, Wide)
           b == Count(s, Wider)
           c == Count(t, Wide)
           d == Count(t, Wider)
           m == Len(s)
           n == Len(t)
<1>6. /\ Bytes(w) = (m + n) + 2 * (a + c) + 3 * (b + d)
      /\ Bytes(s) = m + 2 * a + 3 * b /\ Bytes(t) = n + 2 * c + 3 * d
  BY <1>2, <1>3, <1>5, Zenon
<1>7. a \in Nat /\ b \in Nat /\ c \in Nat /\ d \in Nat /\ m \in Nat /\ n \in Nat
  BY <1>2, <1>3
<1> HIDE DEF a, b, c, d, m, n
<1>4. Bytes(s) \in Nat /\ Bytes(w) = Bytes(s) + Bytes(t)
  BY <1>6, <1>7
<1> QED
  BY <1>4 DEF w

LEMMA BytesOfNothing ==
  Bytes(<<>>) = 0 /\ Bytes(Ellipsis) = 3
<1>1. Ellipsis \in Seq({"."}) /\ Len(Ellipsis) = 3
  BY DEF Ellipsis
<1>2. "." \notin Wide /\ "." \notin Wider
  BY FediverseAssumption, Zenon
<1>3. ASSUME NEW s \in Seq({"."}), NEW C, "." \notin C PROVE Count(s, C) = 0
  <2>1. {i \in DOMAIN s : s[i] \in C} = {}
    BY <1>3
  <2> QED
    BY <2>1, FS_EmptySet DEF Count
<1>4. <<>> \in Seq({"."}) /\ Len(<<>>) = 0
  OBVIOUS
<1>5. /\ Count(Ellipsis, Wide) = 0 /\ Count(Ellipsis, Wider) = 0
      /\ Count(<<>>, Wide) = 0 /\ Count(<<>>, Wider) = 0
  BY <1>1, <1>2, <1>3, <1>4
<1> QED
  BY <1>1, <1>4, <1>5 DEF Bytes

LEMMA PrefixBytes ==
  ASSUME NEW s \in Text, NEW n \in 0 .. Len(s)
  PROVE  Take(s, n) \in Text /\ Bytes(Take(s, n)) \in Nat /\ Bytes(Take(s, n)) <= Bytes(s)
<1> DEFINE p == Take(s, n)
           q == SubSeq(s, n + 1, Len(s))
<1>1. p \in Text /\ q \in Text /\ s = p \o q
  BY TakeIs, TakeAndRest DEF Text
<1> HIDE DEF p, q
<1>2. Bytes(p \o q) = Bytes(p) + Bytes(q) /\ Bytes(p) \in Nat /\ Bytes(q) \in Nat
  BY <1>1, BytesConcat
<1>3. Bytes(p) \in Nat /\ Bytes(p) <= Bytes(s)
  BY <1>1, <1>2
<1> QED
  BY <1>1, <1>3 DEF p

\* Capped, a text takes no more than the limit.
LEMMA CapBytesIs ==
  ASSUME NEW s \in Text, NEW limit \in Nat, limit >= 3
  PROVE  /\ CapBytes(s, limit) \in Text /\ Bytes(CapBytes(s, limit)) <= limit
         /\ Legible(s) => Legible(CapBytes(s, limit))
<1> DEFINE Ends(n) == /\ Bytes(Take(s, n)) <= limit - 3
                      /\ Bytes(Take(s, n + 1)) > limit - 3
           cut == CHOOSE n \in 0 .. Len(s) : Ends(n)
           N == Len(s)
<1>1. s \in Seq(Rune) /\ N \in Nat /\ Bytes(s) \in Nat
  BY BytesConcat DEF Text
<1>2. CASE Bytes(s) <= limit
  BY <1>2, Zenon DEF CapBytes
<1>3. CASE ~(Bytes(s) <= limit)
  <2>1. CapBytes(s, limit) = TrimRight(Take(s, cut)) \o Ellipsis
    BY <1>3, Zenon DEF CapBytes
  <2>2. \E n \in 0 .. N : Ends(n)
    <3> DEFINE over == {n \in 0 .. N : Bytes(Take(s, n)) > limit - 3}
    <3>1. over \in SUBSET Nat /\ N \in over
      <4>1. Take(s, N) = s
        BY <1>1, TakeAll
      <4> QED
        BY <1>1, <1>3, <4>1
    <3>2. PICK m \in over : \A n \in over : m <= n
      <4>1. over # {}
        BY <3>1
      <4> HIDE DEF over
      <4> QED
        BY <3>1, <4>1, LeastOf
    <3>3. m # 0
      <4>1. Take(s, 0) = <<>>
        BY <1>1, TakeNone
      <4> QED
        BY <3>2, <4>1, BytesOfNothing
    <3>4. m - 1 \in 0 .. N /\ (m - 1) + 1 = m /\ Bytes(Take(s, m)) > limit - 3 /\ m \in Nat
      BY <3>2, <3>3
    <3>5. m - 1 \notin over
      <4> HIDE DEF over
      <4> QED
        BY <3>2, <3>4
    <3>6. Bytes(Take(s, m - 1)) \in Nat
      BY <3>4, PrefixBytes
    <3>7. Ends(m - 1)
      BY <3>4, <3>5, <3>6
    <3> HIDE DEF Ends
    <3> QED
      BY <3>4, <3>7
  <2>3. cut \in 0 .. N /\ Ends(cut)
    <3> HIDE DEF Ends
    <3> QED
      BY <2>2, Zenon
  <2> DEFINE p == Take(s, cut)
             t == TrimRight(p)
             m == Ellipsis
  <2> HIDE DEF cut
  <2>4. p \in Text /\ Bytes(p) <= limit - 3 /\ p \in Seq(Rune)
    BY <1>1, <2>3, TakeIs DEF Text
  <2>5. t \in Text /\ Bytes(t) \in Nat /\ Bytes(t) <= Bytes(p) /\ Bytes(p) \in Nat
    <3> HIDE DEF p
    <3>1. PICK n \in 0 .. Len(p) : t = Take(p, n)
      BY <2>4, TrimRightIs
    <3>2. Bytes(p) \in Nat
      BY <2>4, BytesConcat
    <3> QED
      BY <2>4, <3>1, <3>2, PrefixBytes
  <2>6. m \in Text
    <3>1. m \in Seq({"."})
      BY DEF Ellipsis
    <3>2. {"."} \subseteq Rune
      BY Alphabet, Zenon
    <3> HIDE DEF m
    <3> QED
      BY <3>1, <3>2 DEF Text
  <2>7. Bytes(m) = 3
    BY BytesOfNothing
  <2> HIDE DEF t, m, p
  <2>8. t \o m \in Text /\ Bytes(t \o m) = Bytes(t) + 3
    BY <2>5, <2>6, <2>7, BytesConcat, TextsJoin
  <2>9. t \o m \in Text /\ Bytes(t \o m) <= limit
    BY <2>4, <2>5, <2>8
  <2>10. Legible(t \o m)
    <3>1. Len(m) = 3 /\ m[3] = "." /\ "." \notin Spaces
      BY Separators, Alphabets DEF m, Ellipsis
    <3>2. t \in Seq(Rune) /\ m \in Seq(Rune)
      BY <2>5, <2>6 DEF Text
    <3>3. Len(t \o m) = Len(t) + 3 /\ (t \o m)[Len(t) + 3] = m[3]
      <4> DEFINE w == t \o m
      <4>1. /\ Len(w) = Len(t) + Len(m) /\ Len(t) \in Nat
            /\ \A i \in 1 .. Len(t) + Len(m) :
                 w[i] = IF i <= Len(t) THEN t[i] ELSE m[i - Len(t)]
        BY <3>2, ConcatProperties
      <4> HIDE DEF w
      <4>2. Len(t) + 3 \in 1 .. Len(t) + Len(m) /\ ~(Len(t) + 3 <= Len(t))
            /\ (Len(t) + 3) - Len(t) = 3
        BY <3>1, <4>1
      <4> QED
        BY <3>1, <4>1, <4>2 DEF w
    <3> QED
      BY <3>1, <3>3 DEF Legible
  <2> QED
    BY <2>1, <2>9, <2>10, Zenon DEF t, m, p
<1> QED
  BY <1>2, <1>3

Posts == [author : Text, text : {s \in Text : Legible(s)}, when : Text]

Capped(posts) == \A i \in DOMAIN posts : Bytes(posts[i].text) <= MaxPostBytes

LEMMA FourRunes ==
  ASSUME NEW a \in Rune, NEW b \in Rune, NEW c \in Rune, NEW d \in Rune
  PROVE  <<a, b, c, d>> \in Text
BY DEF Text

LEMMA MediaIs ==
  ASSUME NEW att \in [type : Text, description : Text]
  PROVE  Media(att) \in Text
<1> DEFINE desc == TrimSpace(att.description)
           open == <<" ", "[">>
           colon == <<":", " ">>
           close == <<"]">>
           shown == IF desc = <<>> THEN T["media.none"] ELSE desc
<1>1. att.type \in Text /\ att.description \in Text
  OBVIOUS
<1>2. desc \in Text
  BY <1>1, TrimSpaceIs DEF Text
<1>3. T["media.none"] \in Text
  BY WordsAreTexts, Zenon DEF Words
<1>4. " " \in Rune /\ ":" \in Rune /\ "[" \in Rune /\ "]" \in Rune
  BY Alphabet, Zenon DEF Gap
<1>5. open \in Text /\ colon \in Text /\ close \in Text
  BY <1>4, ShortTexts, Zenon
<1>6. Media(att) = open \o att.type \o colon \o shown \o close
  BY Zenon DEF Media
<1>7. shown \in Text
  BY <1>2, <1>3, Zenon
<1> HIDE DEF open, colon, close, shown
<1>8. open \o att.type \in Text
  BY <1>1, <1>5, TextsJoin
<1>9. open \o att.type \o colon \in Text
  BY <1>5, <1>8, TextsJoin, Zenon
<1>10. open \o att.type \o colon \o shown \in Text
  BY <1>7, <1>9, TextsJoin, Zenon
<1>11. open \o att.type \o colon \o shown \o close \in Text
  BY <1>5, <1>10, TextsJoin, Zenon
<1> QED
  BY <1>6, <1>11, Zenon

LEMMA ToPostIs ==
  ASSUME NEW s \in Statuses(Seq(Statuses({<<>>})))
  PROVE  ToPost(s) \in Posts /\ Bytes(ToPost(s).text) <= MaxPostBytes
<1> DEFINE body == IF s.reblog = <<>> THEN s ELSE s.reblog[1]
           A == [type : Text, description : Text]
           mark == <<"R", "T", " ", "@">>
           colon == <<":", " ">>
           prefix == IF s.reblog = <<>> THEN <<>> ELSE mark \o body.acct \o colon
           each == [i \in DOMAIN body.media |-> Media(body.media[i])]
           media == FlattenSeq(each)
           whole == TrimSpace(prefix \o body.content \o media)
           name == IF TrimSpace(s.name) = <<>> THEN s.acct ELSE s.name
<1>1. s.name \in Text /\ s.acct \in Text /\ s.age \in Text
      /\ s.content \in Text /\ s.media \in Seq(A)
      /\ s.reblog \in Seq(Statuses({<<>>}))
  <2> DEFINE boosts == Seq(Statuses({<<>>}))
  <2>1. s \in Statuses(boosts)
    OBVIOUS
  <2> HIDE DEF boosts, A
  <2>2. s.name \in Text /\ s.acct \in Text /\ s.age \in Text
        /\ s.content \in Text /\ s.media \in Seq(A) /\ s.reblog \in boosts
    BY <2>1 DEF Statuses, A
  <2> QED
    BY <2>2 DEF boosts
<1>2. body.acct \in Text /\ body.content \in Text /\ body.media \in Seq(A)
  <2>1. CASE s.reblog = <<>>
    BY <1>1, <2>1, Zenon
  <2>2. CASE s.reblog # <<>>
    <3> DEFINE S == Statuses({<<>>})
               boosts == s.reblog
    <3>1. boosts \in Seq(S) /\ boosts # <<>>
      BY <1>1, <2>2
    <3> HIDE DEF S, boosts
    <3>2. boosts[1] \in S
      BY <3>1
    <3> HIDE DEF A
    <3>3. \A b \in S : b.acct \in Text /\ b.content \in Text /\ b.media \in Seq(A)
      BY DEF S, Statuses, A
    <3>4. body = boosts[1]
      BY <2>2, Zenon DEF boosts
    <3> QED
      BY <3>2, <3>3, <3>4
  <2> QED
    BY <2>1, <2>2
<1>3. " " \in Rune /\ ":" \in Rune /\ "R" \in Rune /\ "T" \in Rune /\ "@" \in Rune
  BY Alphabet, Zenon DEF Gap
<1>4. mark \in Text /\ colon \in Text
  BY <1>3, ShortTexts, FourRunes, Zenon
<1>5. each \in Seq(Text)
  <2> HIDE DEF body, A
  <2>1. \A i \in DOMAIN body.media : body.media[i] \in A
    <3> DEFINE all == body.media
    <3>1. all \in Seq(A)
      BY <1>2
    <3> HIDE DEF all
    <3>2. \A i \in DOMAIN all : all[i] \in A
      BY <3>1
    <3> QED
      BY <3>2 DEF all
  <2>2. \A i \in DOMAIN body.media : Media(body.media[i]) \in Text
    BY <2>1, MediaIs DEF A
  <2>3. DOMAIN body.media = 1 .. Len(body.media) /\ Len(body.media) \in Nat
    BY <1>2
  <2>4. each \in [1 .. Len(body.media) -> Text]
    BY <2>2, <2>3
  <2> HIDE DEF each
  <2> QED
    BY <2>3, <2>4
<1>6. media \in Text
  <2> HIDE DEF each
  <2> QED
    BY <1>5, FlattenIsText DEF Text
<1>7. prefix \in Text
  <2> HIDE DEF mark, colon, body
  <2>1. mark \o body.acct \in Text
    BY <1>2, <1>4, TextsJoin
  <2>2. mark \o body.acct \o colon \in Text
    BY <1>4, <2>1, TextsJoin, Zenon
  <2>3. <<>> \in Text
    BY DEF Text
  <2> QED
    BY <2>2, <2>3
<1> HIDE DEF prefix, media, body
<1>8. whole \in Text /\ Legible(whole)
  <2>1. prefix \o body.content \in Text
    BY <1>2, <1>7, TextsJoin
  <2>2. prefix \o body.content \o media \in Text
    BY <1>6, <2>1, TextsJoin, Zenon
  <2> QED
    BY <2>2, TrimSpaceIs DEF Text
<1> HIDE DEF whole
<1>9. TrimSpace(name) \in Text
  <2>1. name \in Text
    BY <1>1
  <2> HIDE DEF name
  <2> QED
    BY <2>1, TrimSpaceIs DEF Text
<1>10. /\ CapBytes(whole, MaxPostBytes) \in Text /\ Legible(CapBytes(whole, MaxPostBytes))
       /\ Bytes(CapBytes(whole, MaxPostBytes)) <= MaxPostBytes
  BY <1>8, Sizes, CapBytesIs
<1>11. ToPost(s) = [author |-> TrimSpace(name), text |-> CapBytes(whole, MaxPostBytes),
                    when |-> s.age]
  BY Zenon DEF ToPost, name, whole, prefix, media, body
<1> HIDE DEF name
<1>12. ToPost(s) \in Posts /\ ToPost(s).text = CapBytes(whole, MaxPostBytes)
  BY <1>1, <1>9, <1>10, <1>11 DEF Posts
<1> QED
  BY <1>10, <1>12

----------------------------------------------------------------------------
(* Numbers *)

LEMMA DigitsAre ==
  /\ \A n \in 0 .. 9 : Digits[n + 1] \in Rune \ Breaks /\ Digits[n + 1] \in ToSet(Digits)
  /\ ToSet(Digits) \cap Spaces = {} /\ ToSet(Digits) \subseteq Rune
  /\ {"0", "1", "2"} \subseteq ToSet(Digits)
<1>1. ToSet(Digits) \cap Spaces = {} /\ Breaks \subseteq Spaces
  BY FediverseAssumption, Alphabets, Zenon
<1>2. DOMAIN Digits = 1 .. 10 /\ Digits[1] = "0" /\ Digits[2] = "1" /\ Digits[3] = "2"
  BY DEF Digits
<1> HIDE DEF Digits
<1>3. \A n \in 0 .. 9 : n + 1 \in 1 .. 10
  OBVIOUS
<1>4. \A n \in 1 .. 10 : Digits[n] \in ToSet(Digits)
  BY <1>2, Zenon DEF ToSet
<1>5. {"0", "1", "2"} \subseteq ToSet(Digits)
  <2>1. 1 \in 1 .. 10 /\ 2 \in 1 .. 10 /\ 3 \in 1 .. 10
    OBVIOUS
  <2> QED
    BY <1>2, <1>4, <2>1, Zenon
<1>6. ToSet(Digits) \subseteq Rune
  <2>1. ToSet(Digits) \subseteq Marks
    BY Zenon DEF Marks
  <2> QED
    BY <2>1, Alphabet, Zenon
<1>7. \A n \in 0 .. 9 : Digits[n + 1] \in ToSet(Digits)
  BY <1>3, <1>4
<1> QED
  BY <1>1, <1>5, <1>6, <1>7, Zenon

Plus == "+"

Numeral == ToSet(Digits)

LEMMA DigitsDiffer ==
  /\ \A k \in 0 .. 9 : Digits[k + 1] \in Numeral
  /\ \A r \in Numeral : \E k \in 0 .. 9 : r = Digits[k + 1]
  /\ \A k, m \in 0 .. 9 : Digits[k + 1] = Digits[m + 1] => k = m
<1>1. DOMAIN Digits = 1 .. 10
  BY DEF Digits
<1>2. \A k \in 0 .. 9 : k + 1 \in 1 .. 10
  OBVIOUS
<1>3. \A k \in 0 .. 9 : Digits[k + 1] \in Numeral
  BY <1>1, <1>2, Zenon DEF Numeral, ToSet
<1>4. \A r \in Numeral : \E i \in 1 .. 10 : r = Digits[i]
  BY <1>1, Zenon DEF Numeral, ToSet
<1>5. \A i \in 1 .. 10 : i - 1 \in 0 .. 9 /\ i = (i - 1) + 1
  OBVIOUS
<1>6. \A r \in Numeral : \E k \in 0 .. 9 : r = Digits[k + 1]
  BY <1>4, <1>5
<1>7. \A i, j \in 1 .. 10 : Digits[i] = Digits[j] => i = j
  BY DEF Digits
<1>8. \A k, m \in 0 .. 9 : Digits[k + 1] = Digits[m + 1] => k = m
  BY <1>2, <1>7
<1> QED
  BY <1>3, <1>6, <1>8

\* A rune longer for each tenth.
Writes(f, n) ==
  /\ f \in [0 .. n -> Seq(Numeral)]
  /\ \A k \in 0 .. n :
       f[k] = IF k < 10 THEN <<Digits[k + 1]>> ELSE Append(f[k \div 10], Digits[(k % 10) + 1])

LEMMA Tenth ==
  ASSUME NEW k \in Nat
  PROVE  /\ k \div 10 \in Nat /\ k % 10 \in 0 .. 9 /\ k = 10 * (k \div 10) + (k % 10)
         /\ k >= 10 => k \div 10 < k /\ k \div 10 >= 1
OBVIOUS

LEMMA WritingsAgree ==
  ASSUME NEW n \in Nat, NEW m \in Nat, NEW f, NEW g, Writes(f, n), Writes(g, m)
  PROVE  \A k \in 0 .. n : k <= m => f[k] = g[k]
<1> DEFINE D == 0 .. n
           id == [k \in D |-> k]
           S == {k \in D : k <= m => f[k] = g[k]}
<1>1. ASSUME NEW k \in D, \A e \in D : id[e] < id[k] => e \in S PROVE k \in S
  <2> SUFFICES ASSUME k <= m PROVE f[k] = g[k]
    OBVIOUS
  <2>1. k \in 0 .. n /\ k \in 0 .. m /\ k \in Nat
    OBVIOUS
  <2>2. CASE k < 10
    <3>1. f[k] = <<Digits[k + 1]>>
      BY <2>1, <2>2, Zenon DEF Writes
    <3>2. g[k] = <<Digits[k + 1]>>
      BY <2>1, <2>2, Zenon DEF Writes
    <3> QED
      BY <3>1, <3>2, Zenon
  <2>3. CASE ~(k < 10)
    <3> DEFINE e == k \div 10
    <3>1. e \in Nat /\ e < k
      BY <2>1, <2>3, Tenth
    <3>2. e \in D /\ id[e] < id[k] /\ e <= m
      BY <2>1, <3>1
    <3>3. f[e] = g[e]
      BY <1>1, <3>2
    <3> QED
      BY <2>1, <2>3, <3>3 DEF Writes
  <2> QED
    BY <2>2, <2>3
<1>2. id \in [D -> Nat]
  OBVIOUS
<1> HIDE DEF id, D, S
<1>3. D \subseteq S
  BY <1>1, <1>2, MeasureInduction
<1> QED
  BY <1>3 DEF D, S

LEMMA WritingIs ==
  ASSUME NEW n \in Nat
  PROVE  \E f : Writes(f, n) /\ Decimal(n) = f[n]
<1> DEFINE D == 0 .. n
           V == Seq(Numeral)
           id == [k \in D |-> k]
           bound == n + 1
           G == [x \in D \X [D -> V] |->
                   IF x[1] < 10 THEN <<Digits[x[1] + 1]>>
                   ELSE Append(x[2][x[1] \div 10], Digits[(x[1] % 10) + 1])]
           Defined(h) == h = [k \in 0 .. n |->
             IF k < 10 THEN <<Digits[k + 1]>> ELSE Append(h[k \div 10], Digits[(k % 10) + 1])]
<1>1. \A k \in D : k \in Nat /\ (k >= 10 => k \div 10 \in D /\ k \div 10 < k)
  BY Tenth
<1>2. \A k \in D : k >= 10 => k % 10 \in 0 .. 9
  BY Tenth
<1>3. ASSUME NEW k \in D, NEW f \in [D -> V]
      PROVE  (IF k < 10 THEN <<Digits[k + 1]>> ELSE Append(f[k \div 10], Digits[(k % 10) + 1])) \in V
  <2>1. CASE k < 10
    <3>1. k \in 0 .. 9
      BY <1>1, <2>1
    <3>2. Digits[k + 1] \in Numeral
      BY <3>1, DigitsDiffer, Zenon
    <3> QED
      BY <2>1, <3>2
  <2>2. CASE ~(k < 10)
    <3>1. k \div 10 \in D /\ k % 10 \in 0 .. 9
      BY <1>1, <1>2, <2>2
    <3>2. f[k \div 10] \in V /\ Digits[(k % 10) + 1] \in Numeral
      BY <3>1, DigitsDiffer
    <3> QED
      BY <2>2, <3>2
  <2> QED
    BY <2>1, <2>2
<1>4. V # {} /\ bound \in Nat /\ id \in [D -> Nat] /\ \A k \in D : id[k] < bound
  <2>1. <<>> \in V
    OBVIOUS
  <2>2. V # {}
    BY <2>1, Zenon
  <2> HIDE DEF V
  <2> QED
    BY <2>2
<1>5. \A k \in D : id[k] = k
  OBVIOUS
<1> HIDE DEF D, V, id, bound
<1>6. G \in [D \X [D -> V] -> V]
  BY <1>3
<1>7. \A k \in D : \A f \in [D -> V] :
        G[<<k, f>>] = IF k < 10 THEN <<Digits[k + 1]>>
                      ELSE Append(f[k \div 10], Digits[(k % 10) + 1])
  OBVIOUS
<1> HIDE DEF G
<1>8. ASSUME NEW k \in D, NEW f \in [D -> V], NEW g \in [D -> V],
             \A e \in D : id[e] < id[k] => f[e] = g[e]
      PROVE  G[<<k, f>>] = G[<<k, g>>]
  <2>1. k >= 10 => f[k \div 10] = g[k \div 10]
    BY <1>1, <1>5, <1>8
  <2>2. CASE k < 10
    <3>1. G[<<k, f>>] = <<Digits[k + 1]>>
      BY <1>7, <2>2, Zenon
    <3>2. G[<<k, g>>] = <<Digits[k + 1]>>
      BY <1>7, <2>2, Zenon
    <3> QED
      BY <3>1, <3>2, Zenon
  <2>3. CASE ~(k < 10)
    <3>1. f[k \div 10] = g[k \div 10]
      BY <1>1, <2>1, <2>3
    <3> QED
      BY <1>7, <2>3, <3>1, Zenon
  <2> QED
    BY <2>2, <2>3
<1>9. IsRecursion(D, V, id, bound, G)
  BY <1>4, <1>6, <1>8, Zenon DEF IsRecursion
<1>10. PICK f \in [D -> V] : \A k \in D : f[k] = G[<<k, f>>]
  BY <1>9, RecursionIsSound
<1>11. Defined(f)
  <2>1. f = [k \in D |-> f[k]]
    BY <1>10
  <2> QED
    BY <1>7, <1>10, <2>1, Zenon DEF D
<1>12. (\E h : Defined(h)) => \E h : Defined(h) /\ Decimal(n) = h[n]
  BY Zenon DEF Decimal, Defined
<1>13. PICK h : Defined(h) /\ Decimal(n) = h[n]
  BY <1>11, <1>12, Zenon
<1>14. \A k \in D : h[k] = IF k < 10 THEN <<Digits[k + 1]>>
                           ELSE Append(h[k \div 10], Digits[(k % 10) + 1])
  BY <1>13 DEF D
<1>15. h = [k \in D |-> h[k]]
  BY <1>13, Zenon DEF D
<1> DEFINE S == {k \in D : h[k] = f[k]}
<1>16. ASSUME NEW k \in D, \A e \in D : id[e] < id[k] => e \in S PROVE k \in S
  <2>1. k >= 10 => h[k \div 10] = f[k \div 10]
    BY <1>1, <1>5, <1>16
  <2>2. f[k] = IF k < 10 THEN <<Digits[k + 1]>> ELSE Append(f[k \div 10], Digits[(k % 10) + 1])
    BY <1>7, <1>10
  <2>3. h[k] = f[k]
    BY <1>1, <1>14, <2>1, <2>2
  <2> QED
    BY <2>3
<1>17. D \subseteq S
  <2> HIDE DEF S
  <2> QED
    BY <1>4, <1>16, MeasureInduction
<1>18. h \in [D -> V]
  BY <1>10, <1>15, <1>17
<1> QED
  BY <1>13, <1>14, <1>18, Zenon DEF Writes, D, V

\* A number is written as its tenth and one digit more.
LEMMA DecimalUp ==
  ASSUME NEW n \in Nat
  PROVE  Decimal(n) = IF n < 10 THEN <<Digits[n + 1]>>
                      ELSE Append(Decimal(n \div 10), Digits[(n % 10) + 1])
<1>1. PICK f : Writes(f, n) /\ Decimal(n) = f[n]
  BY WritingIs
<1>2. n \in 0 .. n
  OBVIOUS
<1>3. f[n] = IF n < 10 THEN <<Digits[n + 1]>> ELSE Append(f[n \div 10], Digits[(n % 10) + 1])
  BY <1>1, <1>2 DEF Writes
<1>4. ASSUME ~(n < 10) PROVE f[n \div 10] = Decimal(n \div 10)
  <2> DEFINE m == n \div 10
  <2>1. m \in Nat /\ m < n
    BY <1>4, Tenth
  <2> HIDE DEF m
  <2>2. PICK g : Writes(g, m) /\ Decimal(m) = g[m]
    BY <2>1, WritingIs
  <2>3. m \in 0 .. n /\ m <= m
    BY <2>1
  <2> QED
    BY <1>1, <2>1, <2>2, <2>3, WritingsAgree DEF m
<1> QED
  BY <1>1, <1>3, <1>4

LEMMA DecimalIsDigits ==
  ASSUME NEW n \in Nat
  PROVE  Decimal(n) \in Seq(Numeral) /\ Len(Decimal(n)) \in Nat /\ Len(Decimal(n)) >= 1
<1> DEFINE Good(k) == Decimal(k) \in Seq(Numeral) /\ Len(Decimal(k)) >= 1
           id == [k \in Nat |-> k]
           S == {k \in Nat : Good(k)}
<1>1. ASSUME NEW k \in Nat, \A e \in Nat : id[e] < id[k] => e \in S PROVE k \in S
  <2>1. CASE k < 10
    <3> DEFINE r == Digits[k + 1]
    <3>3. k \in 0 .. 9
      BY <2>1
    <3>1. Decimal(k) = <<r>> /\ r \in Numeral
      BY <2>1, <3>3, DecimalUp, DigitsDiffer, Zenon
    <3> HIDE DEF r
    <3>2. <<r>> \in Seq(Numeral) /\ Len(<<r>>) >= 1
      BY <3>1
    <3> QED
      BY <3>1, <3>2
  <2>2. CASE ~(k < 10)
    <3> DEFINE r == Digits[(k % 10) + 1]
               m == k \div 10
               before == Decimal(m)
    <3>1. m \in Nat /\ m < k /\ k % 10 \in 0 .. 9
      BY <2>2, Tenth
    <3>2. Decimal(k) = Append(before, r) /\ r \in Numeral
      BY <2>2, <3>1, DecimalUp, DigitsDiffer
    <3>3. before \in Seq(Numeral)
      BY <1>1, <3>1
    <3> HIDE DEF r, before
    <3>4. Append(before, r) \in Seq(Numeral) /\ Len(Append(before, r)) >= 1
      BY <3>2, <3>3
    <3> QED
      BY <3>2, <3>4
  <2> QED
    BY <2>1, <2>2
<1>2. id \in [Nat -> Nat]
  OBVIOUS
<1> HIDE DEF id, S
<1>3. Nat \subseteq S
  BY <1>1, <1>2, MeasureInduction
<1> QED
  BY <1>3 DEF S

\* A larger number is no shorter.
LEMMA LongerDecimal ==
  ASSUME NEW n \in Nat, NEW m \in 0 .. n
  PROVE  Len(Decimal(m)) <= Len(Decimal(n))
<1> DEFINE L(k) == Len(Decimal(k))
           Good(k) == \A j \in 0 .. k : L(j) <= L(k)
           id == [k \in Nat |-> k]
           S == {k \in Nat : Good(k)}
<1>1. \A k \in Nat : L(k) \in Nat /\ L(k) >= 1
  BY DecimalIsDigits
<1>2. \A k \in Nat : k < 10 => L(k) = 1
  BY DecimalUp
<1>3. ASSUME NEW k \in Nat, ~(k < 10) PROVE L(k) = L(k \div 10) + 1
  <2> DEFINE r == Digits[(k % 10) + 1]
             before == Decimal(k \div 10)
  <2>1. Decimal(k) = Append(before, r)
    BY <1>3, DecimalUp
  <2>2. before \in Seq(Numeral) /\ r \in Numeral
    BY Tenth, DecimalIsDigits, DigitsDiffer
  <2> HIDE DEF before, r
  <2> QED
    BY <2>1, <2>2 DEF before
<1> HIDE DEF L
<1>4. ASSUME NEW k \in Nat, \A e \in Nat : id[e] < id[k] => e \in S PROVE k \in S
  <2> SUFFICES ASSUME NEW j \in 0 .. k PROVE L(j) <= L(k)
    OBVIOUS
  <2>1. CASE j < 10
    BY <1>1, <1>2, <2>1
  <2>2. CASE ~(j < 10)
    <3>1. /\ k \div 10 \in Nat /\ k \div 10 < k /\ j \div 10 \in 0 .. k \div 10
          /\ ~(k < 10) /\ j \in Nat
      BY <2>2
    <3>2. L(j \div 10) <= L(k \div 10)
      BY <1>4, <3>1
    <3>3. L(j) = L(j \div 10) + 1 /\ L(k) = L(k \div 10) + 1
      BY <1>3, <2>2, <3>1
    <3>4. L(j \div 10) \in Nat /\ L(k \div 10) \in Nat
      BY <1>1, <3>1
    <3> QED
      BY <3>2, <3>3, <3>4
  <2> QED
    BY <2>1, <2>2
<1>5. id \in [Nat -> Nat]
  OBVIOUS
<1> HIDE DEF id, S
<1>6. Nat \subseteq S
  BY <1>4, <1>5, MeasureInduction
<1> QED
  BY <1>6 DEF S, L

LEMMA PlusIsNoDigit == Plus \notin Numeral
<1>1. \A n \in 1 .. 10 : Digits[n] # Plus
  BY DEF Digits, Plus
<1>2. DOMAIN Digits = 1 .. 10
  BY DEF Digits
<1> QED
  BY <1>1, <1>2, Zenon DEF Numeral, ToSet

\* The number a text of digits is read as, rune by rune.
DigitOf(r) == CHOOSE k \in 0 .. 9 : r = Digits[k + 1]

Values(v, ds) ==
  /\ v \in [0 .. Len(ds) -> Nat] /\ v[0] = 0
  /\ \A n \in 1 .. Len(ds) : v[n] = 10 * v[n - 1] + DigitOf(ds[n])

LEMMA DigitOfIs ==
  /\ \A k \in 0 .. 9 : DigitOf(Digits[k + 1]) = k
  /\ \A r \in Numeral : DigitOf(r) \in 0 .. 9
<1>1. ASSUME NEW r, NEW k \in 0 .. 9, r = Digits[k + 1] PROVE DigitOf(r) = k
  <2>1. DigitOf(r) \in 0 .. 9 /\ r = Digits[DigitOf(r) + 1]
    BY <1>1, Zenon DEF DigitOf
  <2> QED
    BY <1>1, <2>1, DigitsDiffer, Zenon
<1>2. ASSUME NEW r \in Numeral PROVE DigitOf(r) \in 0 .. 9
  <2>1. PICK k \in 0 .. 9 : r = Digits[k + 1]
    BY DigitsDiffer
  <2>2. DigitOf(r) = k
    BY <1>1, <2>1
  <2> QED
    BY <2>2
<1> QED
  BY <1>1, <1>2, Zenon

LEMMA NumberReads ==
  ASSUME NEW ds \in Seq(Numeral), ds # <<>>
  PROVE  \E v : Values(v, ds) /\ Number(ds) = v[Len(ds)]
<1> DEFINE N == Len(ds)
           step == [x \in (1 .. N) \X Nat |-> 10 * x[2] + DigitOf(ds[x[1]])]
           Defined(h) == h = [n \in 0 .. Len(ds) |->
             IF n = 0 THEN 0
             ELSE 10 * h[n - 1] + (CHOOSE k \in 0 .. 9 : ds[n] = Digits[k + 1])]
<1>1. N \in Nat /\ N >= 1 /\ DOMAIN ds = 1 .. N /\ \A n \in 1 .. N : ds[n] \in Numeral
  OBVIOUS
<1>2. \A n \in 1 .. N : DigitOf(ds[n]) \in Nat
  BY <1>1, DigitOfIs
<1>3. TrimSpace(ds) = ds
  <2>1. Numeral \cap Spaces = {} /\ 1 \in 1 .. N /\ N \in 1 .. N
    BY <1>1, DigitsAre DEF Numeral
  <2>2. ds[1] \notin Spaces /\ ds[N] \notin Spaces
    BY <1>1, <2>1
  <2> QED
    BY <2>2, TrimSpaceIs
<1>4. ds[1] # Plus
  <2>1. Plus \notin Numeral
    BY PlusIsNoDigit
  <2>2. 1 \in 1 .. N
    BY <1>1
  <2> QED
    BY <1>1, <2>1, <2>2
<1>5. ToSet(ds) \subseteq ToSet(Digits)
  BY <1>1, Zenon DEF ToSet, Numeral
<1> HIDE DEF N
<1>6. step \in [(1 .. N) \X Nat -> Nat]
  BY <1>2
<1>7. \A n \in 1 .. N : \A m \in Nat : step[<<n, m>>] = 10 * m + DigitOf(ds[n])
  OBVIOUS
<1> HIDE DEF step
<1>8. PICK f : IsPrimitive(f, N, Nat, 0, step)
  BY <1>1, <1>6, PrimitiveRecursion
<1>9. f \in [0 .. N -> Nat] /\ f[0] = 0
      /\ \A n \in 1 .. N : f[n] = 10 * f[n - 1] + DigitOf(ds[n])
  <2>1. ASSUME NEW n \in 1 .. N PROVE f[n - 1] \in Nat
    <3>1. n - 1 \in 0 .. N
      BY <1>1
    <3> QED
      BY <1>8, <3>1 DEF IsPrimitive
  <2> QED
    BY <1>7, <1>8, <2>1 DEF IsPrimitive
<1>10. Defined(f)
  <2>1. f = [n \in 0 .. N |-> f[n]]
    BY <1>9
  <2>2. \A n \in 0 .. N : n # 0 => n \in 1 .. N
    BY <1>1
  <2>3. \A n \in 0 .. N : f[n] = IF n = 0 THEN 0 ELSE 10 * f[n - 1] + DigitOf(ds[n])
    BY <1>9, <2>2
  <2> QED
    BY <2>1, <2>3, Zenon DEF N, DigitOf
<1> DEFINE kept == TrimSpace(ds)
           digits == IF kept # <<>> /\ kept[1] = Plus THEN Tail(kept) ELSE kept
           Of(h, w) == h = [n \in 0 .. Len(w) |->
             IF n = 0 THEN 0
             ELSE 10 * h[n - 1] + (CHOOSE k \in 0 .. 9 : w[n] = Digits[k + 1])]
<1>19. digits = ds
  BY <1>3, <1>4, Zenon
<1>20. ToSet(digits) \subseteq ToSet(Digits) /\ (\E h : Of(h, digits))
       => \E h : Of(h, digits) /\ Number(ds) = h[Len(digits)]
  BY Zenon DEF Number, Plus
<1>21. \A h : Defined(h) <=> Of(h, ds)
  OBVIOUS
<1> HIDE DEF digits, Of, Defined
<1>11. (\E h : Defined(h)) => \E h : Defined(h) /\ Number(ds) = h[Len(ds)]
  BY <1>5, <1>19, <1>20, <1>21, Zenon
<1> USE DEF Defined
<1>12. PICK h : Defined(h) /\ Number(ds) = h[N]
  BY <1>10, <1>11, Zenon DEF N
<1>13. h = [n \in 0 .. N |-> h[n]]
       /\ \A n \in 0 .. N : h[n] = IF n = 0 THEN 0 ELSE 10 * h[n - 1] + DigitOf(ds[n])
  BY <1>12, Zenon DEF N, DigitOf
<1> DEFINE S == {n \in 0 .. N : h[n] = f[n]}
<1>14. 0 \in S
  <2>1. 0 \in 0 .. N
    BY <1>1
  <2>2. h[0] = f[0]
    BY <1>9, <1>13, <2>1, Zenon
  <2> QED
    BY <2>1, <2>2
<1>15. ASSUME NEW n \in 0 .. N, n \in S, n < N PROVE n + 1 \in S
  <2>1. n + 1 \in 0 .. N /\ n + 1 \in 1 .. N /\ (n + 1) - 1 = n /\ n + 1 # 0
    BY <1>1, <1>15
  <2>2. h[n + 1] = 10 * h[n] + DigitOf(ds[n + 1]) /\ f[n + 1] = 10 * f[n] + DigitOf(ds[n + 1])
    BY <1>9, <1>13, <2>1
  <2> QED
    BY <1>15, <2>1, <2>2
<1>16. \A n \in 0 .. N : h[n] = f[n]
  <2> HIDE DEF S
  <2>1. \A n \in 0 .. N : n \in S
    BY <1>1, <1>14, <1>15, InductionTo
  <2> QED
    BY <2>1 DEF S
<1>17. N \in 0 .. N
  BY <1>1
<1>18. Values(f, ds)
  BY <1>9 DEF Values, N
<1> QED
  BY <1>12, <1>16, <1>17, <1>18, Zenon DEF N

LEMMA NumberUp ==
  ASSUME NEW ds \in Seq(Numeral), ds # <<>>, NEW k \in 0 .. 9
  PROVE  Number(Append(ds, Digits[k + 1])) = 10 * Number(ds) + k
<1> DEFINE r == Digits[k + 1]
           N == Len(ds)
           es == Append(ds, r)
<1>1. r \in Numeral /\ DigitOf(r) = k
  BY DigitsDiffer, DigitOfIs
<1> HIDE DEF r
<1>2. /\ es \in Seq(Numeral) /\ Len(es) = N + 1 /\ es # <<>> /\ es[N + 1] = r
      /\ N \in Nat /\ \A n \in 1 .. N : es[n] = ds[n]
  BY <1>1
<1> HIDE DEF es, N
<1>3. PICK v : Values(v, ds) /\ Number(ds) = v[N]
  BY NumberReads DEF N
<1>4. PICK u : Values(u, es) /\ Number(es) = u[N + 1]
  BY <1>2, NumberReads
<1> DEFINE S == {n \in 0 .. N : u[n] = v[n]}
<1>5. 0 \in S
  BY <1>2, <1>3, <1>4 DEF Values
<1>6. ASSUME NEW n \in 0 .. N, n \in S, n < N PROVE n + 1 \in S
  <2>1. n + 1 \in 1 .. N /\ n + 1 \in 1 .. N + 1 /\ (n + 1) - 1 = n /\ n + 1 \in 0 .. N
    BY <1>2, <1>6
  <2>2. v[n + 1] = 10 * v[n] + DigitOf(ds[n + 1])
    BY <1>3, <2>1 DEF Values, N
  <2>3. u[n + 1] = 10 * u[n] + DigitOf(es[n + 1])
    BY <1>2, <1>4, <2>1 DEF Values
  <2>4. es[n + 1] = ds[n + 1] /\ u[n] = v[n]
    BY <1>2, <1>6, <2>1
  <2> QED
    BY <2>1, <2>2, <2>3, <2>4
<1>7. u[N] = v[N]
  <2> HIDE DEF S
  <2>1. \A n \in 0 .. N : n \in S
    BY <1>2, <1>5, <1>6, InductionTo
  <2>2. N \in 0 .. N
    BY <1>2
  <2> QED
    BY <2>1, <2>2 DEF S
<1>8. u[N + 1] = 10 * u[N] + DigitOf(r)
  <2>1. N + 1 \in 1 .. Len(es) /\ (N + 1) - 1 = N
    BY <1>2
  <2> QED
    BY <1>2, <1>4, <2>1 DEF Values
<1> QED
  BY <1>1, <1>3, <1>4, <1>7, <1>8 DEF es, r

\* What a number is written as is read as that number.
LEMMA NumberOfDecimal ==
  ASSUME NEW n \in Nat
  PROVE  Number(Decimal(n)) = n
<1> DEFINE id == [k \in Nat |-> k]
           S == {k \in Nat : Number(Decimal(k)) = k}
<1>1. ASSUME NEW k \in Nat, \A e \in Nat : id[e] < id[k] => e \in S PROVE k \in S
  <2>1. CASE k < 10
    <3> DEFINE r == Digits[k + 1]
               ds == <<r>>
    <3>1. k \in 0 .. 9
      BY <2>1
    <3>2. Decimal(k) = ds /\ r \in Numeral /\ DigitOf(r) = k
      BY <2>1, <3>1, DecimalUp, DigitsDiffer, DigitOfIs, Zenon
    <3> HIDE DEF r
    <3>3. ds \in Seq(Numeral) /\ Len(ds) = 1 /\ ds # <<>> /\ ds[1] = r
      BY <3>2
    <3> HIDE DEF ds
    <3>4. PICK v : Values(v, ds) /\ Number(ds) = v[Len(ds)]
      BY <3>3, NumberReads
    <3>5. v[1] = 10 * v[0] + DigitOf(ds[1]) /\ v[0] = 0
      BY <3>3, <3>4 DEF Values
    <3>6. Number(ds) = k
      BY <3>1, <3>2, <3>3, <3>4, <3>5
    <3> QED
      BY <3>2, <3>6
  <2>2. CASE ~(k < 10)
    <3> DEFINE m == k \div 10
               j == k % 10
               ds == Decimal(m)
    <3>1. m \in Nat /\ m < k /\ j \in 0 .. 9 /\ k = 10 * m + j
      BY <2>2, Tenth
    <3>2. Decimal(k) = Append(ds, Digits[j + 1])
      BY <2>2, DecimalUp
    <3> HIDE DEF m, j
    <3>3. ds \in Seq(Numeral) /\ ds # <<>>
      BY <3>1, DecimalIsDigits
    <3>4. Number(ds) = m
      BY <1>1, <3>1
    <3> HIDE DEF ds
    <3>5. Number(Append(ds, Digits[j + 1])) = 10 * m + j
      BY <3>1, <3>3, <3>4, NumberUp
    <3> QED
      BY <3>1, <3>2, <3>5
  <2> QED
    BY <2>1, <2>2
<1>2. id \in [Nat -> Nat]
  OBVIOUS
<1> HIDE DEF id, S
<1>3. Nat \subseteq S
  BY <1>1, <1>2, MeasureInduction
<1> QED
  BY <1>3 DEF S

LEMMA DecimalIs ==
  ASSUME NEW n \in Nat
  PROVE  /\ Decimal(n) \in Text /\ Decimal(n) \in Seq(Basic)
         /\ Decimal(n) \in Seq(Rune \ Breaks) \ {<<>>}
         /\ Len(Decimal(n)) \in Nat /\ Len(Decimal(n)) >= 1
<1> DEFINE ds == Decimal(n)
<1>1. ds \in Seq(Numeral) /\ Len(ds) \in Nat /\ Len(ds) >= 1
  BY DecimalIsDigits
<1>2. Numeral \subseteq Rune /\ Numeral \subseteq Rune \ Breaks
  BY DigitsAre, Alphabets, Zenon DEF Numeral
<1>3. Numeral \subseteq Basic
  BY Alphabet, Zenon DEF Numeral, Marks
<1> HIDE DEF ds
<1>4. \A R : Numeral \subseteq R => ds \in Seq(R)
  BY <1>1
<1>5. ds # <<>>
  BY <1>1
<1> QED
  BY <1>1, <1>2, <1>3, <1>4, <1>5 DEF ds, Text

----------------------------------------------------------------------------
(* Screens *)

LEMMA LabelIsText ==
  ASSUME NEW s \in Text, NEW limit \in Nat, NEW fallback \in Text
  PROVE  Label(s, limit, fallback) \in Text
<1> DEFINE gsm == ToGSM(s)
           line == OneLine(gsm)
           out == TrimSpace(line)
           some == IF Len(out) < 2 THEN fallback ELSE out
<1>1. gsm \in Text
  <2>1. gsm \in Seq(Basic \cup Extended)
    BY ToGSMIs DEF Text
  <2>2. Basic \cup Extended \subseteq Rune
    BY Alphabet
  <2> HIDE DEF gsm
  <2> QED
    BY <2>1, <2>2 DEF Text
<1> HIDE DEF gsm
<1>2. line \in Text
  BY <1>1, Alphabet, JoinFieldsIsText DEF OneLine, Text
<1> HIDE DEF line
<1>3. out \in Text
  BY <1>2, TrimSpaceIs DEF Text
<1>4. some \in Text
  BY <1>3, Zenon
<1>5. Label(s, limit, fallback) = Truncate(some, limit)
  BY Zenon DEF Label, some, out, line, gsm
<1> HIDE DEF some
<1>6. Truncate(some, limit) \in Text
  BY <1>4, Alphabet, TruncateIsText DEF Text
<1> QED
  BY <1>5, <1>6

LEMMA JoiningIsText ==
  ASSUME NEW texts \in Seq(Text), NEW sep \in Text
  PROVE  Joining(texts, sep) \in Text
<1> DEFINE each == [i \in DOMAIN texts |-> IF i = 1 THEN texts[1] ELSE sep \o texts[i]]
<1>1. \A i \in DOMAIN texts : texts[i] \in Text
  OBVIOUS
<1>2. \A i \in DOMAIN texts : sep \o texts[i] \in Text
  BY <1>1, TextsJoin
<1>3. each \in [1 .. Len(texts) -> Text] /\ Len(texts) \in Nat
  BY <1>1, <1>2
<1> HIDE DEF each
<1>4. each \in Seq(Text)
  BY <1>3
<1>5. FlattenSeq(each) \in Text
  BY <1>4, FlattenIsText DEF Text
<1> QED
  BY <1>5, Zenon DEF Joining, each

LEMMA NavIsText ==
  ASSUME NEW keys \in Seq(Words)
  PROVE  Nav(keys) \in Text
<1> DEFINE words == [i \in DOMAIN keys |-> T[keys[i]]]
           gap == <<" ">>
           line == Joining(words, gap)
<1>1. \A i \in DOMAIN keys : T[keys[i]] \in Text
  <2>1. \A i \in DOMAIN keys : keys[i] \in Words
    OBVIOUS
  <2> QED
    BY <2>1, WordsAreTexts
<1>2. words \in [1 .. Len(keys) -> Text] /\ Len(keys) \in Nat
  BY <1>1
<1>3. gap \in Text
  BY Alphabet, ShortTexts, Zenon DEF Gap
<1> HIDE DEF words, gap
<1>4. words \in Seq(Text)
  BY <1>2
<1>5. line \in Text
  BY <1>3, <1>4, JoiningIsText
<1>6. Nav(keys) = ToGSM(line)
  BY Zenon DEF Nav, words, gap
<1> HIDE DEF line
<1> DEFINE gsm == ToGSM(line)
<1>7. gsm \in Seq(Basic \cup Extended)
  BY <1>5, ToGSMIs DEF Text
<1>8. Basic \cup Extended \subseteq Rune
  BY Alphabet
<1> HIDE DEF gsm
<1>9. gsm \in Text
  BY <1>7, <1>8 DEF Text
<1> QED
  BY <1>6, <1>9 DEF gsm

Controls == <<"nav.next", "nav.prev", "nav.back">>

LEMMA ControlsAre ==
  Controls \in Seq(Words)
<1>1. "nav.next" \in Words /\ "nav.prev" \in Words /\ "nav.back" \in Words
  BY Zenon DEF Words
<1> QED
  BY <1>1 DEF Controls

LEMMA HeaderIsText ==
  ASSUME NEW post \in Posts, NEW page \in Nat, NEW pages \in Nat
  PROVE  PostHeader(post, page, pages) \in Text
<1> DEFINE name == Label(post.author, MaxHeaderLen, T["post"])
           open == <<" ", "(">>
           slash == <<"/">>
           close == <<")">>
           count == IF pages > 1
                    THEN open \o Decimal(page) \o slash \o Decimal(pages) \o close
                    ELSE <<>>
<1>1. name \in Text
  <2>1. post.author \in Text
    BY DEF Posts
  <2>2. T["post"] \in Text
    BY WordsAreTexts, Zenon DEF Words
  <2> QED
    BY <2>1, <2>2, Sizes, LabelIsText
<1>2. " " \in Rune /\ "(" \in Rune /\ "/" \in Rune /\ ")" \in Rune
  BY Alphabet, Zenon DEF Gap
<1>3. open \in Text /\ slash \in Text /\ close \in Text
  BY <1>2, ShortTexts, Zenon
<1>4. Decimal(page) \in Text /\ Decimal(pages) \in Text
  BY DecimalIs
<1>5. PostHeader(post, page, pages) = name \o count
  BY Zenon DEF PostHeader
<1> HIDE DEF open, slash, close, name
<1>6. open \o Decimal(page) \in Text
  BY <1>3, <1>4, TextsJoin
<1>7. open \o Decimal(page) \o slash \in Text
  BY <1>3, <1>6, TextsJoin, Zenon
<1>8. open \o Decimal(page) \o slash \o Decimal(pages) \in Text
  BY <1>4, <1>7, TextsJoin, Zenon
<1>9. open \o Decimal(page) \o slash \o Decimal(pages) \o close \in Text
  BY <1>3, <1>8, TextsJoin, Zenon
<1>10. <<>> \in Text
  BY DEF Text
<1>11. count \in Text
  BY <1>9, <1>10, Zenon
<1> HIDE DEF count
<1> QED
  BY <1>1, <1>5, <1>11, TextsJoin

LEMMA PaginateIsTexts ==
  ASSUME NEW text \in Text, NEW reserve \in Nat \ {0}
  PROVE  Paginate(text, reserve) \in Seq(Text)
<1> DEFINE runes == TrimRight(text)
<1>1. runes \in Seq(Rune) /\ Len(runes) \in Nat
  <2>1. \E n \in 0 .. Len(text) : TrimRight(text) = Take(text, n)
    BY TrimRightIs DEF Text
  <2> QED
    BY <2>1, TakeIs DEF Text
<1>2. PICK pages : /\ ArePages(pages, Rune, runes, reserve)
                   /\ Paginate(text, reserve) =
                        IF NoPageFits(text, reserve) THEN <<>> ELSE pages[0]
  BY PaginateIs DEF Text
<1> HIDE DEF runes
<1>3. pages[0] \in Seq(Text)
  BY <1>1, <1>2 DEF ArePages, Text
<1> QED
  BY <1>2, <1>3

ReserveOf(post) ==
  Len(PostHeader(post, WidestPageCounter, WidestPageCounter)) + Len(Nav(Controls)) + 2

LEMMA ReserveIs ==
  ASSUME NEW post \in Posts
  PROVE  ReserveOf(post) \in Nat \ {0}
<1>1. PostHeader(post, WidestPageCounter, WidestPageCounter) \in Text
  <2>1. WidestPageCounter \in Nat
    BY Sizes
  <2> QED
    BY <2>1, HeaderIsText
<1>2. Nav(Controls) \in Text
  BY ControlsAre, NavIsText
<1> QED
  BY <1>1, <1>2 DEF ReserveOf, Text

LEMMA PostPagesAre ==
  ASSUME NEW st, st.posts \in Seq(Posts), st.cursor \in 1 .. Len(st.posts)
  PROVE  /\ st.posts[st.cursor] \in Posts
         /\ PostPages(st) = Paginate(st.posts[st.cursor].text, ReserveOf(st.posts[st.cursor]))
         /\ PostPages(st) \in Seq(Text)
<1> DEFINE posts == st.posts
           post == posts[st.cursor]
<1>1. post \in Posts
  <2>1. posts \in Seq(Posts) /\ st.cursor \in 1 .. Len(posts)
    OBVIOUS
  <2> HIDE DEF posts
  <2> QED
    BY <2>1
<1>2. ~(st.cursor > Len(st.posts))
  OBVIOUS
<1>3. PostPages(st) = Paginate(post.text, ReserveOf(post))
  BY <1>2, Zenon DEF PostPages, ReserveOf, Controls
<1> HIDE DEF posts, post
<1>4. Paginate(post.text, ReserveOf(post)) \in Seq(Text)
  <2>1. post.text \in Seq(Rune)
    BY <1>1 DEF Posts, Text
  <2>2. ReserveOf(post) \in Nat \ {0}
    BY <1>1, ReserveIs
  <2> QED
    BY <2>1, <2>2, PaginateIsTexts DEF Text
<1> QED
  BY <1>1, <1>3, <1>4 DEF post, posts

----------------------------------------------------------------------------
(* Events *)

Star == "*"

\* What Segments makes of the n-th rune behind what it made of those before.
Splits(text, n, before) ==
  IF text[n] = Star THEN Append(before, <<>>)
  ELSE [before EXCEPT ![Len(before)] = Append(@, text[n])]

IsSplit(h, R, text) ==
  /\ h \in [0 .. Len(text) -> Seq(Seq(R))] /\ h[0] = << <<>> >>
  /\ \A n \in 1 .. Len(text) : h[n] = Splits(text, n, h[n - 1])

LEMMA SegmentsAre ==
  ASSUME NEW R, NEW text \in Seq(R)
  PROVE  \E h : IsSplit(h, R, text) /\ Segments(text) = h[Len(text)]
<1> DEFINE N == Len(text)
           V == Seq(Seq(R)) \ {<<>>}
           base == << <<>> >>
           step == [x \in (1 .. N) \X V |-> Splits(text, x[1], x[2])]
           Defined(h) == h = [n \in 0 .. Len(text) |->
             IF n = 0 THEN << <<>> >>
             ELSE IF text[n] = Star THEN Append(h[n - 1], <<>>)
             ELSE [h[n - 1] EXCEPT ![Len(h[n - 1])] = Append(@, text[n])]]
<1>1. N \in Nat /\ base \in V /\ \A n \in 1 .. N : text[n] \in R
  OBVIOUS
<1>2. ASSUME NEW n \in 1 .. N, NEW v \in V PROVE Splits(text, n, v) \in V
  <2> DEFINE r == text[n]
             P == Seq(R)
             last == v[Len(v)]
  <2>1. r \in R
    BY <1>1
  <2>2. v \in Seq(P) /\ Len(v) \in 1 .. Len(v) /\ last \in P /\ <<>> \in P
    OBVIOUS
  <2>3. Append(last, r) \in P
    <3> HIDE DEF r, last
    <3> QED
      BY <2>1, <2>2
  <2> HIDE DEF P
  <2>4. Append(v, <<>>) \in Seq(P) /\ Append(v, <<>>) # <<>>
    BY <2>2
  <2> DEFINE w == Append(last, r)
             u == [v EXCEPT ![Len(v)] = w]
  <2>5. u \in Seq(P) /\ u # <<>>
    <3> HIDE DEF w, last, r
    <3>1. w \in P
      BY <2>3 DEF w
    <3>2. Len(v) \in Nat /\ v \in [1 .. Len(v) -> P]
      BY <2>2
    <3>3. u \in [1 .. Len(v) -> P] /\ 1 .. Len(v) # {}
      BY <2>2, <3>1, <3>2
    <3> DEFINE m == Len(v)
    <3>4. m \in Nat /\ m # 0 /\ u \in [1 .. m -> P]
      BY <2>2, <3>2, <3>3
    <3> HIDE DEF u, m
    <3>5. u \in Seq(P) /\ Len(u) = m
      BY <3>4
    <3> QED
      BY <3>4, <3>5
  <2>6. Splits(text, n, v) = IF r = Star THEN Append(v, <<>>) ELSE u
    BY DEF Splits
  <2> HIDE DEF u
  <2> QED
    BY <2>4, <2>5, <2>6 DEF P
<1>3. step \in [(1 .. N) \X V -> V]
  <2> HIDE DEF V
  <2> QED
    BY <1>2
<1>4. \A n \in 1 .. N : \A v \in V : step[<<n, v>>] = Splits(text, n, v)
  OBVIOUS
<1> HIDE DEF step, V, N, base
<1>5. PICK f : IsPrimitive(f, N, V, base, step)
  BY <1>1, <1>3, PrimitiveRecursion
<1>6. f \in [0 .. N -> V] /\ f[0] = base
      /\ \A n \in 1 .. N : f[n] = Splits(text, n, f[n - 1])
  <2>1. ASSUME NEW n \in 1 .. N PROVE f[n - 1] \in V
    <3>1. n - 1 \in 0 .. N
      BY <1>1
    <3> QED
      BY <1>5, <3>1 DEF IsPrimitive
  <2> QED
    BY <1>4, <1>5, <2>1 DEF IsPrimitive
<1>7. ASSUME NEW h
      PROVE  Defined(h) <=> h = [n \in 0 .. N |->
                                   IF n = 0 THEN base ELSE Splits(text, n, h[n - 1])]
  BY DEF Splits, N, base
<1> HIDE DEF Defined
<1>8. Defined(f)
  <2>1. f = [n \in 0 .. N |-> f[n]]
    BY <1>6
  <2>2. \A n \in 0 .. N : f[n] = IF n = 0 THEN base ELSE Splits(text, n, f[n - 1])
    BY <1>1, <1>6
  <2> QED
    BY <1>7, <2>1, <2>2, Zenon
<1>9. (\E h : Defined(h)) => \E h : Defined(h) /\ Segments(text) = h[Len(text)]
  BY Zenon DEF Segments, Defined, Star
<1>10. PICK h : Defined(h) /\ Segments(text) = h[N]
  BY <1>8, <1>9, Zenon DEF N
<1>11. h = [n \in 0 .. N |-> IF n = 0 THEN base ELSE Splits(text, n, h[n - 1])]
  BY <1>7, <1>10
<1>12. h[0] = base /\ \A n \in 1 .. N : h[n] = Splits(text, n, h[n - 1])
  <2>1. 0 \in 0 .. N /\ \A n \in 1 .. N : n \in 0 .. N /\ n # 0
    BY <1>1
  <2> QED
    BY <1>11, <2>1
<1> DEFINE S == {n \in 0 .. N : h[n] \in V}
<1>13. 0 \in S /\ \A n \in 0 .. N : n \in S /\ n < N => n + 1 \in S
  <2>1. 0 \in S
    BY <1>1, <1>12
  <2>2. ASSUME NEW n \in 0 .. N, n \in S, n < N PROVE n + 1 \in S
    <3>1. n + 1 \in 1 .. N /\ (n + 1) - 1 = n /\ n + 1 \in 0 .. N
      BY <1>1, <2>2
    <3>2. h[n + 1] = Splits(text, n + 1, h[n]) /\ h[n] \in V
      BY <1>12, <2>2, <3>1
    <3>3. h[n + 1] \in V
      BY <1>2, <3>1, <3>2
    <3> QED
      BY <3>1, <3>3
  <2> QED
    BY <2>1, <2>2
<1>14. h \in [0 .. N -> V]
  <2> HIDE DEF S
  <2>1. \A n \in 0 .. N : n \in S
    BY <1>1, <1>13, InductionTo
  <2>2. \A n \in 0 .. N : h[n] \in V
    BY <2>1 DEF S
  <2>3. h = [n \in 0 .. N |-> h[n]]
    BY <1>11, <1>1
  <2> QED
    BY <2>2, <2>3
<1>15. h \in [0 .. N -> Seq(Seq(R))]
  BY <1>14 DEF V
<1>16. IsSplit(h, R, text)
  BY <1>12, <1>15 DEF IsSplit, N, base
<1> QED
  BY <1>10, <1>16 DEF N

LEMMA TakeMore ==
  ASSUME NEW R, NEW a \in Seq(R), NEW n \in 0 .. Len(a) - 1
  PROVE  Take(a, n + 1) = Append(Take(a, n), a[n + 1])
<1> DEFINE p == Take(a, n)
           q == Take(a, n + 1)
           r == a[n + 1]
           w == Append(p, r)
<1>1. n \in 0 .. Len(a) /\ n + 1 \in 0 .. Len(a) /\ n + 1 \in 1 .. Len(a) /\ n \in Nat
  OBVIOUS
<1>2. /\ p \in Seq(R) /\ Len(p) = n /\ \A i \in 1 .. n : p[i] = a[i]
      /\ q \in Seq(R) /\ Len(q) = n + 1 /\ \A i \in 1 .. n + 1 : q[i] = a[i]
  BY <1>1, TakeIs
<1>3. r \in R
  BY <1>1
<1> HIDE DEF p, q, r
<1>4. w \in Seq(R) /\ Len(w) = n + 1 /\ w[n + 1] = r /\ \A i \in 1 .. n : w[i] = p[i]
  BY <1>1, <1>2, <1>3
<1> HIDE DEF w
<1>5. \A i \in 1 .. n + 1 : w[i] = q[i]
  BY <1>1, <1>2, <1>4 DEF r
<1>6. w = q
  BY <1>2, <1>4, <1>5, SeqEqual
<1> QED
  BY <1>6 DEF w, q, p, r

LEMMA LastPut ==
  ASSUME NEW P, NEW before \in Seq(P), NEW x \in P, NEW y \in P
  PROVE  LET v == Append(before, x) IN [v EXCEPT ![Len(v)] = y] = Append(before, y)
<1> DEFINE v == Append(before, x)
           u == [v EXCEPT ![Len(v)] = y]
           w == Append(before, y)
           m == Len(before) + 1
<1>1. /\ v \in Seq(P) /\ Len(v) = m /\ m \in Nat /\ \A i \in 1 .. m - 1 : v[i] = before[i]
      /\ w \in Seq(P) /\ Len(w) = m /\ w[m] = y /\ \A i \in 1 .. m - 1 : w[i] = before[i]
  OBVIOUS
<1> HIDE DEF v, w, m
<1>2. v \in [1 .. m -> P]
  BY <1>1
<1>3. u \in [1 .. m -> P] /\ \A i \in 1 .. m : u[i] = IF i = m THEN y ELSE v[i]
  BY <1>1, <1>2
<1> HIDE DEF u
<1>4. u \in Seq(P) /\ Len(u) = m
  BY <1>1, <1>3
<1>5. \A i \in 1 .. m : u[i] = w[i]
  BY <1>1, <1>3
<1>6. u = w
  BY <1>1, <1>4, <1>5, SeqEqual
<1> QED
  BY <1>6 DEF u, w, v

\* Where a segment starts and the text goes on as a, which has no star, that
\* segment has become a.
IsRun(h, R, text, q, a, before) ==
  /\ IsSplit(h, R, text) /\ text \in Seq(R) /\ q \in Nat /\ a \in Seq(R)
  /\ q + Len(a) <= Len(text)
  /\ \A j \in 1 .. Len(a) : text[q + j] = a[j] /\ a[j] # Star
  /\ before \in Seq(Seq(R)) /\ h[q] = Append(before, <<>>)

LEMMA RunIs ==
  ASSUME NEW h, NEW R, NEW text, NEW q, NEW a, NEW before,
         IsRun(h, R, text, q, a, before)
  PROVE  h[q + Len(a)] = Append(before, a)
<1> DEFINE P == Seq(R)
           N == Len(a)
           Good(j) == h[q + j] = Append(before, Take(a, j))
           S == {j \in 0 .. N : Good(j)}
<1>1. /\ text \in Seq(R) /\ q \in Nat /\ a \in Seq(R) /\ N \in Nat /\ Len(text) \in Nat
      /\ q + N <= Len(text) /\ before \in Seq(P)
      /\ \A j \in 1 .. N : text[q + j] = a[j] /\ a[j] # Star
  BY DEF IsRun
<1>2. h[q] = Append(before, <<>>) /\ \A n \in 1 .. Len(text) : h[n] = Splits(text, n, h[n - 1])
  BY DEF IsRun, IsSplit
<1>3. Good(0)
  <2>1. Take(a, 0) = <<>> /\ q + 0 = q
    BY <1>1, TakeNone
  <2> QED
    BY <1>2, <2>1
<1>4. ASSUME NEW j \in 0 .. N, j < N, Good(j) PROVE Good(j + 1)
  <2> DEFINE x == Take(a, j)
             r == a[j + 1]
             y == Append(x, r)
             v == Append(before, x)
  <2>1. /\ j + 1 \in 1 .. N /\ q + (j + 1) \in 1 .. Len(text)
        /\ (q + (j + 1)) - 1 = q + j /\ j \in 0 .. Len(a) - 1 /\ j \in 0 .. Len(a)
    BY <1>1, <1>4
  <2>2. text[q + (j + 1)] = r /\ r # Star /\ r \in R
    BY <1>1, <2>1
  <2>3. x \in P
    BY <1>1, <2>1, TakeIs
  <2>4. Take(a, j + 1) = y
    BY <1>1, <2>1, TakeMore
  <2> HIDE DEF x, r
  <2>5. y \in P
    BY <2>2, <2>3
  <2>6. h[q + (j + 1)] = Splits(text, q + (j + 1), v)
    <3>1. h[q + (j + 1)] = Splits(text, q + (j + 1), h[(q + (j + 1)) - 1])
      BY <1>2, <2>1
    <3>2. h[(q + (j + 1)) - 1] = v
      BY <1>4, <2>1 DEF x
    <3> QED
      BY <3>1, <3>2, Zenon
  <2>7. Splits(text, q + (j + 1), v) = [v EXCEPT ![Len(v)] = Append(@, r)]
    BY <2>2, Zenon DEF Splits
  <2> HIDE DEF P
  <2>8. v[Len(v)] = x
    BY <1>1, <2>3
  <2>9. [v EXCEPT ![Len(v)] = Append(@, r)] = [v EXCEPT ![Len(v)] = y]
    BY <2>8
  <2> HIDE DEF y
  <2>10. [v EXCEPT ![Len(v)] = y] = Append(before, y)
    BY <1>1, <2>3, <2>5, LastPut
  <2> QED
    BY <2>4, <2>6, <2>7, <2>9, <2>10, Zenon
<1> HIDE DEF Good
<1>5. 0 \in S /\ \A j \in 0 .. N : j \in S /\ j < N => j + 1 \in S
  <2>1. 0 \in 0 .. N /\ \A j \in 0 .. N : j < N => j + 1 \in 0 .. N
    BY <1>1
  <2> QED
    BY <1>3, <1>4, <2>1
<1>6. Good(N)
  <2> HIDE DEF S
  <2>1. \A j \in 0 .. N : j \in S
    BY <1>1, <1>5, InductionTo
  <2>2. N \in 0 .. N
    BY <1>1
  <2> QED
    BY <2>1, <2>2 DEF S
<1>7. Take(a, N) = a
  BY <1>1, TakeAll
<1> QED
  BY <1>6, <1>7 DEF Good

Answer == Seq(Rune \ {Star})

\* What each answer adds to the text field.
Adds(path) == [i \in DOMAIN path |-> IF i = 1 THEN path[1] ELSE <<Star>> \o path[i]]

LEMMA AddsAre ==
  ASSUME NEW path \in Seq(Answer)
  PROVE  LET All == Rune \cup {Star}
             w == Adds(path)
         IN /\ w \in Seq(Seq(All)) /\ Len(w) = Len(path)
            /\ Joined(path) = FlattenSeq(w)
            /\ \A i \in 1 .. Len(path) : path[i] \in Answer /\ path[i] \in Seq(All)
            /\ Len(path) > 0 => w[1] = path[1]
            /\ \A i \in 2 .. Len(path) : w[i] = <<Star>> \o path[i]
<1> DEFINE All == Rune \cup {Star}
           w == Adds(path)
<1>1. \A i \in 1 .. Len(path) : path[i] \in Answer
  OBVIOUS
<1>2. \A i \in 1 .. Len(path) : path[i] \in Seq(All)
  <2>1. Rune \ {Star} \subseteq All
    OBVIOUS
  <2>2. \A a \in Answer : a \in Seq(All)
    BY <2>1 DEF Answer
  <2> QED
    BY <1>1, <2>2
<1>3. \A i \in 1 .. Len(path) : <<Star>> \o path[i] \in Seq(All)
  <2>1. <<Star>> \in Seq(All)
    OBVIOUS
  <2> HIDE DEF All
  <2>2. \A a \in Seq(All) : <<Star>> \o a \in Seq(All)
    BY <2>1
  <2> QED
    BY <1>2, <2>2
<1>4. DOMAIN path = 1 .. Len(path) /\ Len(path) \in Nat
  OBVIOUS
<1> HIDE DEF All
<1>5. w \in [1 .. Len(path) -> Seq(All)]
      /\ \A i \in 1 .. Len(path) : w[i] = IF i = 1 THEN path[1] ELSE <<Star>> \o path[i]
  BY <1>2, <1>3, <1>4 DEF Adds
<1>6. Joined(path) = FlattenSeq(w)
  BY Zenon DEF Joined, Adds, Star
<1> HIDE DEF w
<1>7. w \in Seq(Seq(All)) /\ Len(w) = Len(path)
  BY <1>4, <1>5
<1>8. Len(path) > 0 => w[1] = path[1]
  BY <1>4, <1>5
<1>9. \A i \in 2 .. Len(path) : w[i] = <<Star>> \o path[i]
  BY <1>4, <1>5
<1> QED
  BY <1>1, <1>2, <1>6, <1>7, <1>8, <1>9 DEF w, All

\* What is folded up to a place starts what is folded in all.
FoldsUp(k, N, w, R) == N \in Nat /\ w \in [1 .. N -> Seq(R)] /\ IsFold(k, N, w, R)

LEMMA FoldStarts ==
  ASSUME NEW N, NEW R, NEW w, NEW k, FoldsUp(k, N, w, R), NEW n \in 0 .. N
  PROVE  /\ Len(k[n]) <= Len(k[N]) /\ Len(k[n]) \in Nat /\ Len(k[N]) \in Nat
         /\ \A i \in 1 .. Len(k[n]) : k[N][i] = k[n][i]
<1> N \in Nat /\ w \in [1 .. N -> Seq(R)]
  BY DEF FoldsUp
<1>1. k \in [0 .. N -> Seq(R)] /\ \A i \in 1 .. N : k[i] = k[i - 1] \o w[i]
  BY DEF FoldsUp, IsFold, Puts
<1> DEFINE Starts(m) == /\ Len(k[n]) <= Len(k[m])
                        /\ \A i \in 1 .. Len(k[n]) : k[m][i] = k[n][i]
           S == {d \in 0 .. N - n : Starts(n + d)}
<1>2. k[n] \in Seq(R) /\ Len(k[n]) \in Nat /\ N - n \in Nat
  BY <1>1
<1>3. Starts(n)
  BY <1>2
<1>4. ASSUME NEW m \in n .. N - 1, Starts(m) PROVE Starts(m + 1)
  <2> DEFINE p == k[m]
             q == w[m + 1]
             c == k[n]
  <2>1. p \in Seq(R) /\ q \in Seq(R) /\ k[m + 1] = p \o q
    <3>1. m \in 0 .. N /\ m + 1 \in 1 .. N /\ (m + 1) - 1 = m
      OBVIOUS
    <3> QED
      BY <1>1, <3>1
  <2>2. Len(c) \in Nat /\ Len(c) <= Len(p) /\ \A i \in 1 .. Len(c) : p[i] = c[i]
    BY <1>2, <1>4
  <2> HIDE DEF p, q, c
  <2> DEFINE u == p \o q
  <2>3. /\ Len(u) = Len(p) + Len(q) /\ Len(p) \in Nat /\ Len(q) \in Nat
        /\ \A i \in 1 .. Len(p) : u[i] = p[i]
    BY <2>1, ConcatProperties
  <2> HIDE DEF u
  <2>4. Len(c) <= Len(u) /\ \A i \in 1 .. Len(c) : u[i] = c[i]
    BY <2>2, <2>3
  <2> QED
    BY <2>1, <2>4, Zenon DEF u, c
<1>5. 0 \in S /\ \A d \in 0 .. N - n : d \in S /\ d < N - n => d + 1 \in S
  <2> HIDE DEF Starts
  <2>1. 0 \in S
    BY <1>2, <1>3
  <2>2. ASSUME NEW d \in 0 .. N - n, d \in S, d < N - n PROVE d + 1 \in S
    <3>1. n + d \in n .. N - 1 /\ d + 1 \in 0 .. N - n /\ (n + d) + 1 = n + (d + 1)
      BY <2>2
    <3>2. Starts((n + d) + 1)
      BY <1>4, <2>2, <3>1
    <3> QED
      BY <3>1, <3>2
  <2> QED
    BY <2>1, <2>2
<1>6. Starts(N)
  <2> HIDE DEF S, Starts
  <2>1. \A d \in 0 .. N - n : d \in S
    BY <1>2, <1>5, InductionTo
  <2>2. N - n \in S
    BY <1>2, <2>1
  <2>3. Starts(n + (N - n)) /\ n + (N - n) = N
    BY <2>2 DEF S
  <2> QED
    BY <2>3
<1> DEFINE e == k[N]
<1>7. e \in Seq(R)
  BY <1>1
<1>8. Len(k[N]) \in Nat
  <2> HIDE DEF e
  <2>1. Len(e) \in Nat
    BY <1>7
  <2> QED
    BY <2>1 DEF e
<1> QED
  BY <1>2, <1>6, <1>8

LEMMA SegmentsOfJoined ==
  ASSUME NEW path \in Seq(Answer), path # <<>>
  PROVE  Segments(Joined(path)) = path
<1> DEFINE All == Rune \cup {Star}
           w == Adds(path)
           N == Len(path)
           text == FlattenSeq(w)
           P == Seq(All)
<1>1. /\ w \in Seq(Seq(All)) /\ Len(w) = N /\ Joined(path) = text
      /\ \A i \in 1 .. N : path[i] \in Answer /\ path[i] \in Seq(All)
      /\ N > 0 => w[1] = path[1]
      /\ \A i \in 2 .. N : w[i] = <<Star>> \o path[i]
  BY AddsAre
<1>2. N \in Nat /\ N > 0 /\ DOMAIN path = 1 .. N /\ path = [i \in 1 .. N |-> path[i]]
  OBVIOUS
<1>3. w \in [1 .. N -> P]
  <2> HIDE DEF w, All, N
  <2> QED
    BY <1>1
<1> HIDE DEF w, N
<1>4. PICK k : IsFold(k, Len(w), w, All) /\ text = k[Len(w)]
  BY <1>1, FlattenIs
<1>5. /\ IsFold(k, N, w, All) /\ text = k[N]
      /\ k \in [0 .. N -> P] /\ k[0] = <<>> /\ \A n \in 1 .. N : k[n] = k[n - 1] \o w[n]
  BY <1>1, <1>4 DEF IsFold, Puts
<1> HIDE DEF text
<1>6. text \in P
  BY <1>2, <1>5
<1>7. PICK h : IsSplit(h, All, text) /\ Segments(text) = h[Len(text)]
  BY <1>6, SegmentsAre
<1>8. path \in Seq(P)
  <2>1. \A i \in 1 .. N : path[i] \in P
    BY <1>1
  <2> HIDE DEF P
  <2>2. path \in [1 .. N -> P]
    BY <1>2, <2>1
  <2> QED
    BY <1>2, <2>2
<1> DEFINE Good(n) == h[Len(k[n])] = Take(path, n)
           S == {d \in 0 .. N - 1 : Good(d + 1)}
<1>9. \A i \in 1 .. N : \A j \in 1 .. Len(path[i]) : path[i][j] # Star
  <2>1. \A a \in Answer : \A j \in 1 .. Len(a) : a[j] # Star
    BY DEF Answer
  <2> QED
    BY <1>1, <2>1
<1>10. ASSUME NEW n \in 1 .. N
       PROVE  /\ Len(k[n]) <= Len(text) /\ Len(k[n]) \in Nat /\ Len(text) \in Nat
              /\ \A i \in 1 .. Len(k[n]) : text[i] = k[n][i]
  <2>1. n \in 0 .. N
    BY <1>2
  <2> HIDE DEF All
  <2>2. /\ Len(k[n]) <= Len(k[N]) /\ Len(k[n]) \in Nat /\ Len(k[N]) \in Nat
        /\ \A i \in 1 .. Len(k[n]) : k[N][i] = k[n][i]
    <3>1. FoldsUp(k, N, w, All)
      BY <1>2, <1>3, <1>5, Zenon DEF FoldsUp
    <3> QED
      BY <2>1, <3>1, FoldStarts
  <2> QED
    BY <1>5, <2>2, Zenon
<1>11. Good(1)
  <2> DEFINE a == path[1]
             none == <<>>
  <2>1. 1 \in 1 .. N /\ 1 - 1 = 0 /\ 0 \in 0 .. N
    BY <1>2
  <2>2. a \in P /\ w[1] = a
    BY <1>1, <1>2, <2>1
  <2>3. k[1] = <<>> \o w[1]
    BY <1>5, <2>1
  <2> HIDE DEF P
  <2>4. k[1] = a
    <3> HIDE DEF a
    <3>1. <<>> \o a = a
      BY <2>2 DEF P
    <3> QED
      BY <2>2, <2>3, <3>1
  <2>5. Len(a) <= Len(text) /\ \A j \in 1 .. Len(a) : text[j] = a[j]
    BY <1>10, <2>1, <2>4
  <2>6. IsRun(h, All, text, 0, a, none)
    <3>1. Append(none, <<>>) = << <<>> >> /\ none \in Seq(Seq(All))
      OBVIOUS
    <3>2. h[0] = << <<>> >>
      BY <1>7 DEF IsSplit
    <3>3. \A j \in 1 .. Len(a) : text[0 + j] = a[j] /\ a[j] # Star
      BY <1>9, <2>1, <2>5
    <3> DEFINE l == Len(a)
    <3>4. l \in Nat
      BY <2>2 DEF P
    <3>5. 0 \in Nat /\ 0 + Len(a) <= Len(text)
      <4>1. l <= Len(text)
        BY <2>5
      <4> HIDE DEF l
      <4>2. 0 + l <= Len(text)
        BY <3>4, <4>1
      <4> QED
        BY <4>2 DEF l
    <3> HIDE DEF a, none
    <3>6. h[0] = Append(none, <<>>)
      BY <3>1, <3>2
    <3> QED
      BY <1>6, <1>7, <2>2, <3>1, <3>3, <3>5, <3>6, Zenon DEF IsRun, P
  <2>7. h[0 + Len(a)] = Append(none, a)
    BY <2>6, RunIs
  <2>8. 0 + Len(a) = Len(a)
    BY <2>2 DEF P
  <2>9. Append(none, a) = <<a>>
    OBVIOUS
  <2>10. Take(path, 1) = <<a>>
    <3>1. Take(path, 0) = <<>> /\ 0 \in 0 .. Len(path) - 1 /\ 0 + 1 = 1
      BY <1>2, <1>8, TakeNone DEF N
    <3>2. Take(path, 0 + 1) = Append(Take(path, 0), path[0 + 1])
      BY <1>8, <3>1, TakeMore
    <3>3. Take(path, 1) = Append(none, a)
      BY <3>1, <3>2, Zenon
    <3> QED
      BY <2>9, <3>3, Zenon
  <2> QED
    BY <2>4, <2>7, <2>8, <2>9, <2>10
<1>12. ASSUME NEW n \in 1 .. N - 1, Good(n) PROVE Good(n + 1)
  <2> DEFINE a == path[n + 1]
             before == Take(path, n)
             c == k[n]
             l == Len(c)
             s == <<Star>>
  <2>1. n \in 1 .. N /\ n + 1 \in 1 .. N /\ n + 1 \in 2 .. N /\ (n + 1) - 1 = n
        /\ n \in 0 .. Len(path) /\ n \in 0 .. Len(path) - 1 /\ n \in 0 .. N
    BY <1>2 DEF N
  <2>2. a \in P /\ w[n + 1] = s \o a /\ k[n + 1] = c \o (s \o a) /\ c \in P
    <3>1. k[n + 1] = k[n] \o w[n + 1]
      BY <1>5, <2>1
    <3>2. w[n + 1] = <<Star>> \o path[n + 1]
      BY <1>1, <2>1
    <3> QED
      BY <1>1, <1>5, <2>1, <3>1, <3>2
  <2>3. before \in Seq(P)
    BY <1>8, <2>1, TakeIs
  <2> DEFINE u == c \o (s \o a)
             m == Len(a)
  <2>4. s \in P /\ Len(s) = 1 /\ s[1] = Star
    OBVIOUS
  <2> HIDE DEF a, c, s, before
  <2>5. /\ Len(u) = l + (1 + m) /\ l \in Nat /\ m \in Nat
        /\ u[l + 1] = Star /\ \A j \in 1 .. m : u[(l + 1) + j] = a[j]
    <3> DEFINE v == s \o a
    <3>5. s \in Seq(All) /\ a \in Seq(All) /\ c \in Seq(All)
      BY <2>2, <2>4 DEF P
    <3> HIDE DEF All
    <3>6. /\ v \in Seq(All) /\ Len(v) = Len(s) + Len(a) /\ m \in Nat
          /\ \A i \in 1 .. Len(s) + Len(a) : v[i] = IF i <= Len(s) THEN s[i] ELSE a[i - Len(s)]
      BY <3>5, ConcatProperties
    <3> HIDE DEF v
    <3>1. /\ Len(v) = 1 + m /\ m \in Nat
          /\ v[1] = Star /\ \A j \in 1 .. m : v[1 + j] = a[j]
      <4>1. \A j \in 1 .. m : 1 + j \in 1 .. 1 + m /\ ~(1 + j <= 1) /\ (1 + j) - 1 = j
        BY <3>6
      <4> QED
        BY <2>4, <3>6, <4>1
    <3>7. /\ c \o v \in Seq(All) /\ Len(c \o v) = Len(c) + Len(v)
          /\ \A i \in 1 .. Len(c) + Len(v) :
               (c \o v)[i] = IF i <= Len(c) THEN c[i] ELSE v[i - Len(c)]
      <4>1. c \in Seq(All) /\ v \in Seq(All)
        BY <3>5, <3>6
      <4> HIDE DEF l
      <4> QED
        BY <4>1, ConcatProperties
    <3>8. Len(c) \in Nat
      BY <3>5
    <3> HIDE DEF m
    <3>2. /\ Len(c \o v) = l + Len(v) /\ l \in Nat
          /\ \A i \in 1 .. Len(v) : (c \o v)[l + i] = v[i]
      <4>1. Len(v) \in Nat
        BY <3>1
      <4>2. \A i \in 1 .. Len(v) : l + i \in 1 .. l + Len(v) /\ ~(l + i <= l) /\ (l + i) - l = i
        BY <3>8, <4>1
      <4> QED
        BY <3>7, <3>8, <4>1, <4>2
    <3> DEFINE z == c \o v
    <3> HIDE DEF l, z
    <3>3. 1 \in 1 .. Len(v) /\ \A j \in 1 .. m : 1 + j \in 1 .. Len(v) /\ l + (1 + j) = (l + 1) + j
      BY <3>1, <3>2
    <3>4. /\ z[l + 1] = Star /\ \A j \in 1 .. m : z[(l + 1) + j] = a[j]
      BY <3>1, <3>2, <3>3 DEF z
    <3> QED
      BY <3>1, <3>2, <3>4 DEF z, v
  <2> HIDE DEF u
  <2>6. Len(u) <= Len(text) /\ \A i \in 1 .. Len(u) : text[i] = u[i]
    BY <1>10, <2>1, <2>2 DEF u
  <2> HIDE DEF l, m
  <2>7. /\ l + 1 \in 1 .. Len(u) /\ \A j \in 1 .. m : (l + 1) + j \in 1 .. Len(u)
        /\ Len(text) \in Nat /\ l + 1 \in 1 .. Len(text)
    BY <1>10, <2>1, <2>5, <2>6
  <2>8. text[l + 1] = Star /\ \A j \in 1 .. m : text[(l + 1) + j] = a[j]
    BY <2>5, <2>6, <2>7
  <2>9. h[l + 1] = Append(before, <<>>)
    <3>1. h[l] = before
      BY <1>12 DEF before, l, c
    <3>2. h[l + 1] = Splits(text, l + 1, h[(l + 1) - 1])
      BY <1>7, <2>7 DEF IsSplit
    <3>3. (l + 1) - 1 = l
      BY <2>5
    <3> QED
      BY <2>8, <3>1, <3>2, <3>3 DEF Splits
  <2>10. IsRun(h, All, text, l + 1, a, before)
    <3>1. l + 1 \in Nat /\ (l + 1) + Len(a) <= Len(text)
      BY <2>5, <2>6, <1>10, <2>1 DEF m
    <3>2. \A j \in 1 .. Len(a) : text[(l + 1) + j] = a[j] /\ a[j] # Star
      BY <1>9, <2>1, <2>8 DEF m, a
    <3> QED
      BY <1>6, <1>7, <2>2, <2>3, <2>9, <3>1, <3>2, Zenon DEF IsRun
  <2>11. h[(l + 1) + Len(a)] = Append(before, a)
    BY <2>10, RunIs
  <2>12. Len(k[n + 1]) = (l + 1) + Len(a)
    <3>1. Len(u) = (l + 1) + m
      BY <2>5
    <3> QED
      BY <2>2, <3>1, Zenon DEF u, m
  <2>13. Take(path, n + 1) = Append(before, a)
    BY <1>8, <2>1, TakeMore DEF before, a
  <2> QED
    BY <2>11, <2>12, <2>13
<1> HIDE DEF Good
<1>13. 0 \in S /\ \A d \in 0 .. N - 1 : d \in S /\ d < N - 1 => d + 1 \in S
  <2>1. 0 \in 0 .. N - 1 /\ 0 + 1 = 1
    BY <1>2
  <2>2. ASSUME NEW d \in 0 .. N - 1, d \in S, d < N - 1 PROVE d + 1 \in S
    <3>1. d + 1 \in 1 .. N - 1 /\ d + 1 \in 0 .. N - 1
      BY <1>2, <2>2
    <3> QED
      BY <1>12, <2>2, <3>1
  <2> QED
    BY <1>11, <2>1, <2>2
<1>14. Good(N)
  <2> HIDE DEF S
  <2>1. N - 1 \in Nat /\ N - 1 \in 0 .. N - 1 /\ (N - 1) + 1 = N
    BY <1>2
  <2>2. \A d \in 0 .. N - 1 : d \in S
    BY <1>13, <2>1, InductionTo
  <2>3. Good((N - 1) + 1)
    BY <2>1, <2>2 DEF S
  <2> QED
    BY <2>1, <2>3
<1>15. Take(path, N) = path
  BY <1>8, TakeAll DEF N
<1> QED
  BY <1>1, <1>5, <1>7, <1>14, <1>15 DEF Good

LEMMA SubscriberIs ==
  /\ Subscriber \in Text /\ Len(Subscriber) >= 2 /\ Subscriber[1] = Plus
  /\ Tail(Subscriber) \in Text /\ Tail(Subscriber) # <<>>
  /\ Len(Tail(Subscriber)) = Len(Subscriber) - 1
  /\ \A i \in 1 .. Len(Tail(Subscriber)) :
       /\ Tail(Subscriber)[i] = Subscriber[i + 1]
       /\ Tail(Subscriber)[i] \notin Spaces /\ Tail(Subscriber)[i] # Plus
  /\ Plus \notin Spaces /\ Plus \in Rune
<1> DEFINE digits == ToSet(Digits)
           rest == Tail(Subscriber)
<1>1. /\ Subscriber \in Text /\ Subscriber # <<>> /\ Subscriber[1] = Plus
      /\ rest \in Seq(digits) /\ rest # <<>>
      /\ Plus \notin Spaces /\ \A d \in digits : d \notin Spaces
  BY FediverseAssumption, Zenon DEF Plus
<1>2. Plus \notin digits
  <2>1. digits = {"0", "1", "2", "3", "4", "5", "6", "7", "8", "9"}
    <3>1. digits = {Digits[n] : n \in 1 .. 10}
      BY DEF Digits, ToSet
    <3>2. /\ Digits[1] = "0" /\ Digits[2] = "1" /\ Digits[3] = "2" /\ Digits[4] = "3"
          /\ Digits[5] = "4" /\ Digits[6] = "5" /\ Digits[7] = "6" /\ Digits[8] = "7"
          /\ Digits[9] = "8" /\ Digits[10] = "9"
      BY DEF Digits
    <3>3. 1 .. 10 = {1, 2, 3, 4, 5, 6, 7, 8, 9, 10}
      OBVIOUS
    <3> HIDE DEF digits
    <3> QED
      BY <3>1, <3>2, <3>3
  <2> QED
    BY <2>1, Zenon DEF Plus
<1> HIDE DEF digits
<1>3. Subscriber \in Seq(Rune) /\ Len(Subscriber) \in Nat
  BY <1>1 DEF Text
<1>4. /\ rest \in Seq(Rune) /\ Len(rest) = Len(Subscriber) - 1
      /\ \A i \in 1 .. Len(rest) : rest[i] = Subscriber[i + 1]
  BY <1>1, <1>3, HeadTailProperties
<1> HIDE DEF rest
<1>5. Len(rest) \in Nat /\ Len(rest) # 0
  BY <1>1
<1>6. \A i \in 1 .. Len(rest) : rest[i] \notin Spaces /\ rest[i] # Plus
  BY <1>1, <1>2
<1>7. Plus \in Rune
  BY <1>1, <1>3, <1>4, <1>5
<1>8. Len(Subscriber) >= 2
  BY <1>3, <1>4, <1>5
<1> QED
  BY <1>1, <1>4, <1>6, <1>7, <1>8 DEF rest, Text

\* A space before a text is trimmed.
LEMMA SpaceIsTrimmed ==
  ASSUME NEW t \in Text, t # <<>>, t[1] \notin Spaces, t[Len(t)] \notin Spaces
  PROVE  TrimSpace(<<Gap>> \o t) = t
<1> DEFINE s == <<Gap>> \o t
           I == {i \in 1 .. Len(s) : s[i] \notin Spaces}
           first == IF I # {} THEN Min(I) ELSE 0
<1>1. TrimSpace(s) = IF first = 0 THEN <<>> ELSE TrimRight(SubSeq(s, first, Len(s)))
  BY Zenon DEF TrimSpace, SelectInSeq
<1>2. Gap \in Spaces /\ <<Gap>> \in Text
  BY GapIs, Alphabets, Alphabet, ShortTexts, Zenon
<1>3. /\ s \in Seq(Rune) /\ Len(s) = 1 + Len(t) /\ Len(t) \in Nat /\ Len(t) # 0
      /\ s[1] = Gap /\ \A i \in 1 .. Len(t) : s[i + 1] = t[i]
  <2> DEFINE g == <<Gap>>
  <2>1. g \in Seq(Rune) /\ Len(g) = 1 /\ g[1] = Gap /\ t \in Seq(Rune)
    BY <1>2 DEF Text
  <2>2. Len(t) \in Nat /\ Len(t) # 0
    BY <2>1
  <2> HIDE DEF g
  <2> DEFINE w == g \o t
  <2>3. /\ w \in Seq(Rune) /\ Len(w) = Len(g) + Len(t)
        /\ \A i \in 1 .. Len(g) + Len(t) : w[i] = IF i <= Len(g) THEN g[i] ELSE t[i - Len(g)]
    BY <2>1, ConcatProperties
  <2> HIDE DEF w
  <2>4. \A i \in 1 .. Len(t) : i + 1 \in 1 .. 1 + Len(t) /\ ~(i + 1 <= 1) /\ (i + 1) - 1 = i
    BY <2>2
  <2>5. \A i \in 1 .. Len(t) : w[i + 1] = t[i]
    BY <2>1, <2>3, <2>4
  <2>6. 1 \in 1 .. 1 + Len(t)
    BY <2>2
  <2>7. w[1] = Gap
    BY <2>1, <2>3, <2>6
  <2> QED
    BY <2>1, <2>2, <2>3, <2>5, <2>7 DEF w, g
<1> HIDE DEF s
<1>4. I \in SUBSET (0 .. Len(s)) /\ Len(s) \in Nat /\ 2 \in I /\ 1 \notin I /\ 0 \notin I
  <2>1. s[1 + 1] = t[1]
    BY <1>3
  <2> QED
    BY <1>2, <1>3, <2>1
<1>5. Min(I) = 2
  <2>1. I # {}
    BY <1>4
  <2> HIDE DEF I
  <2>2. Min(I) \in I /\ \A n \in I : Min(I) <= n
    BY <1>4, <2>1, MinIs
  <2>3. Min(I) <= 2 /\ Min(I) \in 0 .. Len(s) /\ Min(I) # 0 /\ Min(I) # 1
    BY <1>4, <2>2
  <2> QED
    BY <1>4, <2>3
<1>6. first = 2
  BY <1>4, <1>5
<1> HIDE DEF first
<1>7. SubSeq(s, 2, Len(s)) = t
  <2> DEFINE u == SubSeq(s, 2, Len(s))
  <2>1. u \in Seq(Rune) /\ Len(u) = Len(s) - 2 + 1
        /\ \A i \in 1 .. Len(s) - 2 + 1 : u[i] = s[2 + i - 1]
    <3>1. \A i \in 2 .. Len(s) : s[i] \in Rune
      BY <1>3
    <3>2. 2 \in Int /\ Len(s) \in Int /\ 2 <= Len(s)
      BY <1>3
    <3> QED
      BY <3>1, <3>2, SubSeqProperties
  <2> HIDE DEF u
  <2>2. Len(s) - 2 + 1 = Len(t) /\ \A i \in 1 .. Len(t) : 2 + i - 1 = i + 1
    BY <1>3
  <2>3. \A i \in 1 .. Len(t) : u[i] = t[i]
    BY <1>3, <2>1, <2>2
  <2>4. u = t
    BY <2>1, <2>2, <2>3, SeqEqual DEF Text
  <2> QED
    BY <2>4 DEF u
<1>8. TrimRight(t) = t
  <2>1. PICK n \in 0 .. Len(t) :
          /\ TrimRight(t) = Take(t, n)
          /\ \A i \in n + 1 .. Len(t) : t[i] \in Spaces
    BY TrimRightIs DEF Text
  <2>2. n = Len(t)
    BY <1>3, <2>1
  <2> QED
    BY <2>1, <2>2, TakeAll DEF Text
<1>9. first # 0
  BY <1>6
<1>10. TrimSpace(s) = TrimRight(SubSeq(s, 2, Len(s)))
  BY <1>1, <1>6, <1>9, Zenon
<1> QED
  BY <1>7, <1>8, <1>10, Zenon DEF s

\* One number, however it is notated.
LEMMA NumbersAreOne ==
  ASSUME NEW number \in Numbers
  PROVE  NormaliseMSISDN(number) = Subscriber
<1> DEFINE rest == Tail(Subscriber)
           s == Subscriber
<1>1. /\ s \in Text /\ Len(s) >= 2 /\ s[1] = Plus /\ rest \in Text /\ rest # <<>>
      /\ Len(rest) = Len(s) - 1 /\ Plus \notin Spaces /\ Plus \in Rune
      /\ \A i \in 1 .. Len(rest) : /\ rest[i] = s[i + 1] /\ rest[i] \notin Spaces
                                   /\ rest[i] # Plus
  BY SubscriberIs
<1>2. s \in Seq(Rune) /\ rest \in Seq(Rune)
  BY <1>1 DEF Text
<1>3. number \in {s, <<Gap>> \o rest, rest}
  BY Zenon DEF Numbers, Gap
<1>4. \A u : NormaliseMSISDN(u) = LET trimmed == TrimSpace(u)
                                  IN IF trimmed = <<>> \/ trimmed[1] = Plus THEN trimmed
                                     ELSE <<Plus>> \o trimmed
  BY Zenon DEF NormaliseMSISDN, Plus
<1> HIDE DEF rest, s
<1>5. Len(rest) \in Nat /\ Len(rest) \in 1 .. Len(rest) /\ 1 \in 1 .. Len(rest)
      /\ Len(s) = Len(rest) + 1
  BY <1>1, <1>2
<1>6. rest[1] \notin Spaces /\ rest[1] # Plus /\ rest[Len(rest)] \notin Spaces
  BY <1>1, <1>5
<1>7. s # <<>> /\ s[1] \notin Spaces /\ s[Len(s)] \notin Spaces
  <2>1. s[Len(rest) + 1] = rest[Len(rest)]
    BY <1>1, <1>5
  <2> QED
    BY <1>1, <1>2, <1>5, <1>6, <2>1
<1>8. TrimSpace(s) = s /\ TrimSpace(rest) = rest /\ TrimSpace(<<Gap>> \o rest) = rest
  BY <1>1, <1>2, <1>6, <1>7, TrimSpaceIs, SpaceIsTrimmed
<1>9. <<Plus>> \o rest = s
  <2> DEFINE g == <<Plus>>
             w == g \o rest
  <2>1. g \in Seq(Rune) /\ Len(g) = 1 /\ g[1] = Plus
    BY <1>1
  <2> HIDE DEF g
  <2>2. /\ w \in Seq(Rune) /\ Len(w) = Len(g) + Len(rest)
        /\ \A i \in 1 .. Len(g) + Len(rest) : w[i] = IF i <= Len(g) THEN g[i] ELSE rest[i - Len(g)]
    BY <1>2, <2>1, ConcatProperties
  <2> HIDE DEF w
  <2>3. \A i \in 1 .. Len(s) : w[i] = s[i]
    <3> SUFFICES ASSUME NEW i \in 1 .. Len(s) PROVE w[i] = s[i]
      OBVIOUS
    <3>1. i = 1 \/ (i - 1 \in 1 .. Len(rest) /\ ~(i <= 1) /\ (i - 1) + 1 = i)
      BY <1>5
    <3> QED
      BY <1>1, <1>5, <2>1, <2>2, <3>1
  <2>4. w = s
    BY <1>2, <1>5, <2>1, <2>2, <2>3, SeqEqual
  <2> QED
    BY <2>4 DEF w, g
<1>10. NormaliseMSISDN(s) = s
  BY <1>1, <1>4, <1>8, Zenon
<1>11. NormaliseMSISDN(rest) = s /\ NormaliseMSISDN(<<Gap>> \o rest) = s
  BY <1>1, <1>4, <1>6, <1>8, <1>9, Zenon
<1> QED
  BY <1>3, <1>10, <1>11 DEF s

LEMMA PartIs ==
  ASSUME NEW R, NEW s \in Seq(R), NEW a \in Nat, NEW b \in a .. Len(s)
  PROVE  /\ SubSeq(s, a + 1, b) \in Seq(R) /\ Len(SubSeq(s, a + 1, b)) = b - a
         /\ \A m \in 1 .. b - a : SubSeq(s, a + 1, b)[m] = s[a + m]
OBVIOUS

LEMMA Concat ==
  ASSUME NEW R, NEW s \in Seq(R), NEW t \in Seq(R)
  PROVE  /\ s \o t \in Seq(R) /\ Len(s \o t) = Len(s) + Len(t)
         /\ Len(s) \in Nat /\ Len(t) \in Nat
         /\ \A i \in 1 .. Len(s) : (s \o t)[i] = s[i]
         /\ \A i \in 1 .. Len(t) : (s \o t)[Len(s) + i] = t[i]
<1>1. Len(s) \in Nat /\ Len(t) \in Nat
  OBVIOUS
<1> DEFINE w == s \o t
<1>2. /\ w \in Seq(R) /\ Len(w) = Len(s) + Len(t)
      /\ \A i \in 1 .. Len(s) + Len(t) : w[i] = IF i <= Len(s) THEN s[i] ELSE t[i - Len(s)]
  BY ConcatProperties
<1> HIDE DEF w
<1>3. \A i \in 1 .. Len(s) : i \in 1 .. Len(s) + Len(t)
  BY <1>1
<1>4. \A i \in 1 .. Len(t) : /\ Len(s) + i \in 1 .. Len(s) + Len(t) /\ ~(Len(s) + i <= Len(s))
                             /\ (Len(s) + i) - Len(s) = i
  BY <1>1
<1>5. \A i \in 1 .. Len(s) : w[i] = s[i]
  BY <1>2, <1>3
<1>6. \A i \in 1 .. Len(t) : w[Len(s) + i] = t[i]
  BY <1>2, <1>4
<1> QED
  BY <1>1, <1>2, <1>5, <1>6 DEF w

\* The text field is empty before the first answer and if that is empty.
LEMMA NothingJoined ==
  ASSUME NEW path \in Seq(Answer)
  PROVE  Joined(path) = <<>> <=> path = <<>> \/ path = << <<>> >>
<1> DEFINE All == Rune \cup {Star}
           w == Adds(path)
           N == Len(path)
<1>1. /\ w \in Seq(Seq(All)) /\ Len(w) = N /\ Joined(path) = FlattenSeq(w)
      /\ \A i \in 1 .. N : path[i] \in Seq(All)
      /\ N > 0 => w[1] = path[1]
      /\ \A i \in 2 .. N : w[i] = <<Star>> \o path[i]
  BY AddsAre
<1>2. N \in Nat /\ path \in Seq(Answer)
  OBVIOUS
<1> HIDE DEF w, All
<1>3. PICK k : IsFold(k, Len(w), w, All) /\ FlattenSeq(w) = k[Len(w)]
  BY <1>1, FlattenIs
<1>4. /\ Joined(path) = k[N]
      /\ k \in [0 .. N -> Seq(All)] /\ k[0] = <<>> /\ \A n \in 1 .. N : k[n] = k[n - 1] \o w[n]
  BY <1>1, <1>3 DEF IsFold, Puts
<1>5. CASE N = 0
  <2>1. path = <<>>
    BY <1>2, <1>5
  <2> QED
    BY <1>4, <1>5, <2>1
<1>6. CASE N = 1
  <2> DEFINE a == path[1]
  <2>1. a \in Seq(All) /\ w[1] = a /\ k[1] = k[0] \o w[1]
    <3>1. 1 \in 1 .. N /\ 1 - 1 = 0
      BY <1>6
    <3> QED
      BY <1>1, <1>4, <1>6, <3>1
  <2> HIDE DEF a
  <2>2. <<>> \o a = a
    BY <2>1
  <2>3. Joined(path) = a
    BY <1>4, <1>6, <2>1, <2>2
  <2>4. path = <<a>>
    BY <1>2, <1>6 DEF a
  <2> QED
    BY <2>3, <2>4
<1>7. CASE N >= 2
  <2> DEFINE c == k[N - 1]
             s == <<Star>>
             a == path[N]
  <2>1. N - 1 \in 0 .. N /\ N \in 1 .. N /\ N \in 2 .. N
    BY <1>2, <1>7
  <2>2. c \in Seq(All) /\ a \in Seq(All) /\ k[N] = c \o (s \o a)
    BY <1>1, <1>4, <2>1
  <2>3. s \in Seq(All) /\ Len(s) = 1
    BY DEF All
  <2> HIDE DEF c, s, a
  <2> DEFINE v == s \o a
  <2>4. v \in Seq(All) /\ Len(v) = Len(s) + Len(a) /\ Len(a) \in Nat
    BY <2>2, <2>3, Concat
  <2> HIDE DEF v
  <2>5. c \o v \in Seq(All) /\ Len(c \o v) = Len(c) + Len(v) /\ Len(c) \in Nat
    BY <2>2, <2>4, Concat
  <2>6. Len(c \o v) # 0
    BY <2>3, <2>4, <2>5
  <2>7. c \o v # <<>>
    BY <2>5, <2>6
  <2>8. path # <<>> /\ path # << <<>> >>
    <3>1. Len(<<>>) = 0 /\ Len(<< <<>> >>) = 1
      OBVIOUS
    <3>3. \A n \in Nat : n >= 2 => n # 0 /\ n # 1
      OBVIOUS
    <3>4. N \in Nat
      BY <1>2
    <3>2. N # 0 /\ N # 1
      BY <1>7, <3>3, <3>4, Zenon
    <3> QED
      BY <3>1, <3>2, Zenon
  <2> QED
    BY <1>4, <2>2, <2>7, <2>8 DEF v
<1>8. N = 0 \/ N = 1 \/ N >= 2
  <2>1. N \in Nat
    BY <1>2
  <2> HIDE DEF N
  <2> QED
    BY <2>1
<1> QED
  BY <1>5, <1>6, <1>7, <1>8, Zenon

Carries(ev, path) ==
  /\ Valid(ev) /\ ev.msisdn = Subscriber
  /\ \/ ev.path = path /\ (ev.phase = "begin" <=> path = <<>>)
     \/ network = "africastalking" /\ path = << <<>> >>

LEMMA EventsCarry ==
  ASSUME network \in Networks, NEW path \in Seq(Answer), NEW ev \in DialogueEvents(path)
  PROVE  Carries(ev, path)
<1> DEFINE phase == IF path = <<>> THEN "begin" ELSE "continue"
<1>1. Subscriber # <<>>
  BY SubscriberIs DEF Text
<1>2. \A e : Valid(e) <=> /\ e.msisdn # <<>> /\ e.phase \in Phases
                          /\ e.phase = "begin" => e.path = <<>>
                          /\ \A i \in DOMAIN e.path : Star \notin ToSet(e.path[i])
  BY Zenon DEF Valid, Star
<1>3. \A i \in DOMAIN path : Star \notin ToSet(path[i])
  <2>1. \A a \in Answer : Star \notin ToSet(a)
    <3> SUFFICES ASSUME NEW a \in Answer, Star \in ToSet(a) PROVE FALSE
      OBVIOUS
    <3>1. PICK i \in DOMAIN a : a[i] = Star
      BY DEF ToSet
    <3>2. \A j \in DOMAIN a : a[j] \in Rune \ {Star}
      BY DEF Answer
    <3> QED
      BY <3>1, <3>2
  <2>2. \A i \in DOMAIN path : path[i] \in Answer
    OBVIOUS
  <2> QED
    BY <2>1, <2>2
<1>4. "begin" \in Phases /\ "continue" \in Phases /\ "begin" # "continue"
  BY Zenon DEF Phases
<1>5. ASSUME network = "africastalking" PROVE Carries(ev, path)
  <2> DEFINE text == Joined(path)
  <2>1. DialogueEvents(path) =
          {AfricasTalkingParse([phoneNumber |-> number, text |-> text]) : number \in Numbers}
    BY <1>5, Zenon DEF DialogueEvents, Events
  <2>2. PICK number \in Numbers :
          ev = AfricasTalkingParse([phoneNumber |-> number, text |-> text])
    BY <2>1, Zenon
  <2>3. ev = [msisdn |-> NormaliseMSISDN(number), path |-> SplitPath(text),
              phase |-> PhaseFor(text)]
    BY <2>2 DEF AfricasTalkingParse
  <2> HIDE DEF text
  <2>4. ev.msisdn = Subscriber /\ ev.path = SplitPath(text) /\ ev.phase = PhaseFor(text)
    BY <2>3, NumbersAreOne
  <2>5. text = <<>> <=> path = <<>> \/ path = << <<>> >>
    BY NothingJoined DEF text
  <2>6. CASE text = <<>>
    <3>1. ev.path = <<>> /\ ev.phase = "begin"
      BY <2>4, <2>6 DEF SplitPath, PhaseFor
    <3>2. Valid(ev)
      BY <1>1, <1>2, <1>4, <2>4, <3>1
    <3> QED
      BY <1>5, <2>4, <2>5, <2>6, <3>1, <3>2 DEF Carries
  <2>7. CASE text # <<>>
    <3>1. ev.path = Segments(text) /\ ev.phase = "continue"
      BY <2>4, <2>7 DEF SplitPath, PhaseFor
    <3>2. path # <<>>
      BY <2>5, <2>7
    <3>3. ev.path = path
      BY <3>1, <3>2, SegmentsOfJoined DEF text
    <3>4. Valid(ev)
      BY <1>1, <1>2, <1>3, <1>4, <2>4, <3>1, <3>3
    <3> QED
      BY <1>4, <2>4, <3>1, <3>2, <3>3, <3>4 DEF Carries
  <2> QED
    BY <2>6, <2>7
<1>6. ASSUME network # "africastalking" PROVE Carries(ev, path)
  <2>1. phase # "cancel"
    BY Zenon
  <2>2. DialogueEvents(path) =
          {SimulatorParse([msisdn |-> Subscriber, path |-> path, phase |-> sent]) :
             sent \in {phase, NoPhase}}
    BY <1>6, <2>1, Zenon DEF DialogueEvents, Events
  <2> HIDE DEF phase
  <2>3. PICK sent \in {phase, NoPhase} :
          ev = SimulatorParse([msisdn |-> Subscriber, path |-> path, phase |-> sent])
    BY <2>2, Zenon
  <2>4. ev = [msisdn |-> Subscriber, path |-> path,
              phase |-> IF sent # NoPhase THEN sent
                        ELSE IF path = <<>> THEN "begin" ELSE "continue"]
    BY <2>3 DEF SimulatorParse
  <2>5. ev.msisdn = Subscriber /\ ev.path = path /\ ev.phase = phase
    BY <2>4 DEF phase
  <2>6. ev.phase = IF path = <<>> THEN "begin" ELSE "continue"
    BY <2>5 DEF phase
  <2>7. Valid(ev)
    BY <1>1, <1>2, <1>3, <1>4, <2>5, <2>6
  <2> QED
    BY <1>4, <2>5, <2>6, <2>7 DEF Carries
<1> QED
  BY <1>5, <1>6

----------------------------------------------------------------------------
(* The session *)

Stages == {"menu", "timeline", "post", "about"}

Dialogues == [msisdn : {Subscriber}, screen : Stages, posts : Seq(Posts),
              cursor : Nat, page : Nat, listed : Nat]

Pages(st) == {0} \cup 0 .. Len(PostPages(st)) - 1

\* What a Handle leaves for the Prompt.
Ready(st) ==
  /\ st \in Dialogues /\ Capped(st.posts)
  /\ st.screen \in {"menu", "post"} => st.listed <= Len(st.posts)
  /\ st.screen = "post" => st.cursor \in 1 .. st.listed /\ st.page \in Pages(st)

\* What the Prompt leaves for the next answer.
Steady(st) ==
  Ready(st) /\ st.screen # "about" /\ st.listed <= Len(st.posts)

LEMMA SamePages ==
  ASSUME NEW st, NEW tt, st.posts = tt.posts, st.cursor = tt.cursor
  PROVE  PostPages(st) = PostPages(tt)
BY Zenon DEF PostPages

LEMMA StagesDiffer ==
  /\ "menu" # "timeline" /\ "menu" # "post" /\ "menu" # "about"
  /\ "timeline" # "post" /\ "timeline" # "about" /\ "post" # "about"
OBVIOUS

LEMMA PagesAre ==
  ASSUME NEW st, Ready(st), st.screen = "post"
  PROVE  PostPages(st) \in Seq(Text)
<1>1. st.posts \in Seq(Posts) /\ st.cursor \in 1 .. Len(st.posts)
  <2>1. st.posts \in Seq(Posts) /\ st.cursor \in 1 .. st.listed /\ st.listed <= Len(st.posts)
        /\ st.listed \in Nat
    BY DEF Ready, Dialogues
  <2> DEFINE n == Len(st.posts)
  <2>2. n \in Nat
    BY <2>1
  <2> HIDE DEF n
  <2>3. st.cursor \in 1 .. n
    BY <2>1, <2>2 DEF n
  <2> QED
    BY <2>1, <2>3 DEF n
<1> QED
  BY <1>1, PostPagesAre

LEMMA ShownAreItems ==
  ASSUME NEW title, NEW items, NEW footer, Len(items) \in Nat
  PROVE  MenuFit(title, items, footer).shown \in 0 .. Len(items)
<1>1. CASE FitsScreen(ShownAbove(title, items, footer, 0))
  <2>1. PICK n \in 0 .. Len(items) :
          MenuFit(title, items, footer) =
            [text |-> ShownAbove(title, items, footer, n), shown |-> n]
    BY <1>1, MenuFitIs
  <2> QED
    BY <2>1
<1>2. CASE ~FitsScreen(ShownAbove(title, items, footer, 0))
  <2>1. MenuFit(title, items, footer) = [text |-> Shrink(title \o Lines(footer)), shown |-> 0]
    BY <1>2, Zenon DEF MenuFit, ShownAbove
  <2> QED
    BY <2>1
<1> QED
  BY <1>1, <1>2

\* A Prompt makes a state that is ready steady, and steady it stays.
LEMMA PromptIs ==
  ASSUME NEW st, Ready(st), NEW notice
  PROVE  LET p == Prompt(st, notice)
         IN /\ p.st.screen = st.screen
            /\ st.screen # "about" => Steady(p.st)
            /\ Prompt(p.st, notice) = p
<1> DEFINE p == Prompt(st, notice)
<1>1. /\ st \in Dialogues /\ st.screen \in Stages /\ st.posts \in Seq(Posts)
      /\ st.cursor \in Nat /\ st.page \in Nat /\ st.listed \in Nat
  BY DEF Ready, Dialogues
<1>2. CASE st.screen = "menu"
  <2>1. p = Prompted(st, MenuPrompt)
    BY <1>2, StagesDiffer DEF Prompt
  <2>2. p = [st |-> st, body |-> MenuPrompt]
    BY <2>1 DEF Prompted
  <2>3. p.st = st
    BY <2>2
  <2>4. Steady(st)
    BY <1>2 DEF Ready, Steady
  <2> HIDE DEF p
  <2>5. p.st.screen = st.screen /\ Steady(p.st) /\ Prompt(p.st, notice) = p
    BY <2>3, <2>4 DEF p
  <2> QED
    BY <2>5 DEF p
<1>3. CASE st.screen = "timeline"
  <2> DEFINE fit == TimelineFit(st.posts, notice)
             n == fit.shown
             tt == [st EXCEPT !.listed = n]
  <2>1. p = [st |-> tt, body |-> fit.text]
    BY <1>3, StagesDiffer DEF Prompt, TimelinePrompt, Prompted
  <2>2. n \in 0 .. Len(st.posts)
    <3> DEFINE items == [i \in DOMAIN st.posts |-> TimelineItem(st.posts, i)]
               title == (IF notice = <<>> THEN <<>> ELSE notice \o <<"\n">>) \o T["timeline.title"]
               footer == <<Quit>>
    <3>1. fit = MenuFit(title, items, footer)
      BY Zenon DEF TimelineFit
    <3>2. Len(items) = Len(st.posts) /\ Len(st.posts) \in Nat
      BY <1>1
    <3> HIDE DEF items, title, footer, fit
    <3> QED
      BY <3>1, <3>2, ShownAreItems
  <2> HIDE DEF fit, n
  <2>3. n \in Nat /\ n <= Len(st.posts)
    BY <1>1, <2>2
  <2>4. /\ tt \in Dialogues /\ tt.posts = st.posts /\ tt.screen = "timeline" /\ tt.listed = n
        /\ tt.cursor = st.cursor /\ tt.page = st.page
    BY <1>1, <1>3, <2>3 DEF Dialogues
  <2> HIDE DEF tt
  <2>5. Steady(tt)
    BY <2>3, <2>4, StagesDiffer DEF Ready, Steady
  <2>6. Prompt(tt, notice) = [st |-> [tt EXCEPT !.listed = n], body |-> fit.text]
    <3>1. Prompt(tt, notice) = TimelinePrompt(tt, TimelineFit(tt.posts, notice))
      BY <2>4, StagesDiffer DEF Prompt
    <3>2. TimelineFit(tt.posts, notice) = fit
      BY <2>4 DEF fit
    <3> QED
      BY <3>1, <3>2 DEF TimelinePrompt, Prompted, n
  <2>7. [tt EXCEPT !.listed = n] = tt
    BY <2>4 DEF Dialogues
  <2> HIDE DEF p
  <2>8. p.st = tt /\ Prompt(tt, notice) = p
    BY <2>1, <2>6, <2>7
  <2> QED
    BY <1>3, <2>4, <2>5, <2>8 DEF p
<1>4. CASE st.screen = "post"
  <2> DEFINE pages == PostPages(st)
             at == PageShown(st, pages)
             tt == [st EXCEPT !.page = at]
  <2>1. p = PostPrompt(st, pages)
    BY <1>4, StagesDiffer DEF Prompt
  <2>2. pages \in Seq(Text) /\ Len(pages) \in Nat
    BY <1>4, PagesAre
  <2>3. Steady(st)
    BY <1>4, StagesDiffer DEF Ready, Steady
  <2>4. CASE pages = <<>>
    <3>1. p = [st |-> st, body |-> T["error.empty"]]
      BY <2>1, <2>4 DEF PostPrompt, Prompted
    <3>2. p.st = st
      BY <3>1
    <3> HIDE DEF p
    <3>3. p.st.screen = st.screen /\ Steady(p.st) /\ Prompt(p.st, notice) = p
      BY <2>3, <3>2 DEF p
    <3> QED
      BY <3>3 DEF p
  <2>5. CASE pages # <<>>
    <3> HIDE DEF pages
    <3>1. p = [st |-> tt, body |-> PostPage(st, pages, at)]
      BY <2>1, <2>5 DEF PostPrompt, Prompted
    <3>2. Len(pages) # 0 /\ Len(pages) \in Nat
      BY <2>2, <2>5
    <3>3. at \in 0 .. Len(pages) - 1 /\ at \in Nat
      BY <1>1, <3>2 DEF PageShown, Least
    <3>7. st.page \in Nat /\ Least(at, Len(pages) - 1) = at
      BY <1>1, <3>2, <3>3 DEF Least
    <3> HIDE DEF at
    <3>4. /\ tt \in Dialogues /\ tt.posts = st.posts /\ tt.screen = "post" /\ tt.listed = st.listed
          /\ tt.cursor = st.cursor /\ tt.page = at
      BY <1>1, <1>4, <3>3 DEF Dialogues
    <3> HIDE DEF tt
    <3>5. PostPages(tt) = pages
      BY <3>4, SamePages DEF pages
    <3>6. Steady(tt)
      <4>1. at \in Pages(tt)
        BY <3>3, <3>5 DEF Pages
      <4>2. /\ Capped(st.posts) /\ st.listed <= Len(st.posts)
            /\ st.cursor \in 1 .. st.listed
        BY <1>4, <2>3 DEF Ready, Steady
      <4>3. Ready(tt)
        BY <3>4, <4>1, <4>2 DEF Ready
      <4> QED
        BY <3>4, <4>2, <4>3, StagesDiffer DEF Steady
    <3>8. Prompt(tt, notice) = [st |-> [tt EXCEPT !.page = at], body |-> PostPage(tt, pages, at)]
      <4>1. Prompt(tt, notice) = PostPrompt(tt, pages)
        BY <3>4, <3>5, StagesDiffer DEF Prompt
      <4>2. PageShown(tt, pages) = at
        BY <3>4, <3>7 DEF PageShown
      <4> QED
        BY <2>5, <4>1, <4>2 DEF PostPrompt, Prompted
    <3>9. [tt EXCEPT !.page = at] = tt
      BY <3>4 DEF Dialogues
    <3>10. PostPage(tt, pages, at) = PostPage(st, pages, at)
      BY <3>4, Zenon DEF PostPage
    <3> HIDE DEF p
    <3>11. p.st = tt /\ Prompt(tt, notice) = p
      BY <3>1, <3>8, <3>9, <3>10
    <3> QED
      BY <1>4, <3>4, <3>6, <3>11 DEF p
  <2> QED
    BY <2>4, <2>5
<1>5. CASE st.screen = "about"
  <2>1. p = [st |-> st, body |-> T["about.body"]]
    BY <1>5, StagesDiffer DEF Prompt, Prompted
  <2>2. p.st = st
    BY <2>1
  <2> HIDE DEF p
  <2>3. p.st.screen = st.screen /\ Prompt(p.st, notice) = p
    BY <2>2 DEF p
  <2> QED
    BY <1>5, <2>3 DEF p
<1> QED
  BY <1>1, <1>2, <1>3, <1>4, <1>5 DEF Stages

----------------------------------------------------------------------------
(* A turn *)

\* What may stand above a screen: only the menu fetches.
Notices(screen) ==
  {<<>>, T["error.choice"]} \cup (IF screen = "menu" THEN {T["error.fetch"]} ELSE {})

\* What a Handle answers with: the end, or a state ready for its Prompt.
Goes(done) ==
  /\ done.ends \in BOOLEAN /\ done.notice \in Notices(done.st.screen)
  /\ done.ends \/ Ready(done.st)

LEMMA StayGoes ==
  ASSUME NEW st, Ready(st), NEW notice \in Notices(st.screen)
  PROVE  Goes(Stay(st, notice))
<1> DEFINE done == Stay(st, notice)
<1>1. done.ends = FALSE /\ done.notice = notice /\ done.st = st
  BY DEF Stay
<1> HIDE DEF done
<1>2. Goes(done)
  BY <1>1, Zenon DEF Goes
<1> QED
  BY <1>2 DEF done

LEMMA GotoGoes ==
  ASSUME NEW st, NEW screen, Ready([st EXCEPT !.screen = screen])
  PROVE  Goes(Goto(st, screen))
BY StayGoes, Zenon DEF Goto, Notices

LEMMA FinishGoes ==
  ASSUME NEW st
  PROVE  Goes(Finish(st))
<1> DEFINE done == Finish(st)
<1>1. done.ends = TRUE /\ done.notice = <<>>
  BY DEF Finish
<1> HIDE DEF done
<1>2. Goes(done)
  BY <1>1, Zenon DEF Goes, Notices
<1> QED
  BY <1>2 DEF done

LEMMA MenuGoes ==
  ASSUME NEW st, Steady(st), st.screen = "menu",
         NEW input, NEW fetched \in Timelines \cup {Unreachable}
  PROVE  Goes(HandleMenu(st, input, fetched))
<1> DEFINE posts == [i \in DOMAIN fetched |-> ToPost(fetched[i])]
           read == [st EXCEPT !.posts = posts]
<1>1. /\ st \in Dialogues /\ st.posts \in Seq(Posts)
      /\ Capped(st.posts) /\ st.listed <= Len(st.posts) /\ Ready(st)
  BY DEF Steady, Ready, Dialogues
<1>2. T["error.choice"] \in Notices(st.screen) /\ T["error.fetch"] \in Notices(st.screen)
  BY Zenon DEF Notices
<1>3. ASSUME fetched # Unreachable
      PROVE  Goes(Goto(read, "timeline"))
  <2> DEFINE S == Statuses(Seq(Statuses({<<>>})))
  <2>1. fetched \in Seq(S)
    BY <1>3, Sizes, Zenon
  <2>2. \A s \in S : ToPost(s) \in Posts /\ Bytes(ToPost(s).text) <= MaxPostBytes
    BY ToPostIs
  <2> HIDE DEF S
  <2>3. /\ posts \in Seq(Posts)
        /\ \A i \in DOMAIN posts : posts[i] = ToPost(fetched[i]) /\ fetched[i] \in S
    <3>1. fetched \in [1 .. Len(fetched) -> S] /\ Len(fetched) \in Nat
      BY <2>1
    <3>2. posts \in [1 .. Len(fetched) -> Posts]
      BY <2>2, <3>1
    <3> HIDE DEF posts
    <3>3. posts \in Seq(Posts) /\ Len(posts) = Len(fetched)
      <4> HIDE DEF Posts
      <4> QED
        BY <3>1, <3>2
    <3> QED
      BY <2>1, <3>1, <3>3 DEF posts
  <2>4. Capped(posts)
    BY <2>2, <2>3 DEF Capped
  <2> HIDE DEF posts
  <2> DEFINE next == [read EXCEPT !.screen = "timeline"]
  <2>5. next \in Dialogues /\ next.posts = posts /\ next.screen = "timeline"
    BY <1>1, <2>3 DEF Dialogues, Stages
  <2> HIDE DEF next
  <2>6. Ready(next)
    BY <2>3, <2>4, <2>5, StagesDiffer DEF Ready
  <2> QED
    BY <2>6, GotoGoes DEF next
<1> DEFINE about == [st EXCEPT !.screen = "about"]
<1>4. /\ about \in Dialogues /\ about.posts = st.posts /\ about.screen = "about"
      /\ about.listed = st.listed
  BY <1>1 DEF Dialogues, Stages
<1>5. Ready(about)
  <2> HIDE DEF about
  <2> QED
    BY <1>1, <1>4, StagesDiffer DEF Ready
<1>6. Goes(Goto(st, "about"))
  BY <1>5, GotoGoes
<1>7. Goes(Stay(st, T["error.choice"])) /\ Goes(Stay(st, T["error.fetch"])) /\ Goes(Finish(st))
  BY <1>1, <1>2, StayGoes, FinishGoes
<1> HIDE DEF read
<1>8. CASE input = <<"1">>
  <2>1. HandleMenu(st, input, fetched) =
          IF fetched = Unreachable THEN Stay(st, T["error.fetch"]) ELSE Goto(read, "timeline")
    BY <1>8 DEF HandleMenu, read
  <2> QED
    BY <1>3, <1>7, <2>1
<1>9. CASE input # <<"1">>
  <2>1. HandleMenu(st, input, fetched) \in
          {Goto(st, "about"), Finish(st), Stay(st, T["error.choice"])}
    BY <1>9 DEF HandleMenu
  <2> QED
    BY <1>6, <1>7, <2>1
<1> QED
  BY <1>8, <1>9

LEMMA TimelineGoes ==
  ASSUME NEW st, Steady(st), st.screen = "timeline", NEW input
  PROVE  Goes(HandleTimeline(st, input))
<1> DEFINE next == [[st EXCEPT !.cursor = Number(input), !.page = 0] EXCEPT !.screen = "post"]
<1>1. /\ st \in Dialogues /\ st.posts \in Seq(Posts) /\ st.listed \in Nat
      /\ Capped(st.posts) /\ st.listed <= Len(st.posts) /\ Ready(st)
  BY DEF Steady, Ready, Dialogues
<1>2. T["error.choice"] \in Notices(st.screen)
  BY Zenon DEF Notices
<1>3. ASSUME Number(input) \in 1 .. st.listed PROVE Ready(next)
  <2>1. Number(input) \in Nat
    BY <1>1, <1>3
  <2>2. /\ next \in Dialogues /\ next.posts = st.posts /\ next.screen = "post"
        /\ next.listed = st.listed /\ next.cursor = Number(input) /\ next.page = 0
    BY <1>1, <2>1 DEF Dialogues, Stages
  <2> HIDE DEF next
  <2>3. next.page \in Pages(next)
    BY <2>2 DEF Pages
  <2> QED
    BY <1>1, <1>3, <2>2, <2>3 DEF Ready
<1>4. Number(input) \in 1 .. st.listed
        => Goes(Goto([st EXCEPT !.cursor = Number(input), !.page = 0], "post"))
  BY <1>3, GotoGoes
<1>5. Goes(Stay(st, T["error.choice"])) /\ Goes(Finish(st))
  BY <1>1, <1>2, StayGoes, FinishGoes
<1> QED
  BY <1>4, <1>5, Zenon DEF HandleTimeline

LEMMA PostGoes ==
  ASSUME NEW st, Steady(st), st.screen = "post", NEW input
  PROVE  Goes(HandlePost(st, input))
<1> DEFINE turned(n) == [[st EXCEPT !.page = n] EXCEPT !.screen = "post"]
           back == [st EXCEPT !.screen = "timeline"]
<1>1. /\ st \in Dialogues /\ st.posts \in Seq(Posts)
      /\ Capped(st.posts) /\ st.listed <= Len(st.posts) /\ Ready(st)
      /\ st.cursor \in 1 .. st.listed /\ st.page \in Pages(st) /\ st.page \in Nat
  BY DEF Steady, Ready, Dialogues
<1>2. T["error.choice"] \in Notices(st.screen)
  BY Zenon DEF Notices
<1>3. Len(PostPages(st)) \in Nat
  BY <1>1, PagesAre
<1>4. ASSUME NEW n \in Nat, n \in Pages(st) PROVE Ready(turned(n))
  <2> DEFINE next == turned(n)
  <2>1. /\ next \in Dialogues /\ next.posts = st.posts /\ next.screen = "post"
        /\ next.listed = st.listed /\ next.cursor = st.cursor /\ next.page = n
    BY <1>1, <1>4 DEF Dialogues, Stages
  <2> HIDE DEF next
  <2>2. Pages(next) = Pages(st)
    BY <2>1, SamePages DEF Pages
  <2>3. Ready(next)
    BY <1>1, <1>4, <2>1, <2>2 DEF Ready
  <2> QED
    BY <2>3 DEF next
<1>5. Ready(back)
  <2>1. /\ back \in Dialogues /\ back.posts = st.posts /\ back.screen = "timeline"
    BY <1>1 DEF Dialogues, Stages
  <2> HIDE DEF back
  <2> QED
    BY <1>1, <2>1, StagesDiffer DEF Ready
<1>6. Goes(Stay(st, T["error.choice"])) /\ Goes(Goto(st, "timeline"))
  BY <1>1, <1>2, <1>5, StayGoes, GotoGoes
<1>7. ASSUME st.page < Len(PostPages(st)) - 1
      PROVE  Goes(Goto([st EXCEPT !.page = @ + 1], "post"))
  <2>1. st.page + 1 \in Nat /\ st.page + 1 \in Pages(st)
    BY <1>1, <1>3, <1>7 DEF Pages
  <2>2. Ready([[st EXCEPT !.page = @ + 1] EXCEPT !.screen = "post"])
    BY <1>4, <2>1
  <2> QED
    BY <2>2, GotoGoes
<1>8. ASSUME st.page > 0
      PROVE  Goes(Goto([st EXCEPT !.page = @ - 1], "post"))
  <2>1. st.page - 1 \in Nat /\ st.page - 1 \in Pages(st)
    BY <1>1, <1>3, <1>8 DEF Pages
  <2>2. Ready([[st EXCEPT !.page = @ - 1] EXCEPT !.screen = "post"])
    BY <1>4, <2>1
  <2> QED
    BY <2>2, GotoGoes
<1>9. CASE input = <<"1">> /\ st.page < Len(PostPages(st)) - 1
  BY <1>7, <1>9 DEF HandlePost
<1>10. CASE input = <<"2">> /\ st.page > 0
  BY <1>8, <1>10 DEF HandlePost
<1>11. CASE /\ ~(input = <<"1">> /\ st.page < Len(PostPages(st)) - 1)
            /\ ~(input = <<"2">> /\ st.page > 0)
  <2>1. HandlePost(st, input) \in {Goto(st, "timeline"), Stay(st, T["error.choice"])}
    BY <1>11 DEF HandlePost
  <2> QED
    BY <1>6, <2>1
<1> QED
  BY <1>9, <1>10, <1>11

LEMMA HandleGoes ==
  ASSUME NEW st, Steady(st), NEW input, NEW fetched \in Timelines \cup {Unreachable}
  PROVE  Goes(Handle(st, input, fetched))
<1>1. st.screen \in {"menu", "timeline", "post"}
  BY DEF Steady, Ready, Dialogues, Stages
<1>2. CASE st.screen = "menu"
  BY <1>2, StagesDiffer, MenuGoes DEF Handle
<1>3. CASE st.screen = "timeline"
  BY <1>3, StagesDiffer, TimelineGoes DEF Handle
<1>4. CASE st.screen = "post"
  BY <1>4, StagesDiffer, PostGoes DEF Handle
<1> QED
  BY <1>1, <1>2, <1>3, <1>4

\* What the handset reads of a stored dialogue, below which notice.
OnScreen(st, body) ==
  \E notice \in Notices(st.screen) :
    /\ Prompt(st, notice).st = st
    /\ body = Shrink(Noticed(notice, Prompt(st, notice).body))

\* What a turn leaves.
Settles(turn) ==
  /\ turn.handset.shows \in {"menu", "end"}
  /\ turn.session # NoSession => Steady(turn.session)
  /\ turn.session # NoSession /\ turn.handset.shows = "menu"
       => OnScreen(turn.session, turn.handset.body)

LEMMA RenderedSettles ==
  ASSUME NEW prompt, NEW notice \in Notices(prompt.st.screen),
         prompt.st.screen # "about" => Steady(prompt.st), Prompt(prompt.st, notice) = prompt
  PROVE  Settles(Rendered(notice, prompt))
<1> DEFINE turn == Rendered(notice, prompt)
           body == Shrink(Noticed(notice, prompt.body))
<1>1. turn = IF prompt.st.screen = "about"
             THEN [session |-> NoSession, handset |-> [shows |-> "end", body |-> body]]
             ELSE [session |-> prompt.st, handset |-> [shows |-> "menu", body |-> body]]
  BY Zenon DEF Rendered
<1>2. OnScreen(prompt.st, body)
  BY Zenon DEF OnScreen
<1> HIDE DEF turn, body
<1>3. CASE prompt.st.screen = "about"
  <2>1. turn.session = NoSession /\ turn.handset.shows = "end"
    BY <1>1, <1>3
  <2>2. Settles(turn)
    BY <2>1 DEF Settles
  <2> QED
    BY <2>2 DEF turn
<1>4. CASE prompt.st.screen # "about"
  <2>1. /\ turn.session = prompt.st /\ turn.handset.shows = "menu"
        /\ turn.handset.body = body
    BY <1>1, <1>4
  <2>2. Settles(turn)
    BY <1>2, <1>4, <2>1 DEF Settles
  <2> QED
    BY <2>2 DEF turn
<1> QED
  BY <1>3, <1>4

LEMMA DoneSettles ==
  ASSUME NEW done, Goes(done)
  PROVE  Settles(Settled(done))
<1>1. CASE done.ends
  <2> DEFINE turn == Settled(done)
  <2>1. turn = [session |-> NoSession,
                handset |-> [shows |-> "end", body |-> Shrink(T["session.ended"])]]
    BY <1>1, Zenon DEF Settled
  <2>2. turn.session = NoSession /\ turn.handset.shows = "end"
    BY <2>1
  <2> HIDE DEF turn
  <2>3. Settles(turn)
    BY <2>2 DEF Settles
  <2> QED
    BY <2>3 DEF turn
<1>2. CASE ~done.ends
  <2> DEFINE prompt == Prompt(done.st, done.notice)
  <2>1. Ready(done.st) /\ done.notice \in Notices(done.st.screen)
    BY <1>2 DEF Goes
  <2>2. Settled(done) = Rendered(done.notice, prompt)
    BY <1>2, Zenon DEF Settled
  <2>3. /\ prompt.st.screen = done.st.screen
        /\ done.st.screen # "about" => Steady(prompt.st)
        /\ Prompt(prompt.st, done.notice) = prompt
    BY <2>1, PromptIs
  <2> HIDE DEF prompt
  <2>4. /\ done.notice \in Notices(prompt.st.screen)
        /\ prompt.st.screen # "about" => Steady(prompt.st)
    BY <2>1, <2>3
  <2>5. Settles(Rendered(done.notice, prompt))
    BY <2>3, <2>4, RenderedSettles
  <2> QED
    BY <2>2, <2>5
<1> QED
  BY <1>1, <1>2

LEMMA BlankIsSteady ==
  Steady(Blank(Subscriber))
<1> DEFINE st == Blank(Subscriber)
<1>1. /\ st = [msisdn |-> Subscriber, screen |-> "menu", posts |-> <<>>,
               cursor |-> 1, page |-> 0, listed |-> 0]
  BY DEF Blank
<1>2. /\ st \in Dialogues /\ st.screen = "menu" /\ st.posts = <<>> /\ st.listed = 0
  BY <1>1 DEF Dialogues, Stages
<1> HIDE DEF st
<1>3. Len(st.posts) = 0 /\ Capped(st.posts)
  BY <1>2 DEF Capped
<1>4. Ready(st)
  BY <1>2, <1>3, StagesDiffer DEF Ready
<1>5. Steady(st)
  BY <1>2, <1>3, <1>4, StagesDiffer DEF Steady
<1> QED
  BY <1>5 DEF st

LEMMA TurnSettles ==
  ASSUME session # NoSession => Steady(session),
         NEW ev, ev.msisdn = Subscriber, NEW fetched \in Timelines \cup {Unreachable}
  PROVE  Settles(Turn(ev, fetched))
<1> DEFINE st == Resumed(ev)
           input == ev.path[Len(ev.path)]
<1>1. Steady(st)
  BY BlankIsSteady, Zenon DEF Resumed
<1>2. Ready(st)
  BY <1>1 DEF Steady
<1> HIDE DEF st
<1>3. <<>> \in Notices(st.screen)
  BY Zenon DEF Notices
<1>4. Goes(Stay(st, <<>>)) /\ Goes(Handle(st, input, fetched))
  BY <1>1, <1>2, <1>3, StayGoes, HandleGoes
<1>5. Settles(Settled(Stay(st, <<>>))) /\ Settles(Settled(Handle(st, input, fetched)))
  BY <1>4, DoneSettles
<1> QED
  BY <1>5, Zenon DEF Turn, st

----------------------------------------------------------------------------
(* The invariant *)

Typed ==
  /\ network \in Networks
  /\ answers \in Seq(Answer) /\ Len(answers) <= MaxAnswers
  /\ handset.shows \in {"nothing", "menu", "end"}
  /\ session # NoSession => Steady(session)
  /\ Answerable => OnScreen(session, handset.body)

LEMMA InitTyped == Init => Typed
<1> SUFFICES ASSUME Init PROVE Typed
  OBVIOUS
<1>1. MaxAnswers \in Nat
  BY Sizes
<1>2. handset.shows = "nothing"
  BY DEF Init
<1> QED
  BY <1>1, <1>2 DEF Init, Typed, Answerable

LEMMA CallbackSettles ==
  ASSUME Typed, NEW path \in Seq(Answer), Callback(path)
  PROVE  /\ handset'.shows \in {"menu", "end"}
         /\ session' # NoSession => Steady(session')
         /\ Answerable' => OnScreen(session', handset'.body)
<1>1. PICK ev \in DialogueEvents(path), fetched \in Fetches :
        \E turn \in {Turn(ev, fetched)} : session' = turn.session /\ handset' = turn.handset
  BY Zenon DEF Callback
<1>2. network \in Networks /\ (session # NoSession => Steady(session))
  BY DEF Typed
<1>3. fetched \in Timelines \cup {Unreachable}
  BY Zenon DEF Fetches
<1>5. ev.msisdn = Subscriber
  BY <1>2, EventsCarry DEF Carries
<1> DEFINE turn == Turn(ev, fetched)
<1>4. Settles(turn) /\ session' = turn.session /\ handset' = turn.handset
  BY <1>1, <1>2, <1>3, <1>5, TurnSettles
<1> HIDE DEF turn
<1> QED
  BY <1>1, <1>4 DEF Settles, Answerable

LEMMA StepTyped == Typed /\ [Next]_vars => Typed'
<1> SUFFICES ASSUME Typed, [Next]_vars PROVE Typed'
  OBVIOUS
<1>1. MaxAnswers \in Nat
  BY Sizes
<1>2. CASE Dial
  <2>1. answers' = <<>> /\ answers' \in Seq(Answer) /\ Len(answers') <= MaxAnswers
    BY <1>1, <1>2 DEF Dial
  <2>2. /\ handset'.shows \in {"menu", "end"} /\ (session' # NoSession => Steady(session'))
        /\ (Answerable' => OnScreen(session', handset'.body))
    <3>1. Callback(<<>>) /\ <<>> \in Seq(Answer)
      BY <1>2 DEF Dial
    <3> QED
      BY <3>1, CallbackSettles
  <2>3. network' = network
    BY <1>2 DEF Dial
  <2> QED
    BY <2>1, <2>2, <2>3 DEF Typed
<1>3. ASSUME NEW input \in Inputs, Reply(input) PROVE Typed'
  <2> DEFINE typed == IF network = "simulator" THEN TrimSpace(input) ELSE input
  <2>1. input \in Answer
    BY FediverseAssumption, Zenon DEF Answer, Star
  <2>2. TrimSpace(input) \in Answer
    BY <2>1, TrimSpaceIs DEF Answer
  <2>3. typed \in Answer
    BY <2>1, <2>2
  <2>4. answers' = Append(answers, typed) /\ Len(answers) < MaxAnswers /\ network' = network
    BY <1>3, Zenon DEF Reply
  <2> HIDE DEF typed
  <2>5. answers' \in Seq(Answer) /\ Len(answers') <= MaxAnswers
    <3>1. answers \in Seq(Answer)
      BY DEF Typed
    <3> HIDE DEF Answer
    <3> QED
      BY <1>1, <2>3, <2>4, <3>1
  <2>6. /\ handset'.shows \in {"menu", "end"} /\ (session' # NoSession => Steady(session'))
        /\ (Answerable' => OnScreen(session', handset'.body))
    BY <1>3, <2>5, CallbackSettles DEF Reply
  <2> QED
    BY <2>4, <2>5, <2>6 DEF Typed
<1>4. CASE HangUp
  <2>1. handset'.shows = "nothing" /\ network' = network /\ answers' = answers
    BY <1>4 DEF HangUp
  <2>2. session' = session \/ session' = NoSession
    BY <1>4 DEF HangUp
  <2> QED
    BY <2>1, <2>2 DEF Typed, Answerable
<1>5. CASE Expire
  BY <1>5 DEF Expire, Typed, Answerable
<1>6. CASE UNCHANGED vars
  <2>1. Answerable' <=> Answerable
    BY <1>6 DEF vars, Answerable
  <2> QED
    BY <1>6, <2>1 DEF vars, Typed
<1> QED
  BY <1>2, <1>3, <1>4, <1>5, <1>6 DEF Next

LEMMA Invariant == Spec => []Typed
BY InitTyped, StepTyped, PTL DEF Spec

(***************************************************************************)
(* Every stored dialogue is of its type: on a page that exists, of a post  *)
(* that was fetched and is listed, and no post takes more than its share   *)
(* of the session, whatever the instance answers (main.go:129-165,         *)
(* mastodon.go:88-131).                                                    *)
(***************************************************************************)
THEOREM FediverseTypeCorrect == Spec => []TypeOK
<1>1. Typed => TypeOK
  <2> SUFFICES ASSUME Typed PROVE TypeOK
    OBVIOUS
  <2>1. ASSUME session # NoSession
        PROVE  /\ session.screen \in {"menu", "timeline", "post"}
               /\ session.listed \in 0 .. Len(session.posts)
               /\ \A i \in DOMAIN session.posts : Bytes(session.posts[i].text) <= MaxPostBytes
               /\ session.screen = "post" =>
                    /\ session.cursor \in 1 .. session.listed
                    /\ session.page \in {0} \cup 0 .. Len(PostPages(session)) - 1
    <3>1. Steady(session)
      BY <2>1 DEF Typed
    <3>2. /\ session.screen \in Stages /\ session.screen # "about" /\ session.listed \in Nat
          /\ session.listed <= Len(session.posts) /\ session.posts \in Seq(Posts)
      BY <3>1 DEF Steady, Ready, Dialogues
    <3>3. session.listed \in 0 .. Len(session.posts)
      <4> DEFINE n == Len(session.posts)
      <4>1. n \in Nat
        BY <3>2
      <4> HIDE DEF n
      <4>2. session.listed \in 0 .. n
        BY <3>2, <4>1 DEF n
      <4> QED
        BY <4>2 DEF n
    <3>4. Capped(session.posts)
          /\ (session.screen = "post" =>
                session.cursor \in 1 .. session.listed /\ session.page \in Pages(session))
      BY <3>1 DEF Steady, Ready
    <3> QED
      BY <3>2, <3>3, <3>4, Zenon DEF Stages, Capped, Pages
  <2> QED
    BY <2>1, Zenon DEF Typed, TypeOK
<1> QED
  BY <1>1, Invariant, PTL

(***************************************************************************)
(* An event carries the dialogue, through either network and in whatever   *)
(* notation the number arrives: splitting undoes the joining of any        *)
(* answers, empty ones included (africastalking/adapter.go:147-174,        *)
(* simulator/adapter.go:85-91).                                            *)
(***************************************************************************)
THEOREM EventsAreTheDialogue == Spec => []EventIsTheDialogue
<1>1. Typed => EventIsTheDialogue
  <2> SUFFICES ASSUME Typed, NEW ev \in DialogueEvents(answers) PROVE Carries(ev, answers)
    BY Zenon DEF EventIsTheDialogue, Carries
  <2> QED
    BY EventsCarry DEF Typed
<1> QED
  BY <1>1, Invariant, PTL

----------------------------------------------------------------------------
(* The keys on a screen *)

LEMMA IsConcat ==
  ASSUME NEW X, NEW s \in Seq(X), NEW t \in Seq(X), NEW w \in Seq(X),
         Len(w) = Len(s) + Len(t),
         \A i \in 1 .. Len(s) : w[i] = s[i], \A i \in 1 .. Len(t) : w[Len(s) + i] = t[i]
  PROVE  s \o t = w
<1> DEFINE u == s \o t
<1>1. /\ u \in Seq(X) /\ Len(u) = Len(s) + Len(t) /\ Len(s) \in Nat /\ Len(t) \in Nat
      /\ \A i \in 1 .. Len(s) + Len(t) : u[i] = IF i <= Len(s) THEN s[i] ELSE t[i - Len(s)]
  BY ConcatProperties
<1> HIDE DEF u
<1>2. \A i \in 1 .. Len(w) : u[i] = w[i]
  <2> SUFFICES ASSUME NEW i \in 1 .. Len(w) PROVE u[i] = w[i]
    OBVIOUS
  <2>1. CASE i <= Len(s)
    BY <1>1, <2>1
  <2>2. CASE ~(i <= Len(s))
    <3>1. i - Len(s) \in 1 .. Len(t) /\ Len(s) + (i - Len(s)) = i
      BY <1>1, <2>2
    <3> QED
      BY <1>1, <2>2, <3>1
  <2> QED
    BY <2>1, <2>2
<1>3. u = w
  BY <1>1, <1>2, SeqEqual
<1> QED
  BY <1>3 DEF u

LEMMA Tuples ==
  ASSUME NEW a, NEW b, NEW c
  PROVE  /\ <<a>> \o <<b>> = <<a, b>>
         /\ <<a, b>> \o <<c>> = <<a, b, c>>
         /\ <<a>> \o <<b, c>> = <<a, b, c>>
<1> DEFINE X == {a, b, c}
<1>1. <<a>> \o <<b>> = <<a, b>>
  <2>1. /\ <<a>> \in Seq(X) /\ <<b>> \in Seq(X) /\ <<a, b>> \in Seq(X)
        /\ Len(<<a, b>>) = Len(<<a>>) + Len(<<b>>)
        /\ \A i \in 1 .. Len(<<a>>) : <<a, b>>[i] = <<a>>[i]
        /\ \A i \in 1 .. Len(<<b>>) : <<a, b>>[Len(<<a>>) + i] = <<b>>[i]
    <3>1. Len(<<a>>) = 1 /\ Len(<<b>>) = 1 /\ 1 .. 1 = {1} /\ 1 + 1 = 2
      OBVIOUS
    <3>2. <<a, b>>[2] = b /\ <<b>>[1] = b
      OBVIOUS
    <3>3. \A i \in 1 .. Len(<<b>>) : <<a, b>>[Len(<<a>>) + i] = <<b>>[i]
      BY <3>1, <3>2, Zenon
    <3>4. /\ <<a>> \in Seq(X) /\ <<b>> \in Seq(X) /\ <<a, b>> \in Seq(X)
          /\ Len(<<a, b>>) = Len(<<a>>) + Len(<<b>>)
          /\ \A i \in 1 .. Len(<<a>>) : <<a, b>>[i] = <<a>>[i]
      OBVIOUS
    <3> QED
      BY <3>3, <3>4
  <2> QED
    BY <2>1, IsConcat, Zenon
<1>2. <<a, b>> \o <<c>> = <<a, b, c>>
  <2>1. /\ <<a, b>> \in Seq(X) /\ <<c>> \in Seq(X) /\ <<a, b, c>> \in Seq(X)
        /\ Len(<<a, b, c>>) = Len(<<a, b>>) + Len(<<c>>)
        /\ \A i \in 1 .. Len(<<a, b>>) : <<a, b, c>>[i] = <<a, b>>[i]
        /\ \A i \in 1 .. Len(<<c>>) : <<a, b, c>>[Len(<<a, b>>) + i] = <<c>>[i]
    OBVIOUS
  <2> QED
    BY <2>1, IsConcat, Zenon
<1>3. <<a>> \o <<b, c>> = <<a, b, c>>
  <2>1. /\ <<a>> \in Seq(X) /\ <<b, c>> \in Seq(X) /\ <<a, b, c>> \in Seq(X)
        /\ Len(<<a, b, c>>) = Len(<<a>>) + Len(<<b, c>>)
        /\ \A i \in 1 .. Len(<<a>>) : <<a, b, c>>[i] = <<a>>[i]
        /\ \A i \in 1 .. Len(<<b, c>>) : <<a, b, c>>[Len(<<a>>) + i] = <<b, c>>[i]
    OBVIOUS
  <2> QED
    BY <2>1, IsConcat, Zenon
<1> QED
  BY <1>1, <1>2, <1>3

\* One text after another, rune by rune.
Follows(R, s, t, w) ==
  /\ w \in Seq(R) /\ Len(w) = Len(s) + Len(t)
  /\ \A i \in 1 .. Len(s) : w[i] = s[i]
  /\ \A i \in 1 .. Len(t) : w[Len(s) + i] = t[i]

LEMMA FollowsIs ==
  ASSUME NEW R, NEW s \in Seq(R), NEW t \in Seq(R)
  PROVE  Follows(R, s, t, s \o t)
<1> DEFINE u == s \o t
<1>1. /\ u \in Seq(R) /\ Len(u) = Len(s) + Len(t) /\ Len(s) \in Nat /\ Len(t) \in Nat
      /\ \A i \in 1 .. Len(s) + Len(t) : u[i] = IF i <= Len(s) THEN s[i] ELSE t[i - Len(s)]
  BY ConcatProperties
<1> HIDE DEF u
<1>2. \A i \in 1 .. Len(s) : u[i] = s[i]
  BY <1>1
<1>3. \A i \in 1 .. Len(t) : u[Len(s) + i] = t[i]
  <2> TAKE i \in 1 .. Len(t)
  <2>1. Len(s) + i \in 1 .. Len(s) + Len(t) /\ ~(Len(s) + i <= Len(s))
        /\ Len(s) + i - Len(s) = i
    BY <1>1
  <2> QED
    BY <1>1, <2>1
<1> QED
  BY <1>1, <1>2, <1>3 DEF Follows, u

\* The names a key may have.
KeyNames == Seq(Numeral) \ {<<>>}

Keyed(r, k) == <<r>> \o k \o Stop

LEMMA KeyNamesAre ==
  /\ <<"0">> \in KeyNames /\ <<"1">> \in KeyNames /\ <<"2">> \in KeyNames
  /\ \A k \in KeyNames : k \in Seq(Rune \ Breaks) \ {<<>>} /\ k \in Text
  /\ \A n \in Nat : Decimal(n) \in KeyNames
<1>1. Numeral \subseteq Rune /\ Numeral \subseteq Rune \ Breaks
  BY DigitsAre, Alphabets, Zenon DEF Numeral
<1>2. "0" \in Numeral /\ "1" \in Numeral /\ "2" \in Numeral
  BY DigitsAre, Zenon DEF Numeral
<1>3. \A d \in Numeral : <<d>> \in KeyNames
  <2> HIDE DEF Numeral
  <2> QED
    BY DEF KeyNames
<1>4. \A k \in KeyNames : k \in Seq(Rune \ Breaks) \ {<<>>} /\ k \in Text
  BY <1>1 DEF KeyNames, Text
<1>5. ASSUME NEW n \in Nat PROVE Decimal(n) \in KeyNames
  <2> DEFINE ds == Decimal(n)
  <2>1. ds \in Seq(Numeral) /\ Len(ds) >= 1
    BY DecimalIsDigits
  <2> HIDE DEF ds
  <2>2. ds # <<>>
    BY <2>1
  <2> QED
    BY <2>1, <2>2 DEF KeyNames, ds
<1> QED
  BY <1>2, <1>3, <1>4, <1>5, Zenon

LEMMA KeyedIs ==
  ASSUME NEW r \in {NewLine, Gap}, NEW k \in Text
  PROVE  /\ Keyed(r, k) \in Text /\ Keyed(r, k) \in Seq(Rune)
         /\ Len(Keyed(r, k)) = Len(k) + 3
         /\ Keyed(r, k)[1] = r /\ \A m \in 1 .. Len(k) : Keyed(r, k)[m + 1] = k[m]
         /\ Keyed(r, k)[Len(k) + 2] = "." /\ Keyed(r, k)[Len(k) + 3] = Gap
<1> DEFINE a == <<r>>
<1>1. r \in Rune /\ Stop \in Seq(Rune) /\ Len(Stop) = 2 /\ Stop[1] = "." /\ Stop[2] = Gap
  <2>1. Stop = <<".", Gap>>
    BY Zenon DEF Stop, Gap
  <2> QED
    BY <2>1, Alphabet, Separators
<1>2. a \in Seq(Rune) /\ Len(a) = 1 /\ a[1] = r /\ k \in Seq(Rune) /\ Len(k) \in Nat
  BY <1>1 DEF Text
<1> DEFINE ak == a \o k
           w == ak \o Stop
<1> HIDE DEF a
<1>3. ak \in Seq(Rune) /\ Len(ak) = 1 + Len(k) /\ ak[1] = r
      /\ \A m \in 1 .. Len(k) : ak[m + 1] = k[m]
  <2>0. a \in Seq(Rune) /\ k \in Seq(Rune)
    BY <1>2
  <2>1. /\ ak \in Seq(Rune) /\ Len(ak) = Len(a) + Len(k)
        /\ \A m \in 1 .. Len(a) : ak[m] = a[m]
        /\ \A m \in 1 .. Len(k) : ak[Len(a) + m] = k[m]
    <3>1. Follows(Rune, a, k, ak)
      BY <2>0, FollowsIs, Zenon
    <3> HIDE DEF ak
    <3> QED
      BY <3>1 DEF Follows
  <2> HIDE DEF ak
  <2> QED
    BY <1>2, <2>1
<1> HIDE DEF ak
<1>4. /\ w \in Seq(Rune) /\ Len(w) = Len(ak) + 2
      /\ \A m \in 1 .. Len(ak) : w[m] = ak[m]
      /\ \A m \in 1 .. 2 : w[Len(ak) + m] = Stop[m]
  <2>1. ak \in Seq(Rune) /\ Stop \in Seq(Rune)
    BY <1>1, <1>3
  <2>2. /\ w \in Seq(Rune) /\ Len(w) = Len(ak) + Len(Stop)
        /\ \A m \in 1 .. Len(ak) : w[m] = ak[m]
        /\ \A m \in 1 .. Len(Stop) : w[Len(ak) + m] = Stop[m]
    <3>1. Follows(Rune, ak, Stop, w)
      BY <2>1, FollowsIs, Zenon
    <3> HIDE DEF w
    <3> QED
      BY <3>1 DEF Follows
  <2> QED
    BY <1>1, <2>2, Zenon
<1> HIDE DEF w
<1>5. w[Len(ak) + 1] = Stop[1] /\ w[Len(ak) + 2] = Stop[2]
  BY <1>4
<1>6. /\ w \in Seq(Rune) /\ Len(w) = Len(k) + 3 /\ w[1] = r
      /\ \A m \in 1 .. Len(k) : w[m + 1] = k[m]
      /\ w[Len(k) + 2] = "." /\ w[Len(k) + 3] = Gap
  BY <1>1, <1>2, <1>3, <1>4, <1>5
<1>7. Keyed(r, k) = w
  BY Zenon DEF Keyed, w, ak, a
<1> QED
  BY <1>6, <1>7 DEF Text

\* Where a key is in a text, and which.
KeyIsAt(s, i, j) ==
  /\ i < j
  /\ s[i] = Gap \/ s[i] = NewLine
  /\ \A m \in i + 1 .. j : s[m] \in Numeral
  /\ s[j + 1] = "." /\ s[j + 2] = Gap

LEMMA KeysInIs ==
  ASSUME NEW s \in Seq(Rune), NEW k
  PROVE  k \in KeysIn(s) <=>
           \E i \in 1 .. Len(s) : \E j \in i .. Len(s) - 2 :
             KeyIsAt(s, i, j) /\ k = SubSeq(s, i + 1, j)
<1>1. \A i, j : KeyAt(s, i, j) <=> KeyIsAt(s, i, j)
  BY Zenon DEF KeyAt, KeyIsAt, Gap, NewLine, Numeral
<1>2. DOMAIN s = 1 .. Len(s)
  OBVIOUS
<1> DEFINE From(i) == {SubSeq(s, i + 1, j) : j \in {j \in i .. Len(s) - 2 : KeyAt(s, i, j)}}
<1>3. k \in KeysIn(s) <=> \E i \in DOMAIN s : k \in From(i)
  <2>1. KeysIn(s) = UNION {From(i) : i \in DOMAIN s}
    BY Zenon DEF KeysIn
  <2> HIDE DEF From
  <2> QED
    BY <2>1
<1>4. \A i : k \in From(i) <=>
        \E j \in i .. Len(s) - 2 : KeyAt(s, i, j) /\ k = SubSeq(s, i + 1, j)
  OBVIOUS
<1> HIDE DEF From
<1> QED
  BY <1>1, <1>2, <1>3, <1>4, Zenon

LEMMA KeyIsRead ==
  ASSUME NEW s \in Seq(Rune), NEW k \in KeyNames, NEW r \in {NewLine, Gap},
         Holds(s, Keyed(r, k), Rune)
  PROVE  k \in KeysIn(s)
<1> DEFINE w == Keyed(r, k)
           L == Len(k)
<1>1. k \in Text /\ k \in Seq(Numeral) /\ L \in Nat /\ L >= 1
  BY KeyNamesAre DEF KeyNames
<1>2. /\ w \in Seq(Rune) /\ Len(w) = L + 3 /\ w[1] = r
      /\ \A m \in 1 .. L : w[m + 1] = k[m]
      /\ w[L + 2] = "." /\ w[L + 3] = Gap
  BY <1>1, KeyedIs
<1> HIDE DEF w
<1>3. PICK i \in 0 .. Len(s) - Len(w) : SubSeq(s, i + 1, i + Len(w)) = w
  BY <1>2, HeldIsRead DEF w
<1>4. \A m \in 1 .. L + 3 : s[i + m] = w[m]
  BY <1>1, <1>2, <1>3
<1> DEFINE from == i + 1
           to == i + 1 + L
<1>5. from \in 1 .. Len(s) /\ to \in from .. Len(s) - 2 /\ from < to
  BY <1>1, <1>2, <1>3
<1>6. \A m \in from + 1 .. to : s[m] = k[m - from] /\ m - from \in 1 .. L
  <2> TAKE m \in from + 1 .. to
  <2>1. m - from \in 1 .. L /\ (m - from) + 1 \in 1 .. L + 3 /\ i + ((m - from) + 1) = m
    BY <1>1, <1>3
  <2>2. s[i + ((m - from) + 1)] = w[(m - from) + 1] /\ w[(m - from) + 1] = k[m - from]
    BY <1>2, <1>4, <2>1
  <2> QED
    BY <2>1, <2>2
<1>7. s[from] = r /\ s[to + 1] = "." /\ s[to + 2] = Gap
  <2>1. /\ 1 \in 1 .. L + 3 /\ L + 2 \in 1 .. L + 3 /\ L + 3 \in 1 .. L + 3
        /\ to + 1 = i + (L + 2) /\ to + 2 = i + (L + 3)
    BY <1>1, <1>3
  <2> QED
    BY <1>2, <1>4, <2>1
<1>8. SubSeq(s, from + 1, to) = k
  <2> DEFINE u == SubSeq(s, from + 1, to)
  <2>1. u \in Seq(Rune) /\ Len(u) = L /\ \A m \in 1 .. L : u[m] = s[from + m]
    BY <1>1, <1>3, <1>5
  <2>2. ASSUME NEW m \in 1 .. L PROVE u[m] = k[m]
    <3>1. from + m \in from + 1 .. to /\ (from + m) - from = m
      BY <1>1, <1>3
    <3> QED
      BY <1>6, <2>1, <3>1
  <2>3. k \in Seq(Rune)
    BY <1>1 DEF Text
  <2> HIDE DEF u
  <2>4. u = k
    BY <2>1, <2>2, <2>3, SeqEqual
  <2> QED
    BY <2>4 DEF u
<1>9. KeyIsAt(s, from, to)
  <2>1. \A m \in from + 1 .. to : s[m] \in Numeral
    BY <1>1, <1>6
  <2> QED
    BY <1>5, <1>7, <2>1 DEF KeyIsAt
<1> HIDE DEF from, to
<1> QED
  BY <1>5, <1>8, <1>9, KeysInIs

LEMMA KeyIsShown ==
  ASSUME NEW k \in KeyNames, handset.body \in Text, NEW r \in {NewLine, Gap},
         Holds(handset.body, Keyed(r, k), Rune)
  PROVE  k \in KeysShown
<1> DEFINE nl == <<NewLine>>
           s == nl \o handset.body
<1>1. k \in Text
  BY KeyNamesAre
<1>2. nl \in Seq(Rune) /\ handset.body \in Seq(Rune) /\ Keyed(r, k) \in Seq(Rune)
  <2>1. Keyed(r, k) \in Seq(Rune)
    BY <1>1, KeyedIs
  <2> QED
    BY <2>1, Alphabet DEF Text
<1> HIDE DEF nl
<1>3. s \in Seq(Rune) /\ Holds(s, Keyed(r, k), Rune)
  BY <1>2, HeldFurther
<1> HIDE DEF s
<1>4. k \in KeysIn(s)
  BY <1>3, KeyIsRead
<1> QED
  BY <1>4, Zenon DEF KeysShown, s, nl, NewLine

LEMMA LeadIsKeyed ==
  ASSUME NEW item, NEW k, item.key = k
  PROVE  Lead(item) = Keyed(NewLine, k)
BY Zenon DEF Lead, Keyed

----------------------------------------------------------------------------
(* The keys of the menu and of the timeline *)

LEMMA ItemIs ==
  ASSUME NEW k \in KeyNames, NEW label \in Text
  PROVE  /\ Item(k, label) \in ItemsOf(Rune) /\ Item(k, label).key = k
         /\ Item(k, label).label = label
<1>1. k \in Seq(Rune \ Breaks) \ {<<>>}
  BY KeyNamesAre
<1> QED
  BY <1>1 DEF Item, ItemsOf, Text

LEMMA MenuItemsAre ==
  /\ MenuItems \in Seq(ItemsOf(Rune)) /\ Len(MenuItems) = 3
  /\ Lead(MenuItems[1]) = Keyed(NewLine, <<"1">>)
  /\ Lead(MenuItems[2]) = Keyed(NewLine, <<"2">>)
  /\ Lead(MenuItems[3]) = Keyed(NewLine, <<"0">>)
  /\ <<Quit>> \in Seq(ItemsOf(Rune)) /\ Lead(Quit) = Keyed(NewLine, <<"0">>)
<1> DEFINE It == ItemsOf(Rune)
           a == Item(<<"1">>, T["menu.timeline"])
           b == Item(<<"2">>, T["menu.about"])
<1>1. <<"0">> \in KeyNames /\ <<"1">> \in KeyNames /\ <<"2">> \in KeyNames
  BY KeyNamesAre
<1>2. T["menu.timeline"] \in Text /\ T["menu.about"] \in Text /\ T["menu.quit"] \in Text
  BY WordsAreTexts, Zenon DEF Words
<1>3. a \in It /\ b \in It /\ Quit \in It
      /\ a.key = <<"1">> /\ b.key = <<"2">> /\ Quit.key = <<"0">>
  BY <1>1, <1>2, ItemIs, Zenon DEF Quit
<1>4. MenuItems = <<a, b, Quit>>
  BY Zenon DEF MenuItems
<1>5. Lead(a) = Keyed(NewLine, <<"1">>) /\ Lead(b) = Keyed(NewLine, <<"2">>)
      /\ Lead(Quit) = Keyed(NewLine, <<"0">>)
  BY <1>3, LeadIsKeyed
<1> HIDE DEF It, a, b
<1>6. /\ MenuItems \in Seq(It) /\ Len(MenuItems) = 3
      /\ MenuItems[1] = a /\ MenuItems[2] = b /\ MenuItems[3] = Quit /\ <<Quit>> \in Seq(It)
  BY <1>3, <1>4
<1> QED
  BY <1>5, <1>6 DEF It

LEMMA TimelineItemIs ==
  ASSUME NEW posts \in Seq(Posts), NEW i \in 1 .. Len(posts)
  PROVE  /\ TimelineItem(posts, i) \in ItemsOf(Rune)
         /\ Lead(TimelineItem(posts, i)) = Keyed(NewLine, Decimal(i))
         /\ TimelineItem(posts, i).key = Decimal(i)
<1> DEFINE post == posts[i]
           gap == <<" ">>
           label == Label(posts[i].author, MaxHeaderLen, T["post"] \o gap \o Decimal(i))
           open == <<" ", "(">>
           close == <<")">>
           when == posts[i].when
           shown == IF when = <<>> THEN label ELSE label \o open \o when \o close
<1>1. i \in Nat
  OBVIOUS
<1>2. post \in Posts
  OBVIOUS
<1>3. post.author \in Text /\ post.when \in Text
  <2> HIDE DEF post
  <2> QED
    BY <1>2 DEF Posts
<1>4. T["post"] \o gap \o Decimal(i) \in Text
  <2>1. T["post"] \in Text
    BY WordsAreTexts, Zenon DEF Words
  <2>2. gap \in Text
    BY Alphabet, ShortTexts, Zenon DEF Gap
  <2>3. Decimal(i) \in Text
    BY <1>1, DecimalIs
  <2> DEFINE word == T["post"]
  <2> HIDE DEF word, gap
  <2>4. word \o gap \in Text
    BY <2>1, <2>2, TextsJoin DEF word
  <2>5. (word \o gap) \o Decimal(i) \in Text
    BY <2>3, <2>4, TextsJoin
  <2> QED
    BY <2>5, Zenon DEF word
<1>5. label \in Text
  BY <1>3, <1>4, Sizes, LabelIsText
<1>6. open \in Text /\ close \in Text
  <2>1. " " \in Rune /\ "(" \in Rune /\ ")" \in Rune
    BY Alphabet, Zenon DEF Gap
  <2> QED
    BY <2>1, ShortTexts, Zenon
<1> HIDE DEF label, open, close, gap
<1>7. shown \in Text
  <2>1. label \o open \in Text
    BY <1>5, <1>6, TextsJoin
  <2>2. label \o open \o when \in Text
    BY <1>3, <2>1, TextsJoin, Zenon
  <2>3. label \o open \o when \o close \in Text
    BY <1>6, <2>2, TextsJoin, Zenon
  <2> QED
    BY <1>5, <2>3, Zenon
<1>8. TimelineItem(posts, i) = Item(Decimal(i), shown)
  BY Zenon DEF TimelineItem, label, open, close, gap
<1> HIDE DEF shown
<1>9. Decimal(i) \in KeyNames
  BY <1>1, KeyNamesAre
<1>10. TimelineItem(posts, i) \in ItemsOf(Rune) /\ TimelineItem(posts, i).key = Decimal(i)
  BY <1>7, <1>8, <1>9, ItemIs, Zenon
<1> QED
  BY <1>10, LeadIsKeyed

LEMMA ShrunkIsItself ==
  ASSUME NEW s, FitsScreen(s)
  PROVE  Shrink(s) = s
BY Zenon DEF Shrink

\* The menu is whole, below whichever notice.
MenuText == T["menu.title"] \o Lines(MenuItems)

LEMMA MenuPromptIs ==
  /\ MenuPrompt = MenuText /\ MenuText \in Text /\ FitsScreen(MenuText)
  /\ \A error \in {"error.choice", "error.fetch"} :
       FitsScreen(T[error] \o <<"\n">> \o MenuText) /\ T[error] \in Text
<1> DEFINE title == T["menu.title"]
           lines == Lines(MenuItems)
           menu == title \o lines
           nl == <<"\n">>
<1>1. MenuItems \in Seq(ItemsOf(Rune)) /\ Basic \subseteq Rune
  BY MenuItemsAre, Alphabet
<1>2. title \in Text
  BY WordsAreTexts, Zenon DEF Words
<1>3. lines \in Text
  BY <1>1, LinesAre DEF Text
<1>4. T["error.choice"] \in Text /\ T["error.fetch"] \in Text
  BY WordsAreTexts, Zenon DEF Words
<1>5. nl \in Text
  BY Alphabet, ShortTexts, Zenon DEF NewLine
<1>7. menu \in Text
  BY <1>2, <1>3, TextsJoin
<1>8. ASSUME NEW error \in {"error.choice", "error.fetch"}
      PROVE  FitsScreen(T[error] \o nl \o menu) /\ FitsScreen(menu)
             /\ T[error] \in Text
  <2> DEFINE e == T[error]
  <2>1. e \in Text
    BY <1>4
  <2>2. FitsScreen(e \o nl \o title \o lines)
    BY WordsAssumption, Zenon
  <2> HIDE DEF e, title, lines
  <2>3. e \o nl \in Text
    BY <1>5, <2>1, TextsJoin
  <2>4. (e \o nl) \o title \o lines = (e \o nl) \o menu
    <3> DEFINE en == e \o nl
    <3>1. en \in Seq(Rune) /\ title \in Seq(Rune) /\ lines \in Seq(Rune)
      BY <1>2, <1>3, <2>3 DEF Text
    <3> HIDE DEF en
    <3>2. (en \o title) \o lines = en \o (title \o lines)
      BY <3>1, ConcatAssociative, SMTT(30)
    <3> QED
      BY <3>2 DEF en
  <2>5. FitsScreen((e \o nl) \o menu)
    BY <2>2, <2>4, Zenon
  <2>6. FitsScreen(menu)
    <3> HIDE DEF menu
    <3>1. e \in Seq(Rune) /\ menu \in Seq(Rune)
      BY <1>7, <2>1 DEF Text
    <3>2. FitsScreen((e \o <<NewLine>>) \o menu)
      BY <2>5, Zenon DEF NewLine, nl
    <3> QED
      BY <1>1, <3>1, <3>2, BelowALineFits
  <2> QED
    BY <2>1, <2>5, <2>6 DEF e
<1>9. FitsScreen(menu)
  BY <1>8
<1>10. MenuPrompt = menu
  <2>1. title \in Seq(Rune)
    BY <1>2 DEF Text
  <2>2. Menu(title, MenuItems) = menu
    BY <1>1, <1>9, <2>1, MenuIsWhole
  <2> QED
    BY <2>2, Zenon DEF MenuPrompt
<1> QED
  BY <1>7, <1>8, <1>9, <1>10, Zenon DEF MenuText

\* Below whichever notice, all of the menu is on the screen.
LEMMA MenuIsRead ==
  ASSUME NEW notice \in Notices("menu"), NEW i \in 1 .. 3
  PROVE  LET body == Shrink(Noticed(notice, MenuPrompt))
         IN body \in Text /\ Holds(body, Lead(MenuItems[i]), Rune)
<1> DEFINE title == T["menu.title"]
           lines == Lines(MenuItems)
           menu == MenuText
           nl == <<"\n">>
<1>1. /\ MenuItems \in Seq(ItemsOf(Rune)) /\ i \in 1 .. Len(MenuItems)
      /\ Basic \subseteq Rune
  BY MenuItemsAre, Alphabet
<1>2. title \in Text
  BY WordsAreTexts, Zenon DEF Words
<1>3. lines \in Text /\ Holds(lines, Lead(MenuItems[i]), Rune)
  BY <1>1, LinesAre, LinesHoldKeys DEF Text
<1>5. nl \in Text
  BY Alphabet, ShortTexts, Zenon DEF NewLine
<1>6. Lead(MenuItems[i]) \in Text
  <2>1. MenuItems[i] \in ItemsOf(Rune)
    <3> DEFINE It == ItemsOf(Rune)
    <3>1. MenuItems \in Seq(It)
      BY <1>1
    <3> HIDE DEF It
    <3> QED
      BY <1>1, <3>1 DEF It
  <2> QED
    BY <1>1, <2>1, LineParts DEF Text
<1>7. menu \in Text /\ Holds(menu, Lead(MenuItems[i]), Rune)
  <2>1. Holds(title \o lines, Lead(MenuItems[i]), Rune)
    BY <1>2, <1>3, <1>6, HeldFurther DEF Text
  <2> QED
    BY <2>1, MenuPromptIs, Zenon DEF MenuText
<1>8. FitsScreen(menu) /\ \A error \in {"error.choice", "error.fetch"} :
        FitsScreen(T[error] \o nl \o menu) /\ T[error] \in Text
  BY MenuPromptIs, Zenon
<1>9. MenuPrompt = menu
  BY MenuPromptIs
<1> DEFINE read == Noticed(notice, menu)
<1> HIDE DEF menu
<1>10. read \in Text /\ FitsScreen(read) /\ Holds(read, Lead(MenuItems[i]), Rune)
  <2>1. CASE read = menu
    BY <1>7, <1>8, <2>1
  <2>2. CASE read # menu
    <3>1. notice # <<>> /\ read = notice \o nl \o menu
      BY <2>2, Zenon DEF Noticed
    <3>2. PICK error \in {"error.choice", "error.fetch"} : notice = T[error]
      BY <3>1, Zenon DEF Notices
    <3>3. notice \in Text /\ FitsScreen(notice \o nl \o menu)
      BY <1>8, <3>2
    <3>4. notice \o nl \in Text
      BY <1>5, <3>3, TextsJoin
    <3> DEFINE above == notice \o nl
    <3> HIDE DEF above
    <3>5. above \in Text
      BY <3>4 DEF above
    <3>6. above \o menu \in Text /\ Holds(above \o menu, Lead(MenuItems[i]), Rune)
      BY <1>6, <1>7, <3>5, HeldFurther, TextsJoin DEF Text
    <3>7. read = above \o menu
      BY <3>1, Zenon DEF above
    <3> QED
      BY <3>3, <3>6, <3>7, Zenon DEF above
  <2> QED
    BY <2>1, <2>2
<1>11. Shrink(read) = read
  BY <1>10, ShrunkIsItself
<1> QED
  BY <1>9, <1>10, <1>11, Zenon

LEMMA NoLines == Lines(<<>>) = <<>>
<1> DEFINE none == [j \in DOMAIN <<>> |-> Line(<<>>[j])]
<1>1. Lines(<<>>) = FlattenSeq(none)
  BY Zenon DEF Lines
<1>2. none \in [1 .. 0 -> {<<>>}] /\ 0 \in Nat
  OBVIOUS
<1> HIDE DEF none
<1> QED
  BY <1>1, <1>2, FlattenNothing

LEMMA NothingAboveFooter ==
  ASSUME NEW title \in Seq(Rune), NEW items \in Seq(ItemsOf(Rune)),
         NEW footer \in Seq(ItemsOf(Rune))
  PROVE  ShownAbove(title, items, footer, 0) = title \o Lines(footer)
<1>1. Take(items, 0) = <<>>
  BY TakeNone
<1>2. title \o <<>> = title
  BY ConcatEmptySeq
<1> QED
  BY <1>1, <1>2, NoLines, Zenon DEF ShownAbove

LEMMA StartsWith ==
  ASSUME NEW R, NEW s \in Seq(R), NEW t \in Seq(R)
  PROVE  IsPrefix(s, s \o t)
<1> DEFINE w == s \o t
           n == Len(s)
<1>1. w \in Seq(R) /\ Len(w) = Len(s) + Len(t) /\ Len(s) \in Nat /\ Len(t) \in Nat
  BY ConcatProperties
<1>2. SubSeq(s, 1, n) = s
  BY SubSeqFull
<1>3. SubSeq(w, 1, n) = SubSeq(s, 1, n)
  <2>1. n \in 0 .. Len(s)
    BY <1>1
  <2> QED
    BY <2>1, TakeOfConcat DEF Take
<1> HIDE DEF w
<1>4. IsPrefix(s, w)
  BY <1>1, <1>3 DEF IsPrefix
<1> QED
  BY <1>4 DEF w

TimelineTitle(notice) ==
  (IF notice = <<>> THEN <<>> ELSE notice \o <<"\n">>) \o T["timeline.title"]

TimelineItems(posts) == [i \in DOMAIN posts |-> TimelineItem(posts, i)]

\* The timeline lists the posts it counts, between its title and Quit, and fits.
TimelineLists(posts, notice) ==
  LET fit == TimelineFit(posts, notice)
      title == TimelineTitle(notice)
  IN /\ TimelineItems(posts) \in Seq(ItemsOf(Rune)) /\ Len(TimelineItems(posts)) = Len(posts)
     /\ fit.shown \in 0 .. Len(posts)
     /\ fit.text = ShownAbove(title, TimelineItems(posts), <<Quit>>, fit.shown)
     /\ FitsScreen(fit.text)
     /\ title \in Text /\ notice \in Text
     /\ notice # <<>> => \E rest \in Text : title = notice \o rest

LEMMA TimelineFitIs ==
  ASSUME NEW posts \in Seq(Posts), NEW notice \in Notices("timeline")
  PROVE  TimelineLists(posts, notice)
<1> DEFINE nl == <<"\n">>
           word == T["timeline.title"]
           title == (IF notice = <<>> THEN <<>> ELSE notice \o nl) \o word
           items == [i \in DOMAIN posts |-> TimelineItem(posts, i)]
           footer == <<Quit>>
           end == Lines(footer)
           fit == TimelineFit(posts, notice)
           N == Len(posts)
           It == ItemsOf(Rune)
           error == T["error.choice"]
<1>1. Basic \subseteq Rune /\ nl \in Text /\ word \in Text /\ error \in Text
  BY Alphabet, ShortTexts, WordsAreTexts, Zenon DEF NewLine, Words
<1>2. N \in Nat /\ DOMAIN posts = 1 .. N /\ \A i \in 1 .. N : TimelineItem(posts, i) \in It
  BY TimelineItemIs
<1>3. items \in [1 .. N -> It] /\ \A i \in 1 .. N : items[i] = TimelineItem(posts, i)
  BY <1>2
<1>4. footer \in Seq(It) /\ footer[1] = Quit /\ Len(footer) = 1
      /\ Lead(Quit) = Keyed(NewLine, <<"0">>)
  <2>1. footer \in Seq(It) /\ Lead(Quit) = Keyed(NewLine, <<"0">>)
    BY MenuItemsAre
  <2> QED
    BY <2>1
<1>5. fit = MenuFit(title, items, footer)
  BY Zenon DEF TimelineFit
<1> HIDE DEF It, items, footer, nl, word, error
<1>6. items \in Seq(It) /\ Len(items) = N
  BY <1>2, <1>3
<1>7. end \in Seq(Rune) /\ Holds(end, Keyed(NewLine, <<"0">>), Rune)
  <2>1. 1 \in 1 .. Len(footer)
    BY <1>4
  <2> QED
    BY <1>1, <1>4, <2>1, LinesAre, LinesHoldKeys DEF It
<1> HIDE DEF end
<1>8. title \in Text /\ FitsScreen(title \o end) /\ notice \in Text
      /\ (notice # <<>> => \E rest \in Text : title = notice \o rest)
  <2>1. error \o nl \in Text /\ word \o end \in Text
    BY <1>1, <1>7, TextsJoin DEF Text
  <2>2. FitsScreen((error \o nl) \o word \o end)
    BY WordsAssumption, Zenon DEF error, nl, word, end, footer
  <2> DEFINE above == error \o nl
  <2> HIDE DEF above
  <2>3. (above \o word) \o end = above \o (word \o end)
    <3>1. above \in Seq(Rune) /\ word \in Seq(Rune)
      BY <1>1, <2>1 DEF Text, above
    <3> QED
      BY <1>7, <3>1, ConcatAssociative, SMTT(30)
  <2>4. FitsScreen(word \o end)
    <3> DEFINE q == word \o end
    <3>1. error \in Seq(Rune) /\ q \in Seq(Rune)
      BY <1>1, <2>1 DEF Text
    <3>2. FitsScreen((error \o <<NewLine>>) \o q)
      BY <2>2, <2>3, Zenon DEF above, nl, NewLine
    <3> HIDE DEF q
    <3>3. FitsScreen(q)
      BY <1>1, <3>1, <3>2, BelowALineFits
    <3> QED
      BY <3>3 DEF q
  <2>5. CASE notice = <<>>
    <3>1. title = word
      <4>1. <<>> \o word = word
        BY <1>1, ConcatEmptySeq DEF Text
      <4> QED
        BY <2>5, <4>1, Zenon
    <3>2. notice \in Text
      BY <2>5 DEF Text
    <3> HIDE DEF title
    <3> QED
      BY <1>1, <2>4, <2>5, <3>1, <3>2
  <2>6. CASE notice # <<>>
    <3>1. notice = error
      BY <2>6, StagesDiffer, Zenon DEF Notices, error
    <3>2. title = above \o word
      BY <2>6, <3>1, Zenon DEF above
    <3>3. above \o word = error \o (nl \o word) /\ nl \o word \in Text
      <4>1. (error \o nl) \o word = error \o (nl \o word)
        BY <1>1, ConcatAssociative, SMTT(30) DEF Text
      <4>2. nl \o word \in Text
        BY <1>1, TextsJoin
      <4> QED
        BY <4>1, <4>2, Zenon DEF above
    <3>4. above \o word \in Text
      <4>1. above \in Text
        BY <2>1 DEF above
      <4> QED
        BY <1>1, <4>1, TextsJoin
    <3> HIDE DEF title
    <3>5. \E rest \in Text : title = notice \o rest
      BY <3>1, <3>2, <3>3, Zenon
    <3>6. FitsScreen(title \o end)
      BY <2>2, <3>2, Zenon DEF above
    <3> QED
      BY <1>1, <3>1, <3>2, <3>4, <3>5, <3>6, Zenon
  <2> QED
    BY <2>5, <2>6, Zenon
<1> HIDE DEF title
<1> DEFINE Above(n) == ShownAbove(title, items, footer, n)
<1>9. Above(0) = title \o end
  BY <1>4, <1>6, <1>8, NothingAboveFooter DEF end, It, Text
<1>10. PICK n \in 0 .. Len(items) :
         /\ IsShown(title, items, footer, n)
         /\ MenuFit(title, items, footer) = [text |-> Above(n), shown |-> n]
  <2>1. Len(items) \in Nat /\ FitsScreen(Above(0))
    BY <1>2, <1>6, <1>8, <1>9
  <2> QED
    BY <2>1, MenuFitIs, Zenon
<1>11. fit.shown = n /\ fit.text = Above(n) /\ n \in 0 .. N /\ n \in Nat
  <2> HIDE DEF Above
  <2> QED
    BY <1>2, <1>5, <1>6, <1>10
<1>12. FitsScreen(Above(n))
  <2>1. CASE n = 0
    BY <1>8, <1>9, <2>1
  <2>2. CASE n # 0
    <3>1. n \in 1 .. n
      BY <1>11, <2>2
    <3> QED
      BY <1>10, <3>1 DEF IsShown
  <2> QED
    BY <2>1, <2>2
<1>13. title = TimelineTitle(notice) /\ items = TimelineItems(posts) /\ footer = <<Quit>>
  BY Zenon DEF TimelineTitle, TimelineItems, title, items, footer, nl, word
<1>14. fit.text = ShownAbove(title, items, footer, fit.shown) /\ FitsScreen(fit.text)
  BY <1>11, <1>12, Zenon
<1>15. items \in Seq(ItemsOf(Rune)) /\ Len(items) = Len(posts)
  BY <1>6 DEF It
<1>16. fit.shown \in 0 .. Len(posts)
  BY <1>11
<1> QED
  BY <1>8, <1>13, <1>14, <1>15, <1>16, Zenon DEF TimelineLists

\* Below whichever notice, the posts listed are on the screen, and Quit.
LEMMA TimelineIsRead ==
  ASSUME NEW posts \in Seq(Posts), NEW notice \in Notices("timeline")
  PROVE  LET fit == TimelineFit(posts, notice)
             body == Shrink(Noticed(notice, fit.text))
         IN /\ body \in Text /\ Holds(body, Keyed(NewLine, <<"0">>), Rune)
            /\ \A i \in 1 .. fit.shown : Holds(body, Keyed(NewLine, Decimal(i)), Rune)
            /\ fit.shown \in 0 .. Len(posts)
<1> DEFINE title == TimelineTitle(notice)
           items == TimelineItems(posts)
           footer == <<Quit>>
           end == Lines(footer)
           fit == TimelineFit(posts, notice)
           n == fit.shown
           It == ItemsOf(Rune)
           Above == ShownAbove(title, items, footer, n)
<1>1. Basic \subseteq Rune /\ Len(posts) \in Nat
  BY Alphabet
<1>2. DOMAIN posts = 1 .. Len(posts)
  OBVIOUS
<1>3. \A i \in 1 .. Len(posts) : items[i] = TimelineItem(posts, i)
  BY <1>2 DEF TimelineItems
<1>4. footer \in Seq(It) /\ footer[1] = Quit /\ Len(footer) = 1
      /\ Lead(Quit) = Keyed(NewLine, <<"0">>)
  <2>1. footer \in Seq(It) /\ Lead(Quit) = Keyed(NewLine, <<"0">>)
    BY MenuItemsAre
  <2> QED
    BY <2>1
<1> HIDE DEF It, footer
<1>7. end \in Seq(Rune) /\ Holds(end, Keyed(NewLine, <<"0">>), Rune)
  <2>1. 1 \in 1 .. Len(footer)
    BY <1>4
  <2> QED
    BY <1>1, <1>4, <2>1, LinesAre, LinesHoldKeys DEF It
<1> HIDE DEF end
<1>8. TimelineLists(posts, notice)
  BY TimelineFitIs
<1>9. /\ items \in Seq(It) /\ Len(items) = Len(posts) /\ n \in 0 .. Len(posts)
      /\ fit.text = Above /\ FitsScreen(Above) /\ title \in Text /\ notice \in Text
      /\ notice # <<>> => \E rest \in Text : title = notice \o rest
  BY <1>8, Zenon DEF TimelineLists, It, footer
<1> HIDE DEF title, items, fit, n, Above
<1>11. n \in Nat
  BY <1>1, <1>9
<1> DEFINE shown == Take(items, n)
           lines == Lines(shown)
           text == title \o lines \o end
<1>13. /\ shown \in Seq(It) /\ Len(shown) = n
       /\ \A i \in 1 .. n : shown[i] = TimelineItem(posts, i)
  <2>1. n \in 0 .. Len(items)
    BY <1>9
  <2>2. /\ shown \in Seq(It) /\ Len(shown) = n
        /\ \A i \in 1 .. n : shown[i] = items[i]
    BY <1>9, <2>1, TakeIs
  <2> QED
    BY <1>1, <1>3, <1>9, <2>2
<1> HIDE DEF shown
<1>14. ASSUME NEW i \in 1 .. n
       PROVE  Holds(lines, Keyed(NewLine, Decimal(i)), Rune)
              /\ Keyed(NewLine, Decimal(i)) \in Text
  <2>1. i \in 1 .. Len(shown) /\ i \in 1 .. Len(posts)
    BY <1>1, <1>9, <1>13
  <2>2. Lead(shown[i]) = Keyed(NewLine, Decimal(i))
    BY <1>13, <2>1, TimelineItemIs
  <2>3. Holds(lines, Lead(shown[i]), Rune)
    BY <1>1, <1>13, <2>1, LinesHoldKeys DEF It
  <2>4. Decimal(i) \in Text
    <3>1. i \in Nat
      BY <1>11
    <3> QED
      BY <3>1, KeyNamesAre
  <2> QED
    BY <2>2, <2>3, <2>4, KeyedIs
<1>15. lines \in Seq(Rune)
  BY <1>1, <1>13, LinesAre DEF It
<1>16. Above = text
  BY Zenon DEF ShownAbove, end, shown, Above
<1> HIDE DEF lines
<1>17. /\ text \in Text /\ Holds(text, Keyed(NewLine, <<"0">>), Rune)
       /\ \A i \in 1 .. n : Holds(text, Keyed(NewLine, Decimal(i)), Rune)
  <2> DEFINE front == title \o lines
  <2>1. title \in Seq(Rune)
    BY <1>9 DEF Text
  <2>2. front \in Seq(Rune)
    BY <1>15, <2>1
  <2>3. Keyed(NewLine, <<"0">>) \in Seq(Rune)
    <3>1. <<"0">> \in Text
      BY KeyNamesAre
    <3> QED
      BY <3>1, KeyedIs DEF Text
  <2>4. ASSUME NEW i \in 1 .. n PROVE Holds(front, Keyed(NewLine, Decimal(i)), Rune)
    BY <1>14, <1>15, <2>1, HeldFurther DEF Text
  <2> HIDE DEF front
  <2>5. front \o end \in Text /\ Holds(front \o end, Keyed(NewLine, <<"0">>), Rune)
    BY <1>7, <2>2, <2>3, HeldFurther DEF Text
  <2>6. ASSUME NEW i \in 1 .. n PROVE Holds(front \o end, Keyed(NewLine, Decimal(i)), Rune)
    BY <1>7, <1>14, <2>2, <2>4, HeldFurther DEF Text
  <2> QED
    BY <2>5, <2>6, Zenon DEF front
<1>18. Noticed(notice, text) = text
  <2>1. CASE notice = <<>>
    BY <2>1, Zenon DEF Noticed
  <2>2. CASE notice # <<>>
    <3>1. PICK rest \in Text : title = notice \o rest
      BY <1>9, <2>2
    <3> DEFINE more == rest \o lines \o end
    <3>2. more \in Seq(Rune) /\ notice \in Seq(Rune) /\ rest \in Seq(Rune)
      BY <1>7, <1>9, <1>15, <3>1 DEF Text
    <3>3. text = notice \o more
      <4> DEFINE a == rest \o lines
                 b == notice \o rest
      <4>1. a \in Seq(Rune) /\ b \in Seq(Rune)
        BY <1>15, <3>2
      <4>2. (notice \o rest) \o lines = notice \o (rest \o lines)
        BY <1>15, <3>2, ConcatAssociative, SMTT(30)
      <4> HIDE DEF a
      <4>3. (notice \o a) \o end = notice \o (a \o end)
        BY <1>7, <3>2, <4>1, ConcatAssociative, SMTT(30)
      <4> QED
        BY <3>1, <4>2, <4>3, Zenon DEF a
    <3> HIDE DEF more, text
    <3>4. IsPrefix(notice, text)
      BY <3>2, <3>3, StartsWith
    <3> QED
      BY <3>4, Zenon DEF Noticed
  <2> QED
    BY <2>1, <2>2
<1>19. Shrink(text) = text
  BY <1>9, <1>16, ShrunkIsItself, Zenon
<1> HIDE DEF text
<1>20. Shrink(Noticed(notice, fit.text)) = text
  BY <1>9, <1>16, <1>18, <1>19, Zenon
<1> QED
  BY <1>9, <1>17, <1>20, Zenon DEF fit, n

----------------------------------------------------------------------------
(* The keys of a post *)

LEMMA Rejoined ==
  ASSUME NEW R, NEW a \in Seq(R), NEW b \in Seq(R), NEW c \in Seq(R)
  PROVE  (a \o b) \o c = a \o (b \o c)
BY ConcatAssociative, SMTT(30)

LEMMA FlattenTwo ==
  ASSUME NEW a \in Text, NEW b \in Text
  PROVE  FlattenSeq(<<a, b>>) = a \o b
<1> DEFINE x == <<a>>
           y == <<b>>
<1>1. FlattenSeq(x) = a /\ FlattenSeq(y) = b
  BY FlattenOne DEF Text
<1>2. x \in Seq(Text) /\ y \in Seq(Text)
  <2> HIDE DEF Text
  <2> QED
    OBVIOUS
<1>3. x \o y = <<a, b>>
  BY Tuples
<1> HIDE DEF x, y
<1>4. FlattenSeq(x \o y) = FlattenSeq(x) \o FlattenSeq(y)
  BY <1>2, FlattenConcat DEF Text
<1> QED
  BY <1>1, <1>3, <1>4, Zenon

LEMMA FlattenThree ==
  ASSUME NEW a \in Text, NEW b \in Text, NEW c \in Text
  PROVE  FlattenSeq(<<a, b, c>>) = (a \o b) \o c
<1> DEFINE x == <<a, b>>
           y == <<c>>
<1>1. FlattenSeq(x) = a \o b /\ FlattenSeq(y) = c
  BY FlattenOne, FlattenTwo DEF Text
<1>2. x \in Seq(Text) /\ y \in Seq(Text)
  <2> HIDE DEF Text
  <2> QED
    OBVIOUS
<1>3. x \o y = <<a, b, c>>
  BY Tuples
<1> HIDE DEF x, y
<1>4. FlattenSeq(x \o y) = FlattenSeq(x) \o FlattenSeq(y)
  BY <1>2, FlattenConcat DEF Text
<1> QED
  BY <1>1, <1>3, <1>4, Zenon

\* The controls of a post, next to one another.
NavJoins(n, p, b, g) ==
  /\ Joining(<<b>>, g) = b
  /\ Joining(<<n, b>>, g) = n \o (g \o b)
  /\ Joining(<<p, b>>, g) = p \o (g \o b)
  /\ Joining(<<n, p, b>>, g) = (n \o (g \o p)) \o (g \o b)

LEMMA NavJoined ==
  ASSUME NEW n \in Text, NEW p \in Text, NEW b \in Text, NEW g \in Text
  PROVE  NavJoins(n, p, b, g)
<1> DEFINE gb == g \o b
           gp == g \o p
           Each(texts) == [i \in DOMAIN texts |-> IF i = 1 THEN texts[1] ELSE g \o texts[i]]
<1>1. gb \in Text /\ gp \in Text
  BY TextsJoin
<1>2. /\ Each(<<b>>) = <<b>> /\ Each(<<n, b>>) = <<n, gb>> /\ Each(<<p, b>>) = <<p, gb>>
      /\ Each(<<n, p, b>>) = <<n, gp, gb>>
  OBVIOUS
<1>3. \A texts : Joining(texts, g) = FlattenSeq(Each(texts))
  BY Zenon DEF Joining
<1> HIDE DEF gb, gp, Each
<1>4. FlattenSeq(<<b>>) = b
  BY FlattenOne DEF Text
<1>5. ASSUME NEW x \in Text, NEW y \in Text
      PROVE  FlattenSeq(<<x, y>>) = x \o y
  BY FlattenTwo
<1>6. FlattenSeq(<<n, gp, gb>>) = (n \o gp) \o gb
  BY <1>1, FlattenThree
<1>7. FlattenSeq(<<n, gb>>) = n \o gb /\ FlattenSeq(<<p, gb>>) = p \o gb
  BY <1>1, <1>5, Zenon
<1> QED
  BY <1>2, <1>3, <1>4, <1>6, <1>7, Zenon DEF NavJoins, gb, gp

LEMMA PrefixSplits ==
  ASSUME NEW R, NEW s \in Seq(R), NEW t \in Seq(R), IsPrefix(s, t)
  PROVE  \E rest \in Seq(R) : t = s \o rest
<1> DEFINE n == Len(s)
           rest == SubSeq(t, n + 1, Len(t))
<1>1. n \in 0 .. Len(t) /\ SubSeq(s, 1, n) = SubSeq(t, 1, n)
  BY DEF IsPrefix
<1>2. Take(t, n) = s
  BY <1>1, SubSeqFull DEF Take
<1>3. rest \in Seq(R) /\ t = Take(t, n) \o rest
  BY <1>1, TakeAndRest
<1> QED
  BY <1>2, <1>3, Zenon

LEMMA BasicIsText ==
  ASSUME NEW s \in Seq(Basic)
  PROVE  s \in Seq(Rune) /\ s \in Text
BY Alphabet DEF Text

Says(d, t) == IsPrefix(<<d>> \o Stop, t)

\* A control begins with its key, in runes of one septet each.
IsControl(d, t) == t \in Seq(Basic) /\ \E rest \in Seq(Basic) : t = <<d>> \o Stop \o rest

LEMMA ControlSays ==
  ASSUME NEW d \in {"0", "1", "2"}, NEW t \in Seq(Basic), Says(d, t)
  PROVE  IsControl(d, t)
<1> DEFINE key == <<d>> \o Stop
           head == <<d>>
<1>1. d \in Basic
  <2>1. d \in ToSet(Digits)
    BY DigitsAre, Zenon
  <2> QED
    BY <2>1, Alphabet, Zenon DEF Marks
<1>2. head \in Seq(Basic)
  BY <1>1
<1>4. key \in Seq(Basic)
  <2> HIDE DEF head
  <2>1. head \o Stop \in Seq(Basic)
    BY <1>2, Separators
  <2> QED
    BY <2>1 DEF head
<1>5. IsPrefix(key, t)
  BY Zenon DEF Says
<1> HIDE DEF key
<1>6. \E rest \in Seq(Basic) : t = key \o rest
  BY <1>4, <1>5, PrefixSplits
<1> QED
  BY <1>6, Zenon DEF IsControl, key

LEMMA ControlsSay ==
  /\ IsControl("1", T["nav.next"]) /\ IsControl("2", T["nav.prev"])
  /\ IsControl("0", T["nav.back"])
<1>1. /\ T["nav.next"] \in Seq(Basic) /\ T["nav.prev"] \in Seq(Basic)
      /\ T["nav.back"] \in Seq(Basic)
      /\ IsPrefix(<<"1", ".", " ">>, T["nav.next"])
      /\ IsPrefix(<<"2", ".", " ">>, T["nav.prev"])
      /\ IsPrefix(<<"0", ".", " ">>, T["nav.back"])
  BY WordsAssumption, Zenon
<1>2. \A d : <<d>> \o Stop = <<d, ".", " ">>
  BY Tuples, Zenon DEF Stop
<1>3. Says("1", T["nav.next"]) /\ Says("2", T["nav.prev"]) /\ Says("0", T["nav.back"])
  BY <1>1, <1>2, Zenon DEF Says
<1>4. "0" \in {"0", "1", "2"} /\ "1" \in {"0", "1", "2"} /\ "2" \in {"0", "1", "2"}
  BY Zenon
<1> QED
  BY <1>1, <1>3, <1>4, ControlSays, Zenon

LEMMA ControlIsRead ==
  ASSUME NEW d \in {"0", "1", "2"}, NEW t, IsControl(d, t), NEW r \in {NewLine, Gap}
  PROVE  <<r>> \o t \in Seq(Rune) /\ Holds(<<r>> \o t, Keyed(r, <<d>>), Rune)
<1> DEFINE a == <<r>>
           b == <<d>>
<1>1. PICK rest \in Seq(Basic) : t = b \o Stop \o rest
  BY Zenon DEF IsControl
<1>2. r \in Rune /\ d \in Rune /\ Basic \subseteq Rune
  <2>1. d \in ToSet(Digits)
    BY DigitsAre, Zenon
  <2> QED
    BY <2>1, Alphabet, DigitsAre
<1>3. a \in Seq(Rune) /\ b \in Seq(Rune) /\ Stop \in Seq(Rune) /\ rest \in Seq(Rune)
      /\ <<>> \in Seq(Rune)
  <2>1. a \in Seq(Rune)
    BY <1>2
  <2>2. b \in Seq(Rune)
    BY <1>2
  <2>3. Stop \in Seq(Rune) /\ rest \in Seq(Rune)
    <3> HIDE DEF a, b
    <3> QED
      BY <1>1, Separators, BasicIsText, Zenon
  <2>4. <<>> \in Seq(Rune)
    OBVIOUS
  <2> QED
    BY <2>1, <2>2, <2>3, <2>4
<1>4. Keyed(r, <<d>>) = (a \o b) \o Stop
  BY Zenon DEF Keyed
<1> HIDE DEF a, b
<1>5. a \o ((b \o Stop) \o rest) = ((a \o b) \o Stop) \o rest
  <2>1. (a \o b) \o Stop = a \o (b \o Stop)
    BY <1>3, Rejoined
  <2> DEFINE bs == b \o Stop
  <2>2. bs \in Seq(Rune)
    BY <1>3
  <2> HIDE DEF bs
  <2>3. (a \o bs) \o rest = a \o (bs \o rest)
    BY <1>3, <2>2, Rejoined
  <2> QED
    BY <2>1, <2>3, Zenon DEF bs
<1>6. t \in Seq(Rune) /\ a \o t \in Seq(Rune)
  <2>1. t \in Seq(Rune)
    <3>1. t \in Seq(Basic)
      BY Zenon DEF IsControl
    <3> QED
      BY <3>1, BasicIsText, Zenon
  <2> QED
    BY <1>3, <2>1
<1>7. (a \o b) \o Stop \in Seq(Rune)
  BY <1>3
<1> DEFINE key == (a \o b) \o Stop
<1> HIDE DEF key
<1>8. <<>> \o key = key
  BY <1>7, ConcatEmptySeq DEF key
<1>9. a \o t = (<<>> \o key) \o rest
  BY <1>1, <1>5, <1>8, Zenon DEF key
<1>10. Holds(a \o t, key, Rune)
  BY <1>3, <1>9, Zenon DEF Holds
<1> QED
  BY <1>4, <1>6, <1>10, Zenon DEF a, key

LEMMA GSMIsItself ==
  ASSUME NEW s \in Seq(Basic)
  PROVE  ToGSM(s) = s
BY BasicCost, Zenon DEF ToGSM

LEMMA NavIs ==
  LET gap == <<Gap>>
      next == T["nav.next"]
      prev == T["nav.prev"]
      back == T["nav.back"]
  IN /\ Nav(<<"nav.back">>) = back
     /\ Nav(<<"nav.next", "nav.back">>) = next \o (gap \o back)
     /\ Nav(<<"nav.prev", "nav.back">>) = prev \o (gap \o back)
     /\ Nav(Controls) = (next \o (gap \o prev)) \o (gap \o back)
<1> DEFINE gap == <<Gap>>
           next == T["nav.next"]
           prev == T["nav.prev"]
           back == T["nav.back"]
           Put(keys) == [i \in DOMAIN keys |-> T[keys[i]]]
<1>1. next \in Seq(Basic) /\ prev \in Seq(Basic) /\ back \in Seq(Basic) /\ gap \in Seq(Basic)
      /\ Basic \subseteq Rune
  BY ControlsSay, GapIs, Alphabet DEF IsControl
<1>2. /\ Put(<<"nav.back">>) = <<back>>
      /\ Put(<<"nav.next", "nav.back">>) = <<next, back>>
      /\ Put(<<"nav.prev", "nav.back">>) = <<prev, back>>
      /\ Put(<<"nav.next", "nav.prev", "nav.back">>) = <<next, prev, back>>
  OBVIOUS
<1>3. \A keys : Nav(keys) = ToGSM(Joining(Put(keys), gap))
  BY Zenon DEF Nav, Gap
<1> HIDE DEF gap, next, prev, back, Put
<1>4. next \in Text /\ prev \in Text /\ back \in Text /\ gap \in Text
  BY <1>1 DEF Text
<1>5. /\ Joining(<<back>>, gap) = back
      /\ Joining(<<next, back>>, gap) = next \o (gap \o back)
      /\ Joining(<<prev, back>>, gap) = prev \o (gap \o back)
      /\ Joining(<<next, prev, back>>, gap) = (next \o (gap \o prev)) \o (gap \o back)
  <2>1. NavJoins(next, prev, back, gap)
    BY <1>4, NavJoined, Zenon
  <2> QED
    BY <2>1, Zenon DEF NavJoins
<1>6. /\ next \o (gap \o back) \in Seq(Basic) /\ prev \o (gap \o back) \in Seq(Basic)
      /\ (next \o (gap \o prev)) \o (gap \o back) \in Seq(Basic)
  BY <1>1
<1>7. /\ ToGSM(back) = back /\ ToGSM(next \o (gap \o back)) = next \o (gap \o back)
      /\ ToGSM(prev \o (gap \o back)) = prev \o (gap \o back)
      /\ ToGSM((next \o (gap \o prev)) \o (gap \o back)) = (next \o (gap \o prev)) \o (gap \o back)
  BY <1>1, <1>6, GSMIsItself
<1> QED
  BY <1>2, <1>3, <1>5, <1>7, Zenon DEF gap, next, prev, back, Controls

\* What a page offers: below it are the controls offered, and not too wide.
Offering(keys, nexts, prevs) ==
  LET nav == Nav(keys)
      below == <<NewLine>> \o nav
  IN /\ nav \in Seq(Basic) /\ Len(nav) <= Len(Nav(Controls))
     /\ \E r \in {NewLine, Gap} : Holds(below, Keyed(r, <<"0">>), Rune)
     /\ nexts => \E r \in {NewLine, Gap} : Holds(below, Keyed(r, <<"1">>), Rune)
     /\ prevs => \E r \in {NewLine, Gap} : Holds(below, Keyed(r, <<"2">>), Rune)

LEMMA NavLengths ==
  ASSUME NEW R, NEW n \in Seq(R), NEW p \in Seq(R), NEW b \in Seq(R), NEW g \in Seq(R),
         Len(g) = 1
  PROVE  /\ (n \o (g \o p)) \o (g \o b) \in Seq(R) /\ n \o (g \o b) \in Seq(R)
         /\ p \o (g \o b) \in Seq(R)
         /\ Len(n \o (g \o b)) <= Len((n \o (g \o p)) \o (g \o b))
         /\ Len(p \o (g \o b)) <= Len((n \o (g \o p)) \o (g \o b))
         /\ Len(b) <= Len((n \o (g \o p)) \o (g \o b))
<1> DEFINE gb == g \o b
           gp == g \o p
           ngp == n \o gp
           all == ngp \o gb
<1>1. gb \in Seq(R) /\ Len(gb) = 1 + Len(b) /\ gp \in Seq(R) /\ Len(gp) = 1 + Len(p)
  BY ConcatProperties
<1> HIDE DEF gb, gp
<1>2. ngp \in Seq(R) /\ Len(ngp) = Len(n) + Len(gp)
  BY <1>1, ConcatProperties
<1> HIDE DEF ngp
<1>3. all \in Seq(R) /\ Len(all) = Len(ngp) + Len(gb)
  BY <1>1, <1>2, ConcatProperties
<1>4. n \o gb \in Seq(R) /\ Len(n \o gb) = Len(n) + Len(gb)
  BY <1>1, ConcatProperties
<1>5. p \o gb \in Seq(R) /\ Len(p \o gb) = Len(p) + Len(gb)
  BY <1>1, ConcatProperties
<1>6. Len(n) \in Nat /\ Len(p) \in Nat /\ Len(b) \in Nat
  OBVIOUS
<1> HIDE DEF all
<1>7. Len(n \o gb) <= Len(all) /\ Len(p \o gb) <= Len(all) /\ Len(b) <= Len(all)
  BY <1>1, <1>2, <1>3, <1>4, <1>5, <1>6
<1> QED
  BY <1>3, <1>4, <1>5, <1>7, Zenon DEF all, ngp, gp, gb

\* Where the brackets are does not matter.
Rebracketed(a, b, c) == (a \o b) \o c = a \o (b \o c)

LEMMA Rebrackets ==
  ASSUME NEW a \in Seq(Rune), NEW b \in Seq(Rune), NEW c \in Seq(Rune)
  PROVE  Rebracketed(a, b, c)
BY Rejoined DEF Rebracketed

LEMMA EachOffers ==
  /\ Offering(<<"nav.back">>, FALSE, FALSE)
  /\ Offering(<<"nav.next", "nav.back">>, TRUE, FALSE)
  /\ Offering(<<"nav.prev", "nav.back">>, FALSE, TRUE)
  /\ Offering(Controls, TRUE, TRUE)
<1> DEFINE gap == <<Gap>>
           nl == <<NewLine>>
           next == T["nav.next"]
           prev == T["nav.prev"]
           back == T["nav.back"]
           all == (next \o (gap \o prev)) \o (gap \o back)
<1>1. /\ IsControl("1", next) /\ IsControl("2", prev) /\ IsControl("0", back)
      /\ next \in Seq(Basic) /\ prev \in Seq(Basic) /\ back \in Seq(Basic)
      /\ gap \in Seq(Basic) /\ nl \in Seq(Basic) /\ Basic \subseteq Rune
      /\ Len(gap) = 1
  <2>1. IsControl("1", next) /\ IsControl("2", prev) /\ IsControl("0", back)
    BY ControlsSay, Zenon
  <2>2. next \in Seq(Basic) /\ prev \in Seq(Basic) /\ back \in Seq(Basic)
    BY <2>1, Zenon DEF IsControl
  <2>3. gap \in Seq(Basic) /\ nl \in Seq(Basic) /\ Len(gap) = 1
    BY GapIs, Separators
  <2> QED
    BY <2>1, <2>2, <2>3, Alphabet, Zenon
<1>2. /\ Nav(<<"nav.back">>) = back
      /\ Nav(<<"nav.next", "nav.back">>) = next \o (gap \o back)
      /\ Nav(<<"nav.prev", "nav.back">>) = prev \o (gap \o back)
      /\ Nav(Controls) = all
  BY NavIs
<1>3. NewLine \in {NewLine, Gap} /\ Gap \in {NewLine, Gap}
  OBVIOUS
<1>4. /\ nl \o next \in Seq(Rune) /\ Holds(nl \o next, Keyed(NewLine, <<"1">>), Rune)
      /\ nl \o prev \in Seq(Rune) /\ Holds(nl \o prev, Keyed(NewLine, <<"2">>), Rune)
      /\ nl \o back \in Seq(Rune) /\ Holds(nl \o back, Keyed(NewLine, <<"0">>), Rune)
      /\ gap \o prev \in Seq(Rune) /\ Holds(gap \o prev, Keyed(Gap, <<"2">>), Rune)
      /\ gap \o back \in Seq(Rune) /\ Holds(gap \o back, Keyed(Gap, <<"0">>), Rune)
  BY <1>1, <1>3, ControlIsRead, Zenon
<1>5. /\ Keyed(NewLine, <<"1">>) \in Seq(Rune) /\ Keyed(NewLine, <<"2">>) \in Seq(Rune)
      /\ Keyed(NewLine, <<"0">>) \in Seq(Rune)
      /\ Keyed(Gap, <<"2">>) \in Seq(Rune) /\ Keyed(Gap, <<"0">>) \in Seq(Rune)
  <2>1. <<"0">> \in Text /\ <<"1">> \in Text /\ <<"2">> \in Text
    BY KeyNamesAre
  <2>2. \A k \in Text : Keyed(NewLine, k) \in Seq(Rune) /\ Keyed(Gap, k) \in Seq(Rune)
    BY <1>3, KeyedIs
  <2> QED
    BY <2>1, <2>2, Zenon
<1> HIDE DEF gap, nl, next, prev, back
<1>6. next \in Seq(Rune) /\ prev \in Seq(Rune) /\ back \in Seq(Rune)
      /\ gap \in Seq(Rune) /\ nl \in Seq(Rune)
      /\ Len(next) \in Nat /\ Len(prev) \in Nat /\ Len(back) \in Nat
  BY <1>1
<1>7. /\ all \in Seq(Basic) /\ next \o (gap \o back) \in Seq(Basic)
      /\ prev \o (gap \o back) \in Seq(Basic)
      /\ Len(next \o (gap \o back)) <= Len(all) /\ Len(prev \o (gap \o back)) <= Len(all)
      /\ Len(back) <= Len(all)
  BY <1>1, NavLengths, Zenon
<1> DEFINE gb == gap \o back
           gp == gap \o prev
           nn == nl \o next
           np == nl \o prev
<1>8. /\ nl \o (next \o gb) = nn \o gb /\ nl \o (prev \o gb) = np \o gb
      /\ nl \o ((next \o gp) \o gb) = (nn \o gp) \o gb
  <2>1. gb \in Seq(Rune) /\ gp \in Seq(Rune)
    BY <1>4
  <2> DEFINE ng == next \o gp
  <2>2. ng \in Seq(Rune)
    BY <1>6, <2>1
  <2> HIDE DEF gb, gp, ng
  <2>3. /\ Rebracketed(nl, next, gb) /\ Rebracketed(nl, prev, gb)
        /\ Rebracketed(nl, ng, gb) /\ Rebracketed(nl, next, gp)
    BY <1>6, <2>1, <2>2, Rebrackets, Zenon
  <2> QED
    BY <2>3, Zenon DEF Rebracketed, ng
<1>9. Offering(<<"nav.back">>, FALSE, FALSE)
  BY <1>1, <1>2, <1>3, <1>4, <1>7, Zenon DEF Offering, nl
<1> DEFINE two == nn \o gb
           owt == np \o gb
           three == (nn \o gp) \o gb
<1>10. /\ Holds(two, Keyed(Gap, <<"0">>), Rune) /\ Holds(two, Keyed(NewLine, <<"1">>), Rune)
       /\ Holds(owt, Keyed(Gap, <<"0">>), Rune) /\ Holds(owt, Keyed(NewLine, <<"2">>), Rune)
  <2>1. nn \in Seq(Rune) /\ np \in Seq(Rune) /\ gb \in Seq(Rune)
        /\ Holds(nn, Keyed(NewLine, <<"1">>), Rune) /\ Holds(np, Keyed(NewLine, <<"2">>), Rune)
        /\ Holds(gb, Keyed(Gap, <<"0">>), Rune)
    BY <1>4
  <2> HIDE DEF nn, np, gb
  <2> QED
    BY <1>5, <2>1, HeldFurther
<1>11. /\ Holds(three, Keyed(Gap, <<"0">>), Rune) /\ Holds(three, Keyed(NewLine, <<"1">>), Rune)
       /\ Holds(three, Keyed(Gap, <<"2">>), Rune)
  <2> DEFINE front == nn \o gp
  <2>1. nn \in Seq(Rune) /\ gp \in Seq(Rune) /\ gb \in Seq(Rune)
        /\ Holds(nn, Keyed(NewLine, <<"1">>), Rune) /\ Holds(gp, Keyed(Gap, <<"2">>), Rune)
        /\ Holds(gb, Keyed(Gap, <<"0">>), Rune)
    BY <1>4
  <2> HIDE DEF nn, gp, gb
  <2>2. front \in Seq(Rune)
        /\ Holds(front, Keyed(NewLine, <<"1">>), Rune) /\ Holds(front, Keyed(Gap, <<"2">>), Rune)
    BY <1>5, <2>1, HeldFurther
  <2> HIDE DEF front
  <2>3. /\ Holds(front \o gb, Keyed(Gap, <<"0">>), Rune)
        /\ Holds(front \o gb, Keyed(NewLine, <<"1">>), Rune)
        /\ Holds(front \o gb, Keyed(Gap, <<"2">>), Rune)
    BY <1>5, <2>1, <2>2, HeldFurther
  <2> QED
    BY <2>3 DEF front
<1> HIDE DEF two, owt, three
<1>12. Offering(<<"nav.next", "nav.back">>, TRUE, FALSE)
  <2>2. nl \o (next \o (gap \o back)) = two
    BY <1>8, Zenon DEF two
  <2> QED
    BY <1>2, <1>3, <1>7, <1>10, <2>2, Zenon DEF Offering, nl
<1>13. Offering(<<"nav.prev", "nav.back">>, FALSE, TRUE)
  <2>2. nl \o (prev \o (gap \o back)) = owt
    BY <1>8, Zenon DEF owt
  <2> QED
    BY <1>2, <1>3, <1>7, <1>10, <2>2, Zenon DEF Offering, nl
<1>14. Offering(Controls, TRUE, TRUE)
  <2>1. Len(all) <= Len(all)
    <3> HIDE DEF all
    <3> QED
      BY <1>7
  <2>2. nl \o all = three
    BY <1>8, Zenon DEF three
  <2> QED
    BY <1>2, <1>3, <1>7, <1>11, <2>1, <2>2, Zenon DEF Offering, nl
<1> QED
  BY <1>9, <1>12, <1>13, <1>14

\* A text of n runes of one septet each.
Measures(s, n) == s \in Seq(Basic) /\ Len(s) = n

LEMMA MeasuresMore ==
  ASSUME NEW m \in Nat, NEW n \in Nat, NEW s, NEW t, Measures(s, m), Measures(t, n)
  PROVE  Measures(s \o t, m + n)
BY Concat DEF Measures

LEMMA BesideFits ==
  ASSUME NEW H \in Seq(Basic), NEW N \in Seq(Basic), NEW P \in Seq(Rune),
         NEW reserve \in Nat, reserve >= Len(H) + Len(N) + 2,
         ScreenCost(P) + reserve <= Budget(P)
  PROVE  FitsScreen((H \o <<NewLine>> \o P) \o (<<NewLine>> \o N))
<1> DEFINE nl == <<NewLine>>
           above == H \o nl
           below == nl \o N
           rest == P \o below
<1>1. nl \in Seq(Basic) /\ Len(nl) = 1
  BY Separators
<1> HIDE DEF nl
<1>2. above \in Seq(Basic) /\ Len(above) = Len(H) + 1
  <2>1. Measures(H, Len(H)) /\ Measures(nl, 1) /\ Len(H) \in Nat /\ 1 \in Nat
    BY <1>1 DEF Measures
  <2>2. Measures(above, Len(H) + 1)
    BY <2>1, MeasuresMore, Zenon
  <2> QED
    BY <2>2, Zenon DEF Measures
<1>3. below \in Seq(Basic) /\ Len(below) = 1 + Len(N)
  BY <1>1, Concat
<1> HIDE DEF above, below
<1>4. above \in Seq(Rune) /\ below \in Seq(Rune)
  BY <1>2, <1>3, BasicIsText
<1>5. rest \in Seq(Rune) /\ ScreenCost(rest) = ScreenCost(P) + Len(below)
      /\ Budget(rest) = Budget(P)
  BY <1>3, <1>4, Concat, BasicTail
<1> HIDE DEF rest
<1>6. FitsScreen(rest \o above)
  <2>1. ScreenCost(rest \o above) = ScreenCost(rest) + Len(above)
        /\ Budget(rest \o above) = Budget(rest)
    BY <1>2, <1>5, BasicTail
  <2>2. ScreenCost(P) \in Nat /\ Budget(P) \in Nat /\ Len(H) \in Nat /\ Len(N) \in Nat
    BY CostIs
  <2> QED
    BY <1>2, <1>3, <1>5, <2>1, <2>2 DEF FitsScreen
<1>7. FitsScreen(above \o rest)
  <2>1. <<>> \in Seq(Rune) /\ <<>> \o above = above /\ <<>> \o rest = rest
    BY <1>4, <1>5, ConcatEmptySeq
  <2>2. FitsScreen((<<>> \o above) \o rest) <=> FitsScreen((<<>> \o rest) \o above)
    BY <1>4, <1>5, <2>1, OrderIsFree
  <2> QED
    BY <1>6, <2>1, <2>2, Zenon
<1>8. Rebracketed(above, P, below)
  BY <1>4, Rebrackets
<1> QED
  BY <1>7, <1>8, Zenon DEF Rebracketed, rest, above, below, nl

LEMMA CountsNone ==
  ASSUME NEW s \in Text, Count(s, Extended) = 0, EncodingOf(s) = "gsm7"
  PROVE  s \in Seq(Basic)
<1> DEFINE escaped == {i \in DOMAIN s : s[i] \in Extended}
<1>1. s \in Seq(Rune) /\ DOMAIN s = 1 .. Len(s) /\ Len(s) \in Nat
  BY DEF Text
<1>2. IsFiniteSet(escaped)
  <2>1. IsFiniteSet(1 .. Len(s))
    BY <1>1, FS_Interval
  <2> QED
    BY <1>1, <2>1, FS_Subset
<1>3. escaped = {}
  BY <1>2, FS_EmptySet, Zenon DEF Count
<1>4. \A i \in 1 .. Len(s) : s[i] \in Basic \cup Extended
  BY <1>1, EncodingIs
<1>5. \A i \in 1 .. Len(s) : s[i] \in Basic
  BY <1>1, <1>3, <1>4
<1> QED
  BY <1>1, <1>5

\* The page counter of a header.
Counter(page, pages) ==
  IF pages > 1
  THEN <<" ", "(">> \o Decimal(page) \o <<"/">> \o Decimal(pages) \o <<")">>
  ELSE <<>>

LEMMA CounterIs ==
  ASSUME NEW page \in Nat, NEW pages \in Nat
  PROVE  Counter(page, pages) \in Seq(Basic)
         /\ Len(Counter(page, pages)) =
              IF pages > 1 THEN 4 + Len(Decimal(page)) + Len(Decimal(pages)) ELSE 0
<1> DEFINE open == <<" ", "(">>
           slash == <<"/">>
           close == <<")">>
           from == Decimal(page)
           of == Decimal(pages)
<1>1. /\ open \in Seq(Basic) /\ slash \in Seq(Basic) /\ close \in Seq(Basic)
      /\ Len(open) = 2 /\ Len(slash) = 1 /\ Len(close) = 1
  <2>1. " " \in Basic /\ "(" \in Basic /\ "/" \in Basic /\ ")" \in Basic
    <3>1. {"(", ")", "/"} \subseteq Marks
      BY Zenon DEF Marks
    <3> QED
      BY <3>1, GapIs, Alphabet, Zenon DEF Gap
  <2>2. ASSUME NEW q \in Basic, NEW r \in Basic
        PROVE  <<q>> \in Seq(Basic) /\ <<q, r>> \in Seq(Basic)
               /\ Len(<<q>>) = 1 /\ Len(<<q, r>>) = 2
    OBVIOUS
  <2> QED
    BY <2>1, <2>2, Zenon
<1>2. /\ from \in Seq(Basic) /\ of \in Seq(Basic) /\ Len(from) \in Nat /\ Len(of) \in Nat
  BY DecimalIs
<1>3. Counter(page, pages) =
        IF pages > 1 THEN open \o from \o slash \o of \o close ELSE <<>>
  BY Zenon DEF Counter
<1> HIDE DEF open, slash, close, from, of
<1> DEFINE m == Len(from)
           k == Len(of)
<1>4. Measures(open, 2) /\ Measures(slash, 1) /\ Measures(close, 1)
      /\ Measures(from, m) /\ Measures(of, k)
  BY <1>1, <1>2, Zenon DEF Measures
<1>5. /\ 1 \in Nat /\ 2 \in Nat /\ m \in Nat /\ k \in Nat /\ 2 + m \in Nat
      /\ 2 + m + 1 \in Nat /\ 2 + m + 1 + k \in Nat /\ 2 + m + 1 + k + 1 = 4 + m + k
  BY <1>2
<1> HIDE DEF m, k
<1>6. Measures(open \o from, 2 + m)
  BY <1>4, <1>5, MeasuresMore, Zenon
<1>9. Measures(open \o from \o slash, 2 + m + 1)
  BY <1>4, <1>5, <1>6, MeasuresMore, Zenon
<1>10. Measures(open \o from \o slash \o of, 2 + m + 1 + k)
  BY <1>4, <1>5, <1>9, MeasuresMore, Zenon
<1>7. Measures(open \o from \o slash \o of \o close, 4 + m + k)
  <2>1. Measures(open \o from \o slash \o of \o close, 2 + m + 1 + k + 1)
    BY <1>4, <1>5, <1>10, MeasuresMore, Zenon
  <2> QED
    BY <1>5, <2>1
<1>8. <<>> \in Seq(Basic) /\ Len(<<>>) = 0
  OBVIOUS
<1> QED
  BY <1>3, <1>7, <1>8, Zenon DEF Measures, m, k, from, of

LEMMA HeaderIs ==
  ASSUME NEW post \in Posts, Count(PostHeader(post, 1, 1), Extended) = 0,
         NEW pages \in 0 .. WidestPageCounter, NEW page \in 0 .. pages
  PROVE  /\ PostHeader(post, page, pages) \in Seq(Basic)
         /\ Len(PostHeader(post, page, pages)) <=
              Len(PostHeader(post, WidestPageCounter, WidestPageCounter))
<1> DEFINE name == Label(post.author, MaxHeaderLen, T["post"])
           W == WidestPageCounter
<1>1. \A k, n : PostHeader(post, k, n) = name \o Counter(k, n)
  BY Zenon DEF PostHeader, Counter
<1>2. name \in Text /\ EncodingOf(name) = "gsm7"
  <2>1. post.author \in Text
    BY DEF Posts
  <2>2. T["post"] \in Text
    BY WordsAreTexts, Zenon DEF Words
  <2>3. T["post"] \in Seq(Basic \cup Extended) /\ T["post"] = OneLine(T["post"])
    BY WordsAssumption, Zenon
  <2>4. name \in Text
    BY <2>1, <2>2, Sizes, LabelIsText
  <2>5. OneGSMLine(post.author, MaxHeaderLen, T["post"])
    BY <2>1, <2>3, Sizes, EveryLabelIsOneGSMLine, Zenon DEF Text
  <2> QED
    BY <2>4, <2>5, Zenon DEF OneGSMLine
<1> HIDE DEF name
<1>3. W \in Nat /\ W > 0 /\ pages \in 0 .. W /\ page \in 0 .. W /\ pages \in Nat /\ page \in Nat
  BY Sizes
<1>4. name \in Seq(Basic)
  <2>1. Counter(1, 1) = <<>>
    BY DEF Counter
  <2>2. name \o <<>> = name
    BY <1>2, ConcatEmptySeq DEF Text
  <2>3. Count(name, Extended) = 0
    BY <1>1, <2>1, <2>2, Zenon
  <2> QED
    BY <1>2, <2>3, CountsNone
<1>5. /\ Counter(page, pages) \in Seq(Basic)
      /\ Len(Counter(page, pages)) =
           IF pages > 1 THEN 4 + Len(Decimal(page)) + Len(Decimal(pages)) ELSE 0
      /\ Counter(W, W) \in Seq(Basic)
      /\ Len(Counter(W, W)) = IF W > 1 THEN 4 + Len(Decimal(W)) + Len(Decimal(W)) ELSE 0
  <2> HIDE DEF W
  <2> QED
    BY <1>3, CounterIs, Zenon
<1> DEFINE here == Counter(page, pages)
           widest == Counter(W, W)
<1>6. /\ name \o here \in Seq(Basic) /\ Len(name \o here) = Len(name) + Len(here)
      /\ name \o widest \in Seq(Basic) /\ Len(name \o widest) = Len(name) + Len(widest)
      /\ Len(name) \in Nat /\ Len(here) <= Len(widest)
      /\ Len(here) \in Nat /\ Len(widest) \in Nat
  <2>1. here \in Seq(Basic) /\ widest \in Seq(Basic) /\ Len(here) <= Len(widest)
    <3>1. /\ Len(Decimal(page)) \in Nat /\ Len(Decimal(pages)) \in Nat /\ Len(Decimal(W)) \in Nat
          /\ Len(Decimal(page)) <= Len(Decimal(W)) /\ Len(Decimal(pages)) <= Len(Decimal(W))
      <4> HIDE DEF W
      <4> QED
        BY <1>3, DecimalIs, LongerDecimal
    <3>2. pages > 1 => W > 1
      BY <1>3
    <3> QED
      BY <1>5, <3>1, <3>2
  <2> HIDE DEF here, widest
  <2> QED
    BY <1>4, <2>1, Concat
<1>7. PostHeader(post, page, pages) = name \o here /\ PostHeader(post, W, W) = name \o widest
  BY <1>1, Zenon
<1> HIDE DEF here, widest
<1>8. Len(name \o here) <= Len(name \o widest)
  BY <1>6
<1> QED
  BY <1>6, <1>7, <1>8, Zenon

\* The controls a page offers, as PostPage puts them together.
PageKeys(nexts, prevs) ==
  (IF nexts THEN <<"nav.next">> ELSE <<>>) \o (IF prevs THEN <<"nav.prev">> ELSE <<>>)
  \o <<"nav.back">>

LEMMA UpToThree ==
  ASSUME NEW a, NEW b, NEW c
  PROVE  /\ (<<a>> \o <<b>>) \o <<c>> = <<a, b, c>>
         /\ (<<a>> \o <<>>) \o <<c>> = <<a, c>>
         /\ (<<>> \o <<b>>) \o <<c>> = <<b, c>>
         /\ (<<>> \o <<>>) \o <<c>> = <<c>>
<1> DEFINE X == {a, b, c}
<1>1. \A s \in Seq(X) : s \o <<>> = s /\ <<>> \o s = s
  BY ConcatEmptySeq
<1>2. <<a>> \in Seq(X) /\ <<b>> \in Seq(X) /\ <<c>> \in Seq(X) /\ <<>> \in Seq(X)
  OBVIOUS
<1>3. <<a>> \o <<>> = <<a>> /\ <<>> \o <<b>> = <<b>> /\ <<>> \o <<c>> = <<c>>
      /\ <<>> \o <<>> = <<>>
  BY <1>1, <1>2, Zenon
<1>4. <<a>> \o <<b>> = <<a, b>> /\ <<a, b>> \o <<c>> = <<a, b, c>>
      /\ <<a>> \o <<c>> = <<a, c>> /\ <<b>> \o <<c>> = <<b, c>>
  BY Tuples, Zenon
<1> QED
  BY <1>3, <1>4, Zenon

LEMMA PageKeysAre ==
  /\ PageKeys(TRUE, TRUE) = Controls
  /\ PageKeys(TRUE, FALSE) = <<"nav.next", "nav.back">>
  /\ PageKeys(FALSE, TRUE) = <<"nav.prev", "nav.back">>
  /\ PageKeys(FALSE, FALSE) = <<"nav.back">>
<1>1. PageKeys(TRUE, TRUE) = Controls
  <2>1. (<<"nav.next">> \o <<"nav.prev">>) \o <<"nav.back">> =
          <<"nav.next", "nav.prev", "nav.back">>
    BY UpToThree
  <2> QED
    BY <2>1, Zenon DEF PageKeys, Controls
<1>2. PageKeys(TRUE, FALSE) = <<"nav.next", "nav.back">>
  BY UpToThree, Zenon DEF PageKeys
<1>3. PageKeys(FALSE, TRUE) = <<"nav.prev", "nav.back">>
  BY UpToThree, Zenon DEF PageKeys
<1>4. PageKeys(FALSE, FALSE) = <<"nav.back">>
  BY UpToThree, Zenon DEF PageKeys
<1> QED
  BY <1>1, <1>2, <1>3, <1>4

LEMMA PageOffers ==
  ASSUME NEW nexts \in BOOLEAN, NEW prevs \in BOOLEAN
  PROVE  Offering(PageKeys(nexts, prevs), nexts, prevs)
<1>1. CASE nexts /\ prevs
  <2>1. nexts = TRUE /\ prevs = TRUE
    BY <1>1
  <2> QED
    BY <2>1, PageKeysAre, EachOffers, Zenon
<1>2. CASE nexts /\ ~prevs
  <2>1. nexts = TRUE /\ prevs = FALSE
    BY <1>2
  <2> QED
    BY <2>1, PageKeysAre, EachOffers, Zenon
<1>3. CASE ~nexts /\ prevs
  <2>1. nexts = FALSE /\ prevs = TRUE
    BY <1>3
  <2> QED
    BY <2>1, PageKeysAre, EachOffers, Zenon
<1>4. CASE ~nexts /\ ~prevs
  <2>1. nexts = FALSE /\ prevs = FALSE
    BY <1>4
  <2> QED
    BY <2>1, PageKeysAre, EachOffers, Zenon
<1> QED
  BY <1>1, <1>2, <1>3, <1>4, Zenon

\* The reserve leaves room for a rune of two units.
LEMMA ReserveLeavesRoom ==
  ASSUME NEW post \in Posts
  PROVE  ReserveOf(post) + 2 <= Least(MaxUCS2Units, MaxSeptets)
<1> DEFINE name == Label(post.author, MaxHeaderLen, T["post"])
           W == WidestPageCounter
           widest == Counter(W, W)
           H == PostHeader(post, W, W)
           digits == Len(Decimal(W))
           nav == Len(Nav(Controls))
           room == Least(MaxUCS2Units, MaxSeptets)
<1>1. W \in Nat /\ MaxHeaderLen \in Nat
  BY Sizes
<1>2. name \in Text /\ Len(name) <= MaxHeaderLen
  <2>1. post.author \in Text
    BY DEF Posts
  <2>2. T["post"] \in Text
    BY WordsAreTexts, Zenon DEF Words
  <2>3. T["post"] \in Seq(Basic \cup Extended) /\ T["post"] = OneLine(T["post"])
    BY WordsAssumption, Zenon
  <2>4. name \in Text
    BY <2>1, <2>2, Sizes, LabelIsText
  <2>5. OneGSMLine(post.author, MaxHeaderLen, T["post"])
    BY <2>1, <2>3, Sizes, EveryLabelIsOneGSMLine, Zenon DEF Text
  <2> QED
    BY <2>4, <2>5, Zenon DEF OneGSMLine
<1>3. H = name \o widest
  BY Zenon DEF PostHeader, Counter
<1> HIDE DEF W
<1>4. widest \in Seq(Rune) /\ Len(widest) <= 4 + 2 * digits /\ digits \in Nat
  <2>1. /\ widest \in Seq(Basic)
        /\ Len(widest) = IF W > 1 THEN 4 + digits + digits ELSE 0
    BY <1>1, CounterIs, Zenon
  <2>2. digits \in Nat
    BY <1>1, DecimalIs
  <2>3. widest \in Seq(Rune)
    BY <2>1, BasicIsText, Zenon
  <2> HIDE DEF widest, digits
  <2> QED
    BY <2>1, <2>2, <2>3
<1>5. Nav(Controls) \in Text
  BY ControlsAre, NavIsText
<1>6. MaxHeaderLen + (4 + 2 * digits) + nav + 4 <= room
  BY ReserveAssumption, Zenon DEF digits, nav, room, W, Controls
<1>7. ReserveOf(post) = Len(H) + nav + 2
  BY Zenon DEF ReserveOf, W
<1> HIDE DEF name, widest
<1>8. Len(name \o widest) = Len(name) + Len(widest) /\ Len(name) \in Nat /\ Len(widest) \in Nat
  BY <1>2, <1>4, Concat DEF Text
<1>9. nav \in Nat
  BY <1>5 DEF Text
<1>10. MaxUCS2Units \in Nat /\ MaxSeptets \in Nat
  BY Capacities
<1> HIDE DEF H, digits, nav
<1>11. room \in Nat
  BY <1>10 DEF Least
<1> HIDE DEF room
<1>12. ReserveOf(post) + 2 <= room
  BY <1>1, <1>2, <1>3, <1>4, <1>6, <1>7, <1>8, <1>9, <1>11
<1> QED
  BY <1>12 DEF room

LEMMA EndsInSome ==
  ASSUME NEW R, NEW s \in Seq(R), NEW r \in R
  PROVE  s \o <<r>> # <<>>
<1>1. <<r>> \in Seq(R) /\ Len(<<r>>) = 1
  OBVIOUS
<1>2. Len(s \o <<r>>) = Len(s) + Len(<<r>>)
  BY <1>1, Concat
<1>3. Len(s) \in Nat
  OBVIOUS
<1> DEFINE w == s \o <<r>>
<1>4. Len(w) = Len(s) + 1
  BY <1>1, <1>2
<1> HIDE DEF w
<1>5. w # <<>>
  BY <1>3, <1>4
<1> QED
  BY <1>5 DEF w

LEMMA InkIsKept ==
  ASSUME NEW s \in Seq(Rune), s # <<>>, Legible(s)
  PROVE  Inked(s) # <<>>
<1> DEFINE n == Len(s)
           p == Take(s, n - 1)
           q == SubSeq(s, (n - 1) + 1, n)
           r == s[n]
<1>1. n \in Nat /\ n - 1 \in 0 .. n /\ n \in 1 .. n /\ r \in Rune /\ r \notin Spaces
  BY DEF Legible
<1>2. p \in Seq(Rune) /\ q \in Seq(Rune) /\ Len(q) = n - (n - 1) /\ s = p \o q
  BY <1>1, TakeIs, TakeAndRest
<1>3. q = <<r>>
  <2>1. (n - 1) + 1 = n
    BY <1>1
  <2>2. \A i \in 1 .. Len(q) : q[i] = s[(n - 1) + i]
    <3>1. n - 1 \in Nat /\ n \in (n - 1) .. Len(s)
      BY <1>1
    <3>2. \A m \in 1 .. n - (n - 1) : q[m] = s[(n - 1) + m]
      <4> HIDE DEF n, q
      <4> QED
        BY <3>1, PartIs DEF q, n
    <3> QED
      BY <1>2, <3>2
  <2>3. Len(q) = 1 /\ (n - 1) + 1 = n
    BY <1>1, <1>2
  <2>4. q[1] = r
    <3> HIDE DEF q, n
    <3> QED
      BY <2>2, <2>3 DEF r
  <2> HIDE DEF q, r
  <2> QED
    BY <1>2, <2>3, <2>4
<1> HIDE DEF p, q, r
<1>4. Inked(s) = Inked(p) \o Inked(q)
  BY <1>2, InkedConcat
<1>5. Inked(p) \in Seq(Rune)
  BY <1>2, InkedIsText
<1>6. Inked(q) = <<r>>
  <2>1. /\ Inks(q) \in Seq(Seq(Rune)) /\ Len(Inks(q)) = Len(q)
        /\ \A i \in 1 .. Len(q) : Inks(q)[i] = InkOf(q[i])
        /\ Inked(q) = FlattenSeq(Inks(q))
    BY <1>2, InksAre
  <2> DEFINE ink == <<r>>
  <2>2. Len(q) = 1 /\ q[1] = r /\ InkOf(r) = ink /\ ink \in Seq(Rune)
    BY <1>1, <1>3 DEF InkOf
  <2> HIDE DEF ink
  <2>3. Inks(q) = <<ink>>
    <3> DEFINE ss == Inks(q)
    <3>1. ss \in Seq(Seq(Rune)) /\ Len(ss) = 1 /\ ss[1] = ink
      BY <2>1, <2>2
    <3> HIDE DEF ss
    <3>2. ss = <<ink>>
      BY <3>1
    <3> QED
      BY <3>2 DEF ss
  <2>4. FlattenSeq(<<ink>>) = ink
    BY <2>2, FlattenOne
  <2> QED
    BY <2>1, <2>3, <2>4, Zenon DEF ink
<1>7. Inked(p) \o <<r>> # <<>>
  BY <1>1, <1>5, EndsInSome
<1> QED
  BY <1>4, <1>6, <1>7, Zenon

\* So a post with a text has a page.
LEMMA TextHasPages ==
  ASSUME NEW post \in Posts, post.text # <<>>
  PROVE  Paginate(post.text, ReserveOf(post)) # <<>>
<1> DEFINE text == post.text
           pages == Paginate(text, ReserveOf(post))
<1>1. text \in Seq(Rune) /\ Legible(text) /\ text # <<>>
  BY DEF Posts, Text
<1>2. ReserveOf(post) \in Nat \ {0} /\ ReserveOf(post) + 2 <= Least(MaxUCS2Units, MaxSeptets)
  BY ReserveIs, ReserveLeavesRoom
<1> HIDE DEF text
<1>3. PagesKeep(text, ReserveOf(post))
  BY <1>1, <1>2, PagesKeepTheText
<1>4. Inked(FlattenSeq(pages)) = Inked(text)
  BY <1>2, <1>3, Zenon DEF PagesKeep
<1>5. Inked(text) # <<>>
  BY <1>1, InkIsKept
<1>6. Inked(FlattenSeq(<<>>)) = <<>>
  <2> DEFINE none == <<>>
  <2>1. none \in [1 .. 0 -> {<<>>}] /\ 0 \in Nat
    OBVIOUS
  <2>2. FlattenSeq(none) = <<>>
    <3> HIDE DEF none
    <3> QED
      BY <2>1, FlattenNothing
  <2>3. none \in Seq(Rune) /\ \A i \in 1 .. Len(none) : none[i] \in Spaces
    OBVIOUS
  <2>4. Inked(none) = <<>>
    <3> HIDE DEF none
    <3> QED
      BY <2>3, InkedSpaces
  <2> QED
    BY <2>2, <2>4, Zenon DEF none
<1> QED
  BY <1>4, <1>5, <1>6, Zenon DEF text

\* A post whose page counter is no wider than the widest, and whose name has no
\* rune of two septets.
Measured(st) ==
  /\ PostPages(st) # <<>> /\ Len(PostPages(st)) <= WidestPageCounter
  /\ Count(PostHeader(st.posts[st.cursor], 1, 1), Extended) = 0

Reading(body, k) == \E r \in {NewLine, Gap} : Holds(body, Keyed(r, k), Rune)

\* What stands on a page of a post: its header, the page and the controls.
PageOf(st, H, P, N) ==
  LET pages == PostPages(st)
      post == st.posts[st.cursor]
  IN /\ post \in Posts /\ st.page \in 0 .. Len(pages) - 1
     /\ H = PostHeader(post, st.page + 1, Len(pages)) /\ H \in Seq(Rune)
     /\ P \in ToSet(pages) /\ P \in Text
     /\ N = Nav(PageKeys(st.page < Len(pages) - 1, st.page > 0))

LEMMA PromptIsPage ==
  ASSUME NEW st, Steady(st), st.screen = "post", PostPages(st) # <<>>, NEW notice
  PROVE  /\ st.page \in 0 .. Len(PostPages(st)) - 1
         /\ Prompt(st, notice).body = PostPage(st, PostPages(st), st.page)
<1> DEFINE pages == PostPages(st)
           n == Len(pages)
           page == st.page
<1>1. st.posts \in Seq(Posts) /\ st.cursor \in 1 .. Len(st.posts) /\ page \in Pages(st)
  BY DEF Steady, Ready, Dialogues
<1>2. pages \in Seq(Text) /\ pages # <<>>
  BY <1>1, PostPagesAre
<1>3. page \in {0} \cup 0 .. n - 1
  BY <1>1 DEF Pages
<1> HIDE DEF pages, page
<1>4. n \in Nat /\ page \in 0 .. n - 1 /\ page <= n - 1
  BY <1>2, <1>3
<1>5. PageShown(st, pages) = page
  BY <1>4, Zenon DEF PageShown, Least, n, page
<1>6. Prompt(st, notice) = PostPrompt(st, pages)
  BY StagesDiffer, Zenon DEF Prompt, pages
<1>7. PostPrompt(st, pages).body = PostPage(st, pages, page)
  BY <1>2, <1>5 DEF PostPrompt, Prompted
<1> QED
  BY <1>4, <1>6, <1>7, Zenon DEF pages, page, n

LEMMA PostPromptIs ==
  ASSUME NEW st, Steady(st), st.screen = "post", PostPages(st) # <<>>, NEW notice
  PROVE  \E H, P, N :
           PageOf(st, H, P, N)
           /\ Prompt(st, notice).body = (H \o <<NewLine>> \o P) \o <<NewLine>> \o N
<1> DEFINE post == st.posts[st.cursor]
           pages == PostPages(st)
           n == Len(pages)
           page == st.page
           H == PostHeader(post, page + 1, n)
           P == pages[page + 1]
           N == Nav(PageKeys(page < n - 1, page > 0))
<1>1. st.posts \in Seq(Posts) /\ st.cursor \in 1 .. Len(st.posts) /\ page \in Pages(st)
  BY DEF Steady, Ready, Dialogues
<1>2. post \in Posts /\ pages \in Seq(Text) /\ pages # <<>>
  BY <1>1, PostPagesAre
<1>3. page \in {0} \cup 0 .. n - 1
  BY <1>1 DEF Pages
<1> HIDE DEF post, pages, page
<1>4. n \in Nat /\ page \in 0 .. n - 1 /\ page \in Nat /\ page + 1 \in 1 .. n
  BY <1>2, <1>3
<1>5. P \in Text /\ P \in ToSet(pages)
  BY <1>2, <1>4 DEF ToSet
<1>6. H \in Seq(Rune)
  BY <1>2, <1>4, HeaderIsText DEF Text
<1>7. Prompt(st, notice).body = (H \o <<NewLine>> \o P) \o <<NewLine>> \o N
  <2>1. Prompt(st, notice).body = PostPage(st, pages, page)
    BY PromptIsPage DEF pages, page
  <2>2. PostPage(st, pages, page) = (H \o <<NewLine>> \o P) \o <<NewLine>> \o N
    BY Zenon DEF PostPage, PageKeys, NewLine, post
  <2> QED
    BY <2>1, <2>2, Zenon
<1>8. PageOf(st, H, P, N)
  BY <1>2, <1>4, <1>5, <1>6, Zenon DEF PageOf, post, pages, page
<1> QED
  BY <1>7, <1>8, Zenon

LEMMA PostIsRead ==
  ASSUME NEW st, Steady(st), st.screen = "post", Measured(st)
  PROVE  LET body == Shrink(Prompt(st, <<>>).body)
         IN /\ body = Prompt(st, <<>>).body
            /\ body \in Text /\ Reading(body, <<"0">>)
            /\ st.page < Len(PostPages(st)) - 1 => Reading(body, <<"1">>)
            /\ st.page > 0 => Reading(body, <<"2">>)
<1> DEFINE post == st.posts[st.cursor]
           pages == PostPages(st)
           n == Len(pages)
           nexts == st.page < n - 1
           prevs == st.page > 0
<1>1. st.posts \in Seq(Posts) /\ st.cursor \in 1 .. Len(st.posts)
  BY DEF Steady, Ready, Dialogues
<1>2. /\ post \in Posts /\ pages = Paginate(post.text, ReserveOf(post))
      /\ pages \in Seq(Text) /\ pages # <<>>
  BY <1>1, PostPagesAre DEF Measured
<1>3. PICK H, P, N :
        /\ PageOf(st, H, P, N)
        /\ Prompt(st, <<>>).body = (H \o <<NewLine>> \o P) \o <<NewLine>> \o N
  BY <1>2, PostPromptIs, Zenon
<1> DEFINE X == H \o <<NewLine>> \o P
           below == <<NewLine>> \o N
<1>4. /\ H = PostHeader(post, st.page + 1, n) /\ P \in ToSet(pages) /\ P \in Text
      /\ N = Nav(PageKeys(nexts, prevs)) /\ st.page \in 0 .. n - 1
  BY <1>3, Zenon DEF PageOf
<1> HIDE DEF pages
<1>5. H \in Seq(Basic)
      /\ Len(H) <= Len(PostHeader(post, WidestPageCounter, WidestPageCounter))
  <2>1. n \in 0 .. WidestPageCounter /\ st.page + 1 \in 0 .. n
    BY <1>2, <1>4, Sizes DEF Measured, pages
  <2>2. Count(PostHeader(post, 1, 1), Extended) = 0
    BY DEF Measured
  <2> HIDE DEF post, n
  <2> QED
    BY <1>2, <1>4, <2>1, <2>2, HeaderIs, Zenon
<1> HIDE DEF post
<1>6. nexts \in BOOLEAN /\ prevs \in BOOLEAN
  OBVIOUS
<1> HIDE DEF n, nexts, prevs
<1>7. Offering(PageKeys(nexts, prevs), nexts, prevs)
  BY <1>6, PageOffers
<1>8. N \in Seq(Basic) /\ Len(N) <= Len(Nav(Controls))
  BY <1>4, <1>7, Zenon DEF Offering
<1>9. ReserveOf(post) \in Nat \ {0}
  BY <1>2, ReserveIs
<1>10. ScreenCost(P) + ReserveOf(post) <= Budget(P)
  <2>1. post.text \in Text
    BY <1>2 DEF Posts
  <2>2. PagesFitBeside(post.text, ReserveOf(post))
    BY <1>9, <2>1, EveryPageFits DEF Text
  <2> QED
    BY <1>2, <1>4, <2>2, Zenon DEF PagesFitBeside
<1>11. FitsScreen(X \o below)
  <2>1. ReserveOf(post) >= Len(H) + Len(N) + 2
    <3>1. Len(H) \in Nat /\ Len(N) \in Nat
      BY <1>5, <1>8
    <3>2. Len(PostHeader(post, WidestPageCounter, WidestPageCounter)) \in Nat
          /\ Len(Nav(Controls)) \in Nat
      <4>1. PostHeader(post, WidestPageCounter, WidestPageCounter) \in Text
        <5>1. WidestPageCounter \in Nat
          BY Sizes
        <5> QED
          BY <1>2, <5>1, HeaderIsText
      <4>2. Nav(Controls) \in Text
        BY ControlsAre, NavIsText
      <4> QED
        BY <4>1, <4>2 DEF Text
    <3> QED
      BY <1>5, <1>8, <3>1, <3>2 DEF ReserveOf
  <2>2. P \in Seq(Rune) /\ ReserveOf(post) \in Nat
    BY <1>4, <1>9 DEF Text
  <2> QED
    BY <1>5, <1>8, <1>10, <2>1, <2>2, BesideFits, Zenon
<1>12. X \in Seq(Rune) /\ below \in Seq(Rune) /\ <<NewLine>> \in Seq(Rune) /\ N \in Seq(Rune)
  <2>1. H \in Seq(Rune) /\ N \in Seq(Rune) /\ P \in Seq(Rune)
    BY <1>4, <1>5, <1>8, BasicIsText DEF Text
  <2>2. <<NewLine>> \in Seq(Rune)
    BY Alphabet
  <2> DEFINE nl == <<NewLine>>
  <2> HIDE DEF nl
  <2>3. H \o nl \in Seq(Rune)
    BY <2>1, <2>2, Concat DEF nl
  <2>4. H \o nl \o P \in Seq(Rune)
    BY <2>1, <2>3, Concat
  <2>5. nl \o N \in Seq(Rune)
    BY <2>1, <2>2, Concat DEF nl
  <2> QED
    BY <2>1, <2>2, <2>4, <2>5, Zenon DEF nl
<1>13. Prompt(st, <<>>).body = X \o below
  <2>1. Rebracketed(X, <<NewLine>>, N)
    BY <1>12, Rebrackets, Zenon
  <2> QED
    BY <1>3, <2>1, Zenon DEF Rebracketed
<1> DEFINE body == X \o below
<1> HIDE DEF X, below
<1>14. Shrink(Prompt(st, <<>>).body) = body
  BY <1>11, <1>13, ShrunkIsItself, Zenon
<1>15. body \in Text
  BY <1>12, Concat DEF Text
<1>16. ASSUME NEW k \in Text, \E r \in {NewLine, Gap} : Holds(below, Keyed(r, k), Rune)
       PROVE  Reading(body, k)
  <2>1. PICK r \in {NewLine, Gap} : Holds(below, Keyed(r, k), Rune)
    BY <1>16
  <2>2. Keyed(r, k) \in Seq(Rune)
    BY KeyedIs
  <2>3. Holds(body, Keyed(r, k), Rune)
    BY <1>12, <2>1, <2>2, HeldFurther, Zenon
  <2> QED
    BY <2>3, Zenon DEF Reading
<1>17. <<"0">> \in Text /\ <<"1">> \in Text /\ <<"2">> \in Text
  BY KeyNamesAre
<1>18. /\ Reading(body, <<"0">>)
       /\ nexts => Reading(body, <<"1">>)
       /\ prevs => Reading(body, <<"2">>)
  BY <1>4, <1>7, <1>16, <1>17, Zenon DEF Offering, below
<1>19. Prompt(st, <<>>).body = body
  BY <1>13, Zenon DEF body, X, below
<1> QED
  BY <1>14, <1>15, <1>18, <1>19, Zenon DEF nexts, prevs, n, pages

\* The keys a screen takes, not calling them invalid.
Takes(st, k) == Handle(st, k, Unreachable).notice # T["error.choice"]

LEMMA MenuTakes ==
  ASSUME NEW st, st.screen = "menu", NEW k, Takes(st, k)
  PROVE  k \in {<<"0">>, <<"1">>, <<"2">>}
<1>1. HandleMenu(st, k, Unreachable).notice # T["error.choice"]
  BY Zenon DEF Takes, Handle
<1>2. k = <<"1">> \/ k = <<"2">> \/ k = <<"0">>
  BY <1>1, Zenon DEF HandleMenu, Stay
<1> QED
  BY <1>2, Zenon

LEMMA TimelineTakes ==
  ASSUME NEW st, st.screen = "timeline", NEW n \in Nat, Takes(st, Decimal(n))
  PROVE  Decimal(n) = <<"0">> \/ n \in 1 .. st.listed
<1> DEFINE k == Decimal(n)
<1> HIDE DEF k
<1>1. HandleTimeline(st, k).notice # T["error.choice"]
  BY StagesDiffer, Zenon DEF Takes, Handle, k
<1>2. k = <<"0">> \/ Number(k) \in 1 .. st.listed
  BY <1>1, Zenon DEF HandleTimeline, Stay
<1>3. Number(k) = n
  BY NumberOfDecimal DEF k
<1> QED
  BY <1>2, <1>3, Zenon DEF k

LEMMA PostTakes ==
  ASSUME NEW st, st.screen = "post", NEW k, Takes(st, k)
  PROVE  \/ k = <<"0">>
         \/ k = <<"1">> /\ st.page < Len(PostPages(st)) - 1
         \/ k = <<"2">> /\ st.page > 0
<1>1. HandlePost(st, k).notice # T["error.choice"]
  BY StagesDiffer, Zenon DEF Takes, Handle
<1> QED
  BY <1>1, Zenon DEF HandlePost, Stay

LEMMA IsShownWith ==
  ASSUME NEW k \in KeyNames, handset.body \in Text, Reading(handset.body, k)
  PROVE  k \in KeysShown
BY KeyIsShown, Zenon DEF Reading

LEMMA IsMeasured ==
  ASSUME Steady(session), session.screen = "post", MeasuredByReserve
  PROVE  Measured(session) /\ handset.body = Shrink(Prompt(session, <<>>).body)
<1>1. session.posts \in Seq(Posts) /\ session.cursor \in 1 .. Len(session.posts)
  BY DEF Steady, Ready, Dialogues
<1>2. /\ session.posts[session.cursor] \in Posts
      /\ PostPages(session) = Paginate(session.posts[session.cursor].text,
                                       ReserveOf(session.posts[session.cursor]))
  BY <1>1, PostPagesAre
<1>3. PostPages(session) # <<>>
  BY <1>2, TextHasPages, Zenon DEF MeasuredByReserve
<1> QED
  BY <1>3, Zenon DEF MeasuredByReserve, Measured

LEMMA TakenAreShown == Typed /\ Answerable /\ MeasuredByReserve => KeysTaken \subseteq KeysShown
<1> SUFFICES ASSUME Typed, Answerable, MeasuredByReserve, NEW k \in KeysTaken
             PROVE  k \in KeysShown
  BY Zenon
<1>0. /\ Takes(session, k)
      /\ \E n \in 0 .. Len(session.posts) + 2 : k = Decimal(n)
  BY Zenon DEF KeysTaken, Takes
<1> PICK n \in 0 .. Len(session.posts) + 2 : k = Decimal(n)
  BY <1>0
<1>1. Takes(session, k) /\ n \in Nat /\ k \in KeyNames
  BY <1>0, KeyNamesAre
<1>2. Steady(session) /\ OnScreen(session, handset.body)
  BY Zenon DEF Typed, Answerable
<1>3. PICK notice \in Notices(session.screen) :
        /\ Prompt(session, notice).st = session
        /\ handset.body = Shrink(Noticed(notice, Prompt(session, notice).body))
  BY <1>2, Zenon DEF OnScreen
<1>4. session \in Dialogues /\ session.screen \in Stages /\ session.screen # "about"
  BY <1>2, Zenon DEF Steady, Ready, Dialogues
<1>5. NewLine \in {NewLine, Gap}
  BY Zenon
<1>6. CASE session.screen = "menu"
  <2>1. k \in {<<"0">>, <<"1">>, <<"2">>}
    BY <1>1, <1>6, MenuTakes
  <2>2. PICK i \in 1 .. 3 : Lead(MenuItems[i]) = Keyed(NewLine, k)
    <3>1. 1 \in 1 .. 3 /\ 2 \in 1 .. 3 /\ 3 \in 1 .. 3
      OBVIOUS
    <3> QED
      BY <2>1, <3>1, MenuItemsAre, Zenon
  <2>3. Prompt(session, notice).body = MenuPrompt
    BY <1>6 DEF Prompt, Prompted
  <2>4. handset.body \in Text /\ Holds(handset.body, Lead(MenuItems[i]), Rune)
    BY <1>3, <1>6, <2>3, MenuIsRead
  <2> QED
    BY <1>1, <1>5, <2>2, <2>4, KeyIsShown, Zenon
<1>7. CASE session.screen = "timeline"
  <2> DEFINE fit == TimelineFit(session.posts, notice)
  <2>1. session.posts \in Seq(Posts)
    BY <1>2 DEF Steady, Ready, Dialogues
  <2>2. Prompt(session, notice) = TimelinePrompt(session, fit)
    BY <1>7, StagesDiffer, Zenon DEF Prompt
  <2> HIDE DEF fit
  <2>3. Prompt(session, notice).body = fit.text /\ session.listed = fit.shown
    BY <1>3, <1>4, <2>2 DEF TimelinePrompt, Prompted, Dialogues
  <2>4. /\ handset.body \in Text /\ Holds(handset.body, Keyed(NewLine, <<"0">>), Rune)
        /\ \A i \in 1 .. fit.shown : Holds(handset.body, Keyed(NewLine, Decimal(i)), Rune)
        /\ fit.shown \in 0 .. Len(session.posts)
    BY <1>3, <1>7, <2>1, <2>3, TimelineIsRead, Zenon DEF fit
  <2>6. k = <<"0">> \/ n \in 1 .. session.listed
    BY <1>1, <1>7, TimelineTakes
  <2>7. Holds(handset.body, Keyed(NewLine, k), Rune)
    BY <2>3, <2>4, <2>6, Zenon
  <2> QED
    BY <1>1, <1>5, <2>4, <2>7, KeyIsShown, Zenon
<1>8. CASE session.screen = "post"
  <2>1. Measured(session) /\ handset.body = Shrink(Prompt(session, <<>>).body)
    BY <1>2, <1>8, IsMeasured, Zenon
  <2>2. /\ handset.body \in Text /\ Reading(handset.body, <<"0">>)
        /\ session.page < Len(PostPages(session)) - 1 => Reading(handset.body, <<"1">>)
        /\ session.page > 0 => Reading(handset.body, <<"2">>)
    BY <1>2, <1>8, <2>1, PostIsRead, Zenon
  <2>3. \/ k = <<"0">>
        \/ k = <<"1">> /\ session.page < Len(PostPages(session)) - 1
        \/ k = <<"2">> /\ session.page > 0
    BY <1>1, <1>8, PostTakes
  <2>4. Reading(handset.body, k)
    BY <2>2, <2>3, Zenon
  <2> QED
    BY <1>1, <2>2, <2>4, IsShownWith
<1> QED
  BY <1>4, <1>6, <1>7, <1>8, Zenon DEF Stages

(***************************************************************************)
(* A key a screen takes is one the subscriber can read there: every option *)
(* of the menu, however long the notice above it; on the timeline Quit and *)
(* every post counted as listed; on a post the way back, and Next and Prev *)
(* where they lead somewhere, as long as the reserve measures what is on   *)
(* the screen (main.go:184-186, 201-206, 219-221).                         *)
(***************************************************************************)
THEOREM TakenKeysAlwaysShown == Spec => []TakenKeysAreShown
<1>1. Typed => TakenKeysAreShown
  BY TakenAreShown, Zenon DEF TakenKeysAreShown
<1> QED
  BY <1>1, Invariant, PTL

(***************************************************************************)
(* A post that the reserve measures is on the screen whole: its header,    *)
(* the page the session is on and the controls that lead somewhere, with   *)
(* nothing left for Shrink to cut (main.go:256-311).                       *)
(***************************************************************************)
THEOREM PostsAlwaysShownWhole == Spec => []PostsAreShownWhole
<1>1. ASSUME Typed, Answerable, session.screen = "post", MeasuredByReserve
      PROVE  /\ PostPages(session) # <<>>
             /\ handset.body = PostPage(session, PostPages(session), session.page)
  <2>1. Steady(session)
    BY <1>1, Zenon DEF Typed, Answerable
  <2>2. Measured(session) /\ handset.body = Shrink(Prompt(session, <<>>).body)
    BY <1>1, <2>1, IsMeasured
  <2>3. handset.body = Prompt(session, <<>>).body
    BY <1>1, <2>1, <2>2, PostIsRead, Zenon
  <2>4. PostPages(session) # <<>>
    BY <2>2, Zenon DEF Measured
  <2>5. Prompt(session, <<>>).body = PostPage(session, PostPages(session), session.page)
    BY <1>1, <2>1, <2>4, PromptIsPage, Zenon
  <2> QED
    BY <2>3, <2>4, <2>5, Zenon
<1>2. Typed => PostsAreShownWhole
  BY <1>1, Zenon DEF PostsAreShownWhole
<1> QED
  BY <1>2, Invariant, PTL

----------------------------------------------------------------------------
(* What reads as a key in a text *)

\* What no key has between its ends.
LEMMA KeyRunes ==
  /\ Gap \notin Numeral /\ NewLine \notin Numeral /\ "." \notin Numeral
  /\ Gap # "." /\ NewLine # "." /\ NewLine # Gap
<1>1. Numeral \cap Spaces = {} /\ Gap \in Spaces /\ NewLine \in Spaces /\ "." \notin Spaces
  BY DigitsAre, Alphabets, GapIs, Separators, Zenon DEF Numeral
<1>2. \A n \in 1 .. 10 : Digits[n] # "."
  BY DEF Digits
<1>3. DOMAIN Digits = 1 .. 10
  BY DEF Digits
<1>4. "." \notin Numeral
  BY <1>2, <1>3, Zenon DEF Numeral, ToSet
<1> QED
  BY <1>1, <1>4, Separators, Zenon

\* A key found beyond the first o runes of a text is in what follows them.
LEMMA KeyBeyond ==
  ASSUME NEW s \in Seq(Rune), NEW u \in Seq(Rune), NEW o \in Nat, Len(s) = o + Len(u),
         \A p \in 1 .. Len(u) : s[o + p] = u[p],
         NEW i \in o + 1 .. Len(s), NEW j \in i .. Len(s) - 2, KeyIsAt(s, i, j)
  PROVE  SubSeq(s, i + 1, j) \in KeysIn(u)
<1> DEFINE a == i - o
           b == j - o
<1>1. /\ a \in 1 .. Len(u) /\ b \in a .. Len(u) - 2 /\ a < b
      /\ i \in Nat /\ j \in Nat /\ Len(u) \in Nat /\ Len(s) \in Nat /\ i = o + a /\ j = o + b
  BY DEF KeyIsAt
<1>2. \A p \in 1 .. Len(u) : s[o + p] = u[p]
  OBVIOUS
<1> HIDE DEF a, b
<1>3. u[a] = s[i] /\ u[b + 1] = s[j + 1] /\ u[b + 2] = s[j + 2]
  <2>1. b + 1 \in 1 .. Len(u) /\ b + 2 \in 1 .. Len(u) /\ o + (b + 1) = j + 1 /\ o + (b + 2) = j + 2
    BY <1>1
  <2> QED
    BY <1>1, <1>2, <2>1
<1>4. \A m \in a + 1 .. b : u[m] = s[o + m] /\ o + m \in i + 1 .. j
  BY <1>1, <1>2
<1>5. KeyIsAt(u, a, b)
  BY <1>1, <1>3, <1>4 DEF KeyIsAt
<1>6. SubSeq(s, i + 1, j) = SubSeq(u, a + 1, b)
  <2> DEFINE x == SubSeq(s, i + 1, j)
             y == SubSeq(u, a + 1, b)
  <2>1. x \in Seq(Rune) /\ Len(x) = j - i /\ \A m \in 1 .. j - i : x[m] = s[i + m]
    <3>1. i \in Nat /\ j \in i .. Len(s)
      BY <1>1
    <3> HIDE DEF a, b
    <3> QED
      BY <3>1, PartIs
  <2>2. y \in Seq(Rune) /\ Len(y) = b - a /\ \A m \in 1 .. b - a : y[m] = u[a + m]
    BY <1>1
  <2>3. b - a = j - i
    BY <1>1
  <2>4. ASSUME NEW m \in 1 .. j - i PROVE x[m] = y[m]
    <3>1. a + m \in a + 1 .. b /\ o + (a + m) = i + m
      BY <1>1, <2>3
    <3> QED
      BY <1>4, <2>1, <2>2, <2>3, <3>1
  <2> HIDE DEF x, y
  <2> QED
    BY <2>1, <2>2, <2>3, <2>4, SeqEqual DEF x, y
<1> QED
  BY <1>1, <1>5, <1>6, KeysInIs

\* And one found before the last runes is in what precedes them.
LEMMA KeyBefore ==
  ASSUME NEW s \in Seq(Rune), NEW w \in Seq(Rune), Len(s) <= Len(w),
         \A p \in 1 .. Len(s) : w[p] = s[p],
         NEW i \in 1 .. Len(s), NEW j \in i .. Len(s) - 2, KeyIsAt(w, i, j)
  PROVE  SubSeq(w, i + 1, j) \in KeysIn(s)
<1>1. i < j /\ i \in Nat /\ j \in Nat /\ Len(s) \in Nat /\ Len(w) \in Nat /\ j + 2 <= Len(s)
  BY DEF KeyIsAt
<1>2. \A p \in 1 .. j + 2 : w[p] = s[p]
  BY <1>1
<1>3. KeyIsAt(s, i, j)
  <2>1. s[i] = w[i] /\ s[j + 1] = w[j + 1] /\ s[j + 2] = w[j + 2]
    BY <1>1, <1>2
  <2>2. \A m \in i + 1 .. j : s[m] = w[m]
    BY <1>1, <1>2
  <2> QED
    BY <2>1, <2>2 DEF KeyIsAt
<1>4. SubSeq(w, i + 1, j) = SubSeq(s, i + 1, j)
  <2> DEFINE x == SubSeq(w, i + 1, j)
             y == SubSeq(s, i + 1, j)
  <2>1. x \in Seq(Rune) /\ Len(x) = j - i /\ \A m \in 1 .. j - i : x[m] = w[i + m]
    BY <1>1
  <2>2. y \in Seq(Rune) /\ Len(y) = j - i /\ \A m \in 1 .. j - i : y[m] = s[i + m]
    BY <1>1
  <2>3. ASSUME NEW m \in 1 .. j - i PROVE x[m] = y[m]
    BY <1>1, <1>2, <2>1, <2>2
  <2> HIDE DEF x, y
  <2> QED
    BY <2>1, <2>2, <2>3, SeqEqual DEF x, y
<1> QED
  BY <1>3, <1>4, KeysInIs

\* A key of two texts together is one of either, or is where they meet.
Across(s, u, k) ==
  \E i \in 1 .. Len(s) : \E j \in i .. Len(s) + Len(u) - 2 :
    Len(s) < j + 2 /\ KeyIsAt(s \o u, i, j) /\ k = SubSeq(s \o u, i + 1, j)

LEMMA KeysOfBoth ==
  ASSUME NEW s \in Seq(Rune), NEW u \in Seq(Rune), NEW k \in KeysIn(s \o u)
  PROVE  k \in KeysIn(s) \/ k \in KeysIn(u) \/ Across(s, u, k)
<1> DEFINE w == s \o u
<1>1. Follows(Rune, s, u, w)
  BY FollowsIs, Zenon
<1>2. /\ w \in Seq(Rune) /\ Len(w) = Len(s) + Len(u) /\ Len(s) \in Nat /\ Len(u) \in Nat
      /\ \A p \in 1 .. Len(s) : w[p] = s[p]
      /\ \A p \in 1 .. Len(u) : w[Len(s) + p] = u[p]
  <2> HIDE DEF w
  <2> QED
    BY <1>1 DEF Follows
<1>3. k \in KeysIn(w)
  OBVIOUS
<1> HIDE DEF w
<1>4. PICK i \in 1 .. Len(w) : \E j \in i .. Len(w) - 2 :
        KeyIsAt(w, i, j) /\ k = SubSeq(w, i + 1, j)
  <2>1. w \in Seq(Rune)
    BY <1>2
  <2> QED
    BY <1>3, <2>1, KeysInIs, Zenon
<1>5. PICK j \in i .. Len(w) - 2 : KeyIsAt(w, i, j) /\ k = SubSeq(w, i + 1, j)
  BY <1>4
<1>6. CASE i > Len(s)
  <2>1. i \in Len(s) + 1 .. Len(w)
    BY <1>2, <1>6
  <2> QED
    BY <1>2, <1>5, <2>1, KeyBeyond
<1>7. CASE i <= Len(s) /\ j + 2 <= Len(s)
  <2>1. i \in 1 .. Len(s) /\ j \in i .. Len(s) - 2 /\ Len(s) <= Len(w)
    BY <1>2, <1>7
  <2> QED
    BY <1>2, <1>5, <2>1, KeyBefore
<1>8. CASE i <= Len(s) /\ Len(s) < j + 2
  <2>1. i \in 1 .. Len(s) /\ j \in i .. Len(s) + Len(u) - 2
    BY <1>2, <1>8
  <2>2. Across(s, u, k)
    BY <1>5, <1>8, <2>1, Zenon DEF Across, w
  <2> QED
    BY <2>2
<1>9. i \in Nat /\ j \in Nat
  BY <1>2
<1> QED
  BY <1>2, <1>6, <1>7, <1>8, <1>9

LEMMA KeysOfStart ==
  ASSUME NEW s \in Seq(Rune), NEW u \in Seq(Rune)
  PROVE  KeysIn(s) \subseteq KeysIn(s \o u)
<1> SUFFICES ASSUME NEW k \in KeysIn(s) PROVE k \in KeysIn(s \o u)
  OBVIOUS
<1> DEFINE w == s \o u
<1>1. /\ w \in Seq(Rune) /\ Len(w) = Len(s) + Len(u) /\ Len(s) \in Nat /\ Len(u) \in Nat
      /\ \A p \in 1 .. Len(s) : w[p] = s[p]
  <2>1. Follows(Rune, s, u, w)
    BY FollowsIs, Zenon
  <2> HIDE DEF w
  <2> QED
    BY <2>1 DEF Follows
<1> HIDE DEF w
<1>2. PICK i \in 1 .. Len(s) : \E j \in i .. Len(s) - 2 :
        KeyIsAt(s, i, j) /\ k = SubSeq(s, i + 1, j)
  BY KeysInIs, Zenon
<1>3. PICK j \in i .. Len(s) - 2 : KeyIsAt(s, i, j) /\ k = SubSeq(s, i + 1, j)
  BY <1>2
<1>4. i \in Nat /\ j \in Nat /\ i < j /\ j + 2 <= Len(s)
  BY <1>1, <1>3 DEF KeyIsAt
<1>5. KeyIsAt(w, i, j)
  <2>1. s[i] = w[i] /\ s[j + 1] = w[j + 1] /\ s[j + 2] = w[j + 2]
    BY <1>1, <1>4
  <2>2. \A m \in i + 1 .. j : s[m] = w[m]
    BY <1>1, <1>4
  <2> QED
    BY <1>3, <2>1, <2>2 DEF KeyIsAt
<1>6. SubSeq(w, i + 1, j) = SubSeq(s, i + 1, j)
  <2> DEFINE x == SubSeq(w, i + 1, j)
             y == SubSeq(s, i + 1, j)
  <2>1. x \in Seq(Rune) /\ Len(x) = j - i /\ \A m \in 1 .. j - i : x[m] = w[i + m]
    <3>1. j \in i .. Len(w)
      BY <1>1, <1>4
    <3> QED
      BY <1>1, <1>4, <3>1, PartIs
  <2>2. y \in Seq(Rune) /\ Len(y) = j - i /\ \A m \in 1 .. j - i : y[m] = s[i + m]
    <3>1. j \in i .. Len(s)
      BY <1>1, <1>4
    <3> QED
      BY <1>4, <3>1, PartIs
  <2>3. ASSUME NEW m \in 1 .. j - i PROVE x[m] = y[m]
    <3>1. i + m \in 1 .. Len(s)
      BY <1>1, <1>4
    <3> QED
      BY <1>1, <2>1, <2>2, <3>1
  <2> HIDE DEF x, y
  <2> QED
    BY <1>4, <2>1, <2>2, <2>3, SeqEqual DEF x, y
<1>7. i \in 1 .. Len(w) /\ j \in i .. Len(w) - 2
  BY <1>1, <1>4
<1>8. k \in KeysIn(w)
  BY <1>1, <1>3, <1>5, <1>6, <1>7, KeysInIs
<1> QED
  BY <1>8 DEF w

\* Where a text is as long as a key that crosses into the next, that next one's
\* rune is a digit, a dot or the blank.
LEMMA CrossesWhere ==
  ASSUME NEW s \in Seq(Rune), NEW u \in Seq(Rune), NEW k, Across(s, u, k)
  PROVE  /\ Len(u) > 0 /\ u[1] \in Numeral \cup {".", Gap}
         /\ \E p \in 1 .. Len(u) : u[p] = Gap
<1> DEFINE w == s \o u
<1>1. /\ w \in Seq(Rune) /\ Len(w) = Len(s) + Len(u) /\ Len(s) \in Nat /\ Len(u) \in Nat
      /\ \A p \in 1 .. Len(u) : w[Len(s) + p] = u[p]
  <2>1. Follows(Rune, s, u, w)
    BY FollowsIs, Zenon
  <2> HIDE DEF w
  <2> QED
    BY <2>1 DEF Follows
<1>2. PICK i \in 1 .. Len(s) : \E j \in i .. Len(s) + Len(u) - 2 :
        Len(s) < j + 2 /\ KeyIsAt(w, i, j) /\ k = SubSeq(w, i + 1, j)
  BY Zenon DEF Across
<1> HIDE DEF w
<1>3. PICK j \in i .. Len(s) + Len(u) - 2 : Len(s) < j + 2 /\ KeyIsAt(w, i, j)
  BY <1>2
<1> DEFINE q == j + 2 - Len(s)
<1>4. q \in 1 .. Len(u) /\ Len(s) + q = j + 2 /\ i \in Nat /\ j \in Nat /\ i < j /\ Len(u) > 0
  BY <1>1, <1>3 DEF KeyIsAt
<1>5. u[q] = Gap
  <2> HIDE DEF q
  <2>1. w[Len(s) + q] = u[q] /\ w[j + 2] = Gap
    BY <1>1, <1>3, <1>4 DEF KeyIsAt
  <2> QED
    BY <1>4, <2>1
<1>6. u[1] \in Numeral \cup {".", Gap}
  <2>1. w[Len(s) + 1] = u[1]
    BY <1>1, <1>4
  <2>2. Len(s) + 1 \in i + 1 .. j \/ Len(s) + 1 = j + 1 \/ Len(s) + 1 = j + 2
    <3>1. i <= Len(s) /\ Len(s) < j + 2
      <4>1. Len(s) < j + 2
        BY <1>3
      <4>2. i <= Len(s)
        BY <1>1
      <4> QED
        BY <4>1, <4>2
    <3> DEFINE n == Len(s)
    <3>2. n \in Nat /\ i \in Nat /\ j \in Nat /\ i <= n /\ n < j + 2
      BY <1>1, <1>4, <3>1
    <3> HIDE DEF n
    <3>3. n + 1 \in i + 1 .. j \/ n + 1 = j + 1 \/ n + 1 = j + 2
      BY <3>2
    <3> QED
      BY <3>3 DEF n
  <2> QED
    BY <1>3, <2>1, <2>2 DEF KeyIsAt
<1> HIDE DEF q
<1> QED
  BY <1>4, <1>5, <1>6

LEMMA KeysApart ==
  ASSUME NEW s \in Seq(Rune), NEW u \in Seq(Rune),
         Len(u) > 0 => u[1] \notin Numeral \cup {".", Gap}
  PROVE  KeysIn(s \o u) \subseteq KeysIn(s) \cup KeysIn(u)
<1> SUFFICES ASSUME NEW k \in KeysIn(s \o u) PROVE k \in KeysIn(s) \cup KeysIn(u)
  OBVIOUS
<1>1. ~Across(s, u, k)
  BY CrossesWhere
<1> QED
  BY <1>1, KeysOfBoth, Zenon

LEMMA NoBlankNoKey ==
  ASSUME NEW s \in Seq(Rune), \A p \in 1 .. Len(s) : s[p] # Gap
  PROVE  KeysIn(s) = {}
<1> SUFFICES ASSUME NEW k \in KeysIn(s) PROVE FALSE
  OBVIOUS
<1>1. PICK i \in 1 .. Len(s) : \E j \in i .. Len(s) - 2 :
        KeyIsAt(s, i, j) /\ k = SubSeq(s, i + 1, j)
  BY KeysInIs, Zenon
<1>2. PICK j \in i .. Len(s) - 2 : KeyIsAt(s, i, j)
  BY <1>1
<1>3. j + 2 \in 1 .. Len(s)
  OBVIOUS
<1> QED
  BY <1>2, <1>3 DEF KeyIsAt

LEMMA NoBlankAfter ==
  ASSUME NEW s \in Seq(Rune), NEW u \in Seq(Rune), \A p \in 1 .. Len(u) : u[p] # Gap
  PROVE  KeysIn(s \o u) \subseteq KeysIn(s)
<1> SUFFICES ASSUME NEW k \in KeysIn(s \o u) PROVE k \in KeysIn(s)
  OBVIOUS
<1>1. ~Across(s, u, k)
  BY CrossesWhere
<1>2. KeysIn(u) = {}
  BY NoBlankNoKey
<1>3. k \in KeysIn(s) \/ k \in KeysIn(u) \/ Across(s, u, k)
  BY KeysOfBoth
<1> QED
  BY <1>1, <1>2, <1>3, Zenon

\* Two texts with a blank between them: what is a key across it ends there.
LEMMA KeysByBlank ==
  ASSUME NEW s \in Seq(Rune), NEW v \in Seq(Rune)
  PROVE  KeysIn(s \o (<<Gap>> \o v)) \subseteq KeysIn(s \o <<Gap>>) \cup KeysIn(<<Gap>> \o v)
<1> DEFINE g == <<Gap>>
           u == g \o v
           w == s \o u
           a == s \o g
<1>1. g \in Seq(Rune) /\ Len(g) = 1 /\ g[1] = Gap
  BY Alphabet
<1> HIDE DEF g
<1>2. /\ u \in Seq(Rune) /\ Len(u) = 1 + Len(v) /\ u[1] = Gap /\ Len(v) \in Nat
  <2>1. Follows(Rune, g, v, u)
    BY <1>1, FollowsIs, Zenon
  <2> HIDE DEF u
  <2> QED
    BY <1>1, <2>1 DEF Follows
<1> HIDE DEF u
<1>3. /\ w \in Seq(Rune) /\ Len(w) = Len(s) + Len(u) /\ Len(s) \in Nat
      /\ \A p \in 1 .. Len(s) : w[p] = s[p]
      /\ \A p \in 1 .. Len(u) : w[Len(s) + p] = u[p]
  <2>1. Follows(Rune, s, u, w)
    BY <1>2, FollowsIs, Zenon
  <2> HIDE DEF w
  <2> QED
    BY <2>1 DEF Follows
<1>4. /\ a \in Seq(Rune) /\ Len(a) = Len(s) + 1
      /\ \A p \in 1 .. Len(s) : a[p] = s[p]
      /\ a[Len(s) + 1] = Gap
  <2>1. Follows(Rune, s, g, a)
    BY <1>1, FollowsIs, Zenon
  <2> HIDE DEF a
  <2> QED
    BY <1>1, <2>1 DEF Follows
<1> HIDE DEF a
<1>5. ASSUME NEW k \in KeysIn(s \o u) PROVE k \in KeysIn(a) \cup KeysIn(u)
  <2>1. k \in KeysIn(s) \/ k \in KeysIn(u) \/ Across(s, u, k)
    BY <1>2, <1>5, KeysOfBoth
  <2>2. KeysIn(s) \subseteq KeysIn(a)
    BY <1>1, KeysOfStart DEF a
  <2>3. CASE Across(s, u, k)
    <3>1. PICK i \in 1 .. Len(s) : \E j \in i .. Len(s) + Len(u) - 2 :
            Len(s) < j + 2 /\ KeyIsAt(w, i, j) /\ k = SubSeq(w, i + 1, j)
      BY <2>3, Zenon DEF Across
    <3> HIDE DEF w
    <3>2. PICK j \in i .. Len(s) + Len(u) - 2 :
            Len(s) < j + 2 /\ KeyIsAt(w, i, j) /\ k = SubSeq(w, i + 1, j)
      BY <3>1
    <3> DEFINE n == Len(s)
    <3>3. Len(s) < j + 2
      BY <3>2
    <3>4. n \in Nat /\ i \in Nat /\ j \in Nat /\ i <= n /\ n < j + 2 /\ i < j
      BY <1>2, <1>3, <3>2, <3>3 DEF KeyIsAt
    <3>5. w[n + 1] = Gap
      BY <1>2, <1>3
    <3>6. n + 1 \notin i + 1 .. j /\ n + 1 # j + 1
      BY <3>2, <3>5, KeyRunes DEF KeyIsAt
    <3>7. n = j + 1
      <4> HIDE DEF n
      <4> QED
        BY <3>4, <3>6
    <3>8. \A p \in 1 .. Len(a) : w[p] = a[p]
      <4> TAKE p \in 1 .. Len(a)
      <4>2. n \in Nat /\ p \in 1 .. n + 1 /\ n = Len(s)
        BY <1>3, <1>4
      <4> HIDE DEF n
      <4>3. p \in 1 .. n \/ p = n + 1
        BY <4>2
      <4>1. p \in 1 .. Len(s) \/ p = Len(s) + 1
        BY <4>2, <4>3
      <4> QED
        BY <1>3, <1>4, <3>5, <4>1, <4>2
    <3>9. i \in 1 .. Len(a) /\ j \in i .. Len(a) - 2 /\ Len(a) <= Len(w)
      BY <1>2, <1>3, <1>4, <3>4, <3>7
    <3>10. SubSeq(w, i + 1, j) \in KeysIn(a)
      BY <1>3, <1>4, <3>2, <3>8, <3>9, KeyBefore
    <3> QED
      BY <3>2, <3>10
  <2> QED
    BY <2>1, <2>2, <2>3
<1> QED
  BY <1>5, Zenon DEF a, u, g

\* A key is one wherever a break is for the blank before it.
LEMMA KeysLedByBreak ==
  ASSUME NEW v \in Seq(Rune)
  PROVE  KeysIn(<<Gap>> \o v) \subseteq KeysIn(<<NewLine>> \o v)
<1> DEFINE g == <<Gap>>
           b == <<NewLine>>
           s == g \o v
           u == b \o v
<1>1. g \in Seq(Rune) /\ Len(g) = 1 /\ b \in Seq(Rune) /\ Len(b) = 1 /\ b[1] = NewLine
  BY Alphabet
<1> HIDE DEF g, b
<1>2. /\ s \in Seq(Rune) /\ Len(s) = 1 + Len(v) /\ Len(v) \in Nat
      /\ \A p \in 1 .. Len(v) : s[1 + p] = v[p]
  <2>1. Follows(Rune, g, v, s)
    BY <1>1, FollowsIs, Zenon
  <2> HIDE DEF s
  <2> QED
    BY <1>1, <2>1 DEF Follows
<1>3. /\ u \in Seq(Rune) /\ Len(u) = 1 + Len(v) /\ u[1] = NewLine
      /\ \A p \in 1 .. Len(v) : u[1 + p] = v[p]
  <2>1. Follows(Rune, b, v, u)
    BY <1>1, FollowsIs, Zenon
  <2> HIDE DEF u
  <2> QED
    BY <1>1, <2>1 DEF Follows
<1> HIDE DEF s, u
<1>4. \A p \in 2 .. Len(s) : s[p] = u[p]
  <2> TAKE p \in 2 .. Len(s)
  <2>1. p - 1 \in 1 .. Len(v) /\ 1 + (p - 1) = p
    BY <1>2
  <2> QED
    BY <1>2, <1>3, <2>1
<1>5. ASSUME NEW k \in KeysIn(s) PROVE k \in KeysIn(u)
  <2>1. PICK i \in 1 .. Len(s) : \E j \in i .. Len(s) - 2 :
          KeyIsAt(s, i, j) /\ k = SubSeq(s, i + 1, j)
    <3>1. s \in Seq(Rune)
      BY <1>2
    <3> QED
      BY <1>5, <3>1, KeysInIs, Zenon
  <2>2. PICK j \in i .. Len(s) - 2 : KeyIsAt(s, i, j) /\ k = SubSeq(s, i + 1, j)
    BY <2>1
  <2>3. i \in Nat /\ j \in Nat /\ i < j /\ j + 2 <= Len(s) /\ i >= 1 /\ Len(u) = Len(s)
    BY <1>2, <1>3, <2>2 DEF KeyIsAt
  <2>4. KeyIsAt(u, i, j)
    <3>1. u[i] = Gap \/ u[i] = NewLine
      BY <1>2, <1>3, <1>4, <2>2, <2>3 DEF KeyIsAt
    <3>2. u[j + 1] = s[j + 1] /\ u[j + 2] = s[j + 2]
      BY <1>2, <1>4, <2>3
    <3>3. \A m \in i + 1 .. j : u[m] = s[m]
      BY <1>2, <1>4, <2>3
    <3> QED
      BY <2>2, <3>1, <3>2, <3>3 DEF KeyIsAt
  <2>5. SubSeq(u, i + 1, j) = SubSeq(s, i + 1, j)
    <3> DEFINE x == SubSeq(u, i + 1, j)
               y == SubSeq(s, i + 1, j)
    <3>1. x \in Seq(Rune) /\ Len(x) = j - i /\ \A m \in 1 .. j - i : x[m] = u[i + m]
      <4>1. j \in i .. Len(u)
        BY <1>2, <2>3
      <4> QED
        BY <1>3, <2>3, <4>1, PartIs
    <3>2. y \in Seq(Rune) /\ Len(y) = j - i /\ \A m \in 1 .. j - i : y[m] = s[i + m]
      <4>1. j \in i .. Len(s)
        BY <1>2, <2>3
      <4> QED
        BY <1>2, <2>3, <4>1, PartIs
    <3>3. ASSUME NEW m \in 1 .. j - i PROVE x[m] = y[m]
      <4>1. i + m \in 2 .. Len(s)
        BY <1>2, <2>3
      <4> QED
        BY <1>4, <3>1, <3>2, <4>1
    <3> HIDE DEF x, y
    <3> QED
      BY <2>3, <3>1, <3>2, <3>3, SeqEqual DEF x, y
  <2>6. i \in 1 .. Len(u) /\ j \in i .. Len(u) - 2
    BY <2>3
  <2> QED
    BY <1>3, <2>2, <2>4, <2>5, <2>6, KeysInIs
<1> QED
  BY <1>5, Zenon DEF s, u, g, b

\* A line of a list has its own key, and what is a key in its label.
LEMMA KeysOfLine ==
  ASSUME NEW k \in KeyNames, NEW lab \in Seq(Rune)
  PROVE  KeysIn(Keyed(NewLine, k) \o lab) \subseteq {k} \cup KeysIn(<<Gap>> \o lab)
<1> DEFINE g == <<Gap>>
           lead == Keyed(NewLine, k)
           s == lead \o lab
           u == g \o lab
           L == Len(k)
<1>1. k \in Text /\ k \in Seq(Numeral) /\ k \in Seq(Rune) /\ L \in Nat
      /\ \A m \in 1 .. L : k[m] \in Numeral
  BY KeyNamesAre DEF KeyNames, Text
<1>2. /\ lead \in Seq(Rune) /\ Len(lead) = L + 3 /\ lead[1] = NewLine
      /\ \A m \in 1 .. L : lead[m + 1] = k[m]
      /\ lead[L + 2] = "." /\ lead[L + 3] = Gap
  BY <1>1, KeyedIs, Zenon
<1>3. g \in Seq(Rune) /\ Len(g) = 1 /\ g[1] = Gap
  BY Alphabet
<1> HIDE DEF g, lead, L
<1>4. /\ s \in Seq(Rune) /\ Len(s) = L + 3 + Len(lab) /\ Len(lab) \in Nat
      /\ \A p \in 1 .. L + 3 : s[p] = lead[p]
      /\ \A p \in 1 .. Len(lab) : s[L + 3 + p] = lab[p]
  <2>1. Follows(Rune, lead, lab, s)
    BY <1>2, FollowsIs, Zenon
  <2> HIDE DEF s
  <2> QED
    BY <1>2, <2>1 DEF Follows
<1>5. /\ u \in Seq(Rune) /\ Len(u) = 1 + Len(lab) /\ u[1] = Gap
      /\ \A p \in 1 .. Len(lab) : u[1 + p] = lab[p]
  <2>1. Follows(Rune, g, lab, u)
    BY <1>3, FollowsIs, Zenon
  <2> HIDE DEF u
  <2> QED
    BY <1>3, <2>1 DEF Follows
<1> HIDE DEF s, u
<1>6. ASSUME NEW p \in 1 .. Len(u) PROVE s[(L + 2) + p] = u[p]
  <2>1. CASE p = 1
    BY <1>1, <1>2, <1>4, <1>5, <2>1
  <2>2. CASE p # 1
    <3>1. p - 1 \in 1 .. Len(lab) /\ (L + 2) + p = L + 3 + (p - 1) /\ p = 1 + (p - 1)
      BY <1>1, <1>4, <1>5, <2>2
    <3> QED
      BY <1>4, <1>5, <3>1
  <2> QED
    BY <2>1, <2>2
<1>7. /\ s[1] = NewLine /\ s[L + 2] = "." /\ \A m \in 2 .. L + 1 : s[m] = k[m - 1] /\ s[m] \in Numeral
  <2>1. s[1] = NewLine /\ s[L + 2] = "."
    BY <1>1, <1>2, <1>4
  <2>2. ASSUME NEW m \in 2 .. L + 1 PROVE s[m] = k[m - 1] /\ s[m] \in Numeral
    <3>1. m - 1 \in 1 .. L /\ (m - 1) + 1 = m /\ m \in 1 .. L + 3
      BY <1>1
    <3> QED
      BY <1>1, <1>2, <1>4, <3>1
  <2> QED
    BY <2>1, <2>2
<1>8. ASSUME NEW q \in KeysIn(s) PROVE q \in {k} \cup KeysIn(u)
  <2>1. PICK i \in 1 .. Len(s) : \E j \in i .. Len(s) - 2 :
          KeyIsAt(s, i, j) /\ q = SubSeq(s, i + 1, j)
    <3>1. s \in Seq(Rune)
      BY <1>4
    <3> QED
      BY <1>8, <3>1, KeysInIs, Zenon
  <2>2. PICK j \in i .. Len(s) - 2 : KeyIsAt(s, i, j) /\ q = SubSeq(s, i + 1, j)
    BY <2>1
  <2>3. i \in Nat /\ j \in Nat /\ i < j /\ j + 2 <= Len(s) /\ i >= 1
    BY <1>4, <2>2 DEF KeyIsAt
  <2>4. CASE i >= L + 3
    <3>1. i \in (L + 2) + 1 .. Len(s) /\ L + 2 \in Nat /\ Len(s) = (L + 2) + Len(u)
      BY <1>1, <1>4, <1>5, <2>3, <2>4
    <3>2. SubSeq(s, i + 1, j) \in KeysIn(u)
      BY <1>4, <1>5, <1>6, <2>2, <3>1, KeyBeyond
    <3> QED
      BY <2>2, <3>2
  <2>5. CASE i < L + 3
    <3>1. i \notin 2 .. L + 1 /\ i # L + 2
      BY <1>7, <2>2, KeyRunes DEF KeyIsAt
    <3>2. i = 1
      BY <1>1, <2>3, <2>5, <3>1
    <3>3. L + 2 \notin 2 .. j
      BY <1>7, <2>2, <3>2, KeyRunes DEF KeyIsAt
    <3>4. j + 1 \notin 2 .. L + 1
      BY <1>7, <2>2, KeyRunes DEF KeyIsAt
    <3>5. j = L + 1
      BY <1>1, <2>3, <3>2, <3>3, <3>4
    <3>6. SubSeq(s, i + 1, j) = k
      <4> DEFINE x == SubSeq(s, 2, L + 1)
      <4>1. x \in Seq(Rune) /\ Len(x) = L /\ \A m \in 1 .. L : x[m] = s[1 + m]
        <5>1. L + 1 \in 1 .. Len(s) /\ (L + 1) - 1 = L /\ 1 + 1 = 2
          BY <1>1, <1>4
        <5> DEFINE y == SubSeq(s, 1 + 1, L + 1)
        <5>2. y \in Seq(Rune) /\ Len(y) = (L + 1) - 1 /\ \A m \in 1 .. (L + 1) - 1 : y[m] = s[1 + m]
          BY <1>4, <5>1, PartIs
        <5> QED
          BY <5>1, <5>2
      <4>2. ASSUME NEW m \in 1 .. L PROVE x[m] = k[m]
        <5>1. 1 + m \in 2 .. L + 1 /\ (1 + m) - 1 = m
          BY <1>1
        <5> QED
          BY <1>7, <4>1, <5>1
      <4> HIDE DEF x
      <4>3. x = k
        BY <1>1, <4>1, <4>2, SeqEqual DEF L
      <4>4. i + 1 = 2
        BY <3>2
      <4> QED
        BY <3>5, <4>3, <4>4 DEF x
    <3> QED
      BY <2>2, <3>6
  <2> QED
    BY <1>1, <2>3, <2>4, <2>5
<1> QED
  BY <1>8, Zenon DEF s, u, g, lead

LEMMA LedIs ==
  ASSUME NEW r \in Rune, NEW v \in Seq(Rune)
  PROVE  /\ <<r>> \in Seq(Rune) /\ <<r>> \o v \in Seq(Rune) /\ Len(<<r>> \o v) = 1 + Len(v)
         /\ (<<r>> \o v)[1] = r /\ \A p \in 1 .. Len(v) : (<<r>> \o v)[1 + p] = v[p]
<1> DEFINE g == <<r>>
           u == g \o v
<1>1. g \in Seq(Rune) /\ Len(g) = 1 /\ g[1] = r
  OBVIOUS
<1> HIDE DEF g
<1>2. Follows(Rune, g, v, u)
  BY <1>1, FollowsIs, Zenon
<1> HIDE DEF u
<1>3. /\ u \in Seq(Rune) /\ Len(u) = 1 + Len(v)
      /\ u[1] = r /\ \A p \in 1 .. Len(v) : u[1 + p] = v[p]
  BY <1>1, <1>2 DEF Follows
<1> QED
  BY <1>1, <1>3, Zenon DEF u, g

\* The keys of a text on a line of its own, as the handset's first line is.
KeysBelow(s) == KeysIn(<<NewLine>> \o s)

LEMMA KeysOfTwoLines ==
  ASSUME NEW a \in Seq(Rune), NEW b \in Seq(Rune)
  PROVE  /\ (a \o <<NewLine>>) \o b \in Seq(Rune)
         /\ KeysBelow((a \o <<NewLine>>) \o b) \subseteq KeysBelow(a) \cup KeysBelow(b)
<1> DEFINE nl == <<NewLine>>
           na == nl \o a
           nb == nl \o b
<1>1. NewLine \in Rune
  BY Alphabet
<1>2. nl \in Seq(Rune) /\ na \in Seq(Rune) /\ nb \in Seq(Rune) /\ nb[1] = NewLine
  BY <1>1, LedIs, Zenon
<1>3. NewLine \notin Numeral \cup {".", Gap}
  BY KeyRunes
<1> HIDE DEF nl
<1>4. (a \o nl) \o b = a \o nb
  BY <1>2, Rejoined
<1>5. a \o nb \in Seq(Rune) /\ na \o nb = nl \o (a \o nb)
  <2>1. na \o nb = nl \o (a \o nb)
    <3> HIDE DEF nb
    <3> QED
      BY <1>2, Rejoined
  <2>2. a \o nb \in Seq(Rune)
    <3> HIDE DEF nb
    <3> QED
      BY <1>2, Concat
  <2> QED
    BY <2>1, <2>2, Zenon
<1> HIDE DEF na, nb
<1>6. KeysIn(na \o nb) \subseteq KeysIn(na) \cup KeysIn(nb)
  BY <1>2, <1>3, KeysApart
<1> QED
  BY <1>4, <1>5, <1>6, Zenon DEF KeysBelow, na, nb, nl

LEMMA KeysNoticed ==
  ASSUME NEW notice \in Seq(Rune), NEW body \in Seq(Rune)
  PROVE  /\ Noticed(notice, body) \in Seq(Rune)
         /\ KeysBelow(Noticed(notice, body)) \subseteq KeysBelow(notice) \cup KeysBelow(body)
<1>1. CASE notice = <<>> \/ IsPrefix(notice, body)
  <2>1. Noticed(notice, body) = body
    BY <1>1, Zenon DEF Noticed
  <2> QED
    BY <2>1
<1>2. CASE ~(notice = <<>> \/ IsPrefix(notice, body))
  <2>1. Noticed(notice, body) = (notice \o <<NewLine>>) \o body
    BY <1>2, Zenon DEF Noticed, NewLine
  <2> QED
    BY <2>1, KeysOfTwoLines, Zenon
<1> QED
  BY <1>1, <1>2

\* Whatever is cut off a screen, no key comes of it.
LEMMA KeysShrunk ==
  ASSUME NEW s \in Seq(Rune)
  PROVE  KeysBelow(Shrink(s)) \subseteq KeysBelow(s)
<1> DEFINE nl == <<NewLine>>
           shrunk == Shrink(s)
<1>1. /\ NewLine \in Rune /\ Basic \subseteq Rune /\ Len(s) \in Nat
      /\ Ellipsis \in Seq(Rune) /\ Len(Ellipsis) = 3 /\ \A p \in 1 .. 3 : Ellipsis[p] = "."
  <2>1. NewLine \in Rune /\ Basic \subseteq Rune /\ "." \in Rune
    BY Alphabet
  <2> QED
    BY <2>1 DEF Ellipsis
<1>2. ShrinksToFit(s)
  BY EveryTextShrinks
<1>3. nl \in Seq(Rune)
  BY <1>1, LedIs
<1>4. CASE shrunk = s
  BY <1>4
<1>5. CASE \E n \in 0 .. Len(s) : shrunk = Take(s, n) \o Ellipsis
  <2>1. PICK n \in 0 .. Len(s) : shrunk = Take(s, n) \o Ellipsis
    BY <1>5
  <2> DEFINE a == Take(s, n)
             rest == SubSeq(s, n + 1, Len(s))
  <2>2. a \in Seq(Rune) /\ rest \in Seq(Rune) /\ s = a \o rest
    BY TakeIs, TakeAndRest
  <2> HIDE DEF a, rest
  <2> DEFINE na == nl \o a
  <2>3. na \in Seq(Rune)
    BY <1>1, <2>2, LedIs
  <2> HIDE DEF nl
  <2>4. nl \o (a \o Ellipsis) = na \o Ellipsis /\ nl \o (a \o rest) = na \o rest
    <3>1. nl \in Seq(Rune) /\ a \in Seq(Rune) /\ rest \in Seq(Rune) /\ Ellipsis \in Seq(Rune)
      BY <1>1, <1>3, <2>2
    <3>2. Rebracketed(nl, a, Ellipsis) /\ Rebracketed(nl, a, rest)
      BY <3>1, Rebrackets, Zenon
    <3> QED
      BY <3>2, Zenon DEF Rebracketed
  <2> HIDE DEF na
  <2>5. \A p \in 1 .. Len(Ellipsis) : Ellipsis[p] # Gap
    BY <1>1, KeyRunes
  <2>6. KeysIn(na \o Ellipsis) \subseteq KeysIn(na)
    BY <1>1, <2>3, <2>5, NoBlankAfter
  <2>7. KeysIn(na) \subseteq KeysIn(na \o rest)
    BY <2>2, <2>3, KeysOfStart
  <2>8. KeysIn(nl \o shrunk) = KeysIn(na \o Ellipsis) /\ KeysIn(nl \o s) = KeysIn(na \o rest)
    BY <2>1, <2>2, <2>4, Zenon DEF a
  <2> QED
    BY <2>6, <2>7, <2>8, Zenon DEF KeysBelow, nl
<1>6. CASE \E n \in 1 .. Len(Ellipsis) : shrunk = Take(Ellipsis, n)
  <2>1. PICK n \in 1 .. Len(Ellipsis) : shrunk = Take(Ellipsis, n)
    BY <1>6
  <2>2. shrunk \in Seq(Rune) /\ \A p \in 1 .. Len(shrunk) : shrunk[p] = "."
    <3>1. n \in 0 .. Len(Ellipsis) /\ n \in 1 .. 3
      BY <1>1
    <3>2. shrunk \in Seq(Rune) /\ Len(shrunk) = n /\ \A p \in 1 .. n : shrunk[p] = Ellipsis[p]
      <4> DEFINE e == Ellipsis
      <4>1. e \in Seq(Rune) /\ n \in 0 .. Len(e)
        BY <1>1, <3>1
      <4> HIDE DEF e, shrunk
      <4>2. Take(e, n) \in Seq(Rune) /\ Len(Take(e, n)) = n /\ \A p \in 1 .. n : Take(e, n)[p] = e[p]
        BY <4>1, TakeIs
      <4> QED
        BY <2>1, <4>2, Zenon DEF e
    <3> QED
      BY <1>1, <3>1, <3>2
  <2> HIDE DEF shrunk
  <2> DEFINE w == nl \o shrunk
  <2>3. /\ w \in Seq(Rune) /\ Len(w) = 1 + Len(shrunk) /\ w[1] = NewLine
        /\ \A p \in 1 .. Len(shrunk) : w[1 + p] = shrunk[p]
    BY <1>1, <2>2, LedIs
  <2> HIDE DEF w
  <2>4. \A p \in 1 .. Len(w) : w[p] # Gap
    <3> TAKE p \in 1 .. Len(w)
    <3>1. CASE p = 1
      BY <2>3, <3>1, KeyRunes
    <3>2. CASE p # 1
      <4>1. Len(shrunk) \in Nat
        BY <2>2
      <4>2. p - 1 \in 1 .. Len(shrunk) /\ 1 + (p - 1) = p
        BY <2>3, <3>2, <4>1
      <4> QED
        BY <2>2, <2>3, <4>2, KeyRunes
    <3> QED
      BY <3>1, <3>2
  <2>5. KeysIn(w) = {}
    BY <2>3, <2>4, NoBlankNoKey
  <2> QED
    BY <2>5, Zenon DEF KeysBelow, w, nl, shrunk
<1> QED
  BY <1>2, <1>4, <1>5, <1>6, Zenon DEF ShrinksToFit

\* The lines of a list add their keys, where no label reads as one.
Unkeyed(item) == item.key \in KeyNames /\ KeysIn(<<Gap>> \o OneLine(item.label)) = {}

LEMMA KeysOfLines ==
  ASSUME NEW x \in Seq(Rune), NEW items \in Seq(ItemsOf(Rune)),
         \A i \in 1 .. Len(items) : Unkeyed(items[i])
  PROVE  /\ x \o Lines(items) \in Seq(Rune)
         /\ KeysIn(x \o Lines(items)) \subseteq
              KeysIn(x) \cup {items[i].key : i \in 1 .. Len(items)}
<1> DEFINE It == ItemsOf(Rune)
           N == Len(items)
           L(n) == Lines(Take(items, n))
           K == {items[i].key : i \in 1 .. N}
           S == {n \in 0 .. N : /\ L(n) \in Seq(Rune) /\ x \o L(n) \in Seq(Rune)
                                /\ KeysIn(x \o L(n)) \subseteq KeysIn(x) \cup K}
<1>1. N \in Nat /\ Basic \subseteq Rune /\ items \in Seq(It)
  BY Alphabet
<1>2. 0 \in S
  <2>1. L(0) = <<>>
    <3>1. Take(items, 0) = <<>>
      BY TakeNone
    <3>2. Lines(<<>>) = <<>>
      BY NoLines
    <3> QED
      BY <3>1, <3>2, Zenon
  <2>2. x \o <<>> = x /\ <<>> \in Seq(Rune)
    BY ConcatEmptySeq
  <2>3. x \o L(0) = x
    BY <2>1, <2>2, Zenon
  <2>4. 0 \in 0 .. N /\ L(0) \in Seq(Rune)
    <3>1. 0 \in 0 .. N
      BY <1>1
    <3>2. L(0) \in Seq(Rune)
      BY <2>1, <2>2, Zenon
    <3> QED
      BY <3>1, <3>2
  <2> HIDE DEF L, K
  <2>5. x \o L(0) \in Seq(Rune) /\ KeysIn(x \o L(0)) \subseteq KeysIn(x) \cup K
    BY <2>3
  <2> QED
    BY <2>4, <2>5
<1>3. ASSUME NEW n \in 0 .. N, n \in S, n < N PROVE n + 1 \in S
  <2> DEFINE item == items[n + 1]
             line == Line(item)
             lab == OneLine(item.label)
             a == L(n)
             xa == x \o a
  <2>1. n + 1 \in 1 .. N /\ n \in 0 .. N - 1 /\ n + 1 \in 0 .. N
    BY <1>1, <1>3
  <2>2. item \in It /\ Unkeyed(item) /\ item.key \in K
    <3>1. item \in It /\ Unkeyed(item)
      <4> HIDE DEF It
      <4> QED
        BY <1>1, <2>1
    <3> QED
      BY <2>1, <3>1
  <2>3. L(n + 1) = a \o line
    BY <1>1, <2>1, LinesOfTake
  <2>4. a \in Seq(Rune) /\ xa \in Seq(Rune) /\ KeysIn(xa) \subseteq KeysIn(x) \cup K
    BY <1>3
  <2> HIDE DEF L, item, It, K, S
  <2>5. line = Keyed(NewLine, item.key) \o lab /\ lab \in Seq(Rune) /\ line \in Seq(Rune)
    <3>1. Line(item) = Lead(item) \o OneLine(item.label)
      BY <1>1, <2>2, LineParts DEF It
    <3>2. Lead(item) = Keyed(NewLine, item.key)
      BY LeadIsKeyed
    <3>3. lab \in Seq(Rune)
      <4>1. item.label \in Seq(Rune) /\ Gap \in Rune
        BY <2>2, Alphabet DEF It, ItemsOf
      <4> QED
        BY <4>1, JoinFieldsIsText DEF OneLine
    <3>4. line \in Seq(Rune)
      BY <1>1, <2>2, LineIs DEF It
    <3> QED
      BY <3>1, <3>2, <3>3, <3>4, Zenon
  <2>6. Len(line) > 0 /\ line[1] = NewLine /\ KeysIn(line) \subseteq K
    <3> DEFINE k == item.key
               lead == Keyed(NewLine, k)
    <3>1. k \in KeyNames /\ KeysIn(<<Gap>> \o lab) = {}
      BY <2>2, Zenon DEF Unkeyed
    <3>2. KeysIn(line) \subseteq {k}
      BY <2>5, <3>1, KeysOfLine, Zenon
    <3>3. k \in Text
      BY <3>1, KeyNamesAre
    <3>4. lead \in Seq(Rune) /\ Len(lead) = Len(k) + 3 /\ lead[1] = NewLine /\ Len(k) \in Nat
      <4>1. lead \in Seq(Rune) /\ Len(lead) = Len(k) + 3 /\ lead[1] = NewLine
        BY <3>3, KeyedIs, Zenon
      <4> HIDE DEF lead, k
      <4> QED
        BY <3>3, <4>1 DEF Text
    <3> HIDE DEF lead
    <3>5. Follows(Rune, lead, lab, line)
      BY <2>5, <3>4, FollowsIs, Zenon DEF lead
    <3>6. Len(lab) \in Nat
      BY <2>5
    <3> HIDE DEF line, lab
    <3>7. Len(line) > 0 /\ line[1] = NewLine
      BY <3>4, <3>5, <3>6 DEF Follows
    <3> QED
      BY <2>2, <3>2, <3>7
  <2> HIDE DEF line, lab
  <2>7. KeysIn(xa \o line) \subseteq KeysIn(xa) \cup KeysIn(line)
    <3>1. Len(line) > 0 => line[1] \notin Numeral \cup {".", Gap}
      BY <2>6, KeyRunes
    <3>2. line \in Seq(Rune) /\ xa \in Seq(Rune)
      BY <2>4, <2>5
    <3> HIDE DEF xa
    <3> QED
      BY <3>1, <3>2, KeysApart, Zenon
  <2>8. xa \o line = x \o (a \o line)
    <3>1. line \in Seq(Rune)
      BY <2>5
    <3> HIDE DEF a
    <3> QED
      BY <2>4, <3>1, Rejoined
  <2>9. a \o line \in Seq(Rune) /\ xa \o line \in Seq(Rune)
    <3> HIDE DEF xa, a
    <3> QED
      BY <2>4, <2>5, Concat
  <2>10. KeysIn(xa \o line) \subseteq KeysIn(x) \cup K
    BY <2>4, <2>6, <2>7
  <2>11. /\ L(n + 1) \in Seq(Rune) /\ x \o L(n + 1) \in Seq(Rune)
         /\ KeysIn(x \o L(n + 1)) \subseteq KeysIn(x) \cup K
    BY <2>3, <2>8, <2>9, <2>10, Zenon
  <2> QED
    BY <2>1, <2>11 DEF S
<1> HIDE DEF S, L
<1>4. \A n \in 0 .. N : n \in S
  <2>1. \A n \in 0 .. N : n \in S /\ n < N => n + 1 \in S
    BY <1>3
  <2> QED
    BY <1>1, <1>2, <2>1, InductionTo
<1>5. N \in S
  BY <1>1, <1>4
<1>6. L(N) = Lines(items)
  BY TakeAll, Zenon DEF L
<1> QED
  BY <1>5, <1>6 DEF S

----------------------------------------------------------------------------
(* The keys a screen shows *)

Zero == <<"0">>
One == <<"1">>
Two == <<"2">>

LEMMA NothingBelow == KeysBelow(<<>>) = {}
<1> DEFINE w == <<NewLine>> \o <<>>
<1>1. NewLine \in Rune /\ <<>> \in Seq(Rune) /\ Len(<<>>) = 0
  BY Alphabet
<1>2. w \in Seq(Rune) /\ Len(w) = 1 + Len(<<>>) /\ w[1] = NewLine
  BY <1>1, LedIs
<1> HIDE DEF w
<1>3. \A p \in 1 .. Len(w) : w[p] # Gap
  BY <1>1, <1>2, KeyRunes
<1>4. KeysIn(w) = {}
  BY <1>2, <1>3, NoBlankNoKey
<1> QED
  BY <1>4, Zenon DEF KeysBelow, w

\* The words above a list, and above a post, are no keys.
LEMMA WordsUnkeyed ==
  /\ \A word \in {"menu.title", "timeline.title", "error.fetch", "error.empty", "error.choice"} :
       T[word] \in Text /\ T[word] \in Seq(Rune) /\ KeysBelow(T[word]) = {}
  /\ \A word \in {"menu.timeline", "menu.about", "menu.quit"} :
       T[word] \in Text /\ KeysIn(<<Gap>> \o OneLine(T[word])) = {}
<1>1. \A word \in Words : T[word] \in Text /\ T[word] \in Seq(Rune)
  BY WordsAreTexts DEF Text
<1>2. /\ {"menu.title", "timeline.title", "error.fetch", "error.empty", "error.choice"} \subseteq Words
      /\ {"menu.timeline", "menu.about", "menu.quit"} \subseteq Words
  BY Zenon DEF Words
<1>3. /\ \A word \in {"menu.title", "timeline.title", "error.fetch", "error.empty", "error.choice"} :
           KeysIn(<<NewLine>> \o T[word]) = {}
      /\ \A word \in {"menu.timeline", "menu.about", "menu.quit"} :
           KeysIn(<<Gap>> \o OneLine(T[word])) = {}
  BY WordsAssumption, Zenon DEF NewLine, Gap
<1> QED
  BY <1>1, <1>2, <1>3, Zenon DEF KeysBelow

LEMMA NoticesUnkeyed ==
  ASSUME NEW screen, NEW notice \in Notices(screen)
  PROVE  notice \in Seq(Rune) /\ KeysBelow(notice) = {}
<1>1. notice = <<>> \/ notice = T["error.choice"] \/ notice = T["error.fetch"]
  BY Zenon DEF Notices
<1>2. CASE notice = <<>>
  BY <1>2, NothingBelow
<1>3. CASE notice = T["error.choice"]
  BY <1>3, WordsUnkeyed, Zenon
<1>4. CASE notice = T["error.fetch"]
  BY <1>4, WordsUnkeyed, Zenon
<1> QED
  BY <1>1, <1>2, <1>3, <1>4

\* So a screen has the keys of its body alone.
LEMMA KeysOfScreen ==
  ASSUME NEW screen, NEW notice \in Notices(screen), NEW body \in Seq(Rune)
  PROVE  KeysBelow(Shrink(Noticed(notice, body))) \subseteq KeysBelow(body)
<1>1. notice \in Seq(Rune) /\ KeysBelow(notice) = {}
  BY NoticesUnkeyed
<1>2. /\ Noticed(notice, body) \in Seq(Rune)
      /\ KeysBelow(Noticed(notice, body)) \subseteq KeysBelow(notice) \cup KeysBelow(body)
  BY <1>1, KeysNoticed
<1>3. KeysBelow(Shrink(Noticed(notice, body))) \subseteq KeysBelow(Noticed(notice, body))
  BY <1>2, KeysShrunk
<1> QED
  BY <1>1, <1>2, <1>3, Zenon

LEMMA QuitUnkeyed == Unkeyed(Quit) /\ Quit \in ItemsOf(Rune) /\ Quit.key = Zero
<1>1. Zero \in KeyNames /\ T["menu.quit"] \in Text
  BY KeyNamesAre, WordsUnkeyed, Zenon DEF Zero
<1>2. Quit = Item(Zero, T["menu.quit"])
  BY Zenon DEF Quit, Zero
<1>3. Quit \in ItemsOf(Rune) /\ Quit.key = Zero /\ Quit.label = T["menu.quit"]
  BY <1>1, <1>2, ItemIs, Zenon
<1> QED
  BY <1>1, <1>3, WordsUnkeyed, Zenon DEF Unkeyed

LEMMA MenuKeys == KeysBelow(MenuText) \subseteq {Zero, One, Two}
<1> DEFINE title == T["menu.title"]
           x == <<NewLine>> \o title
           lines == Lines(MenuItems)
           a == Item(<<"1">>, T["menu.timeline"])
           b == Item(<<"2">>, T["menu.about"])
           It == ItemsOf(Rune)
<1>1. title \in Seq(Rune) /\ KeysIn(x) = {}
  BY WordsUnkeyed, Zenon DEF KeysBelow
<1>2. x \in Seq(Rune) /\ <<NewLine>> \in Seq(Rune)
  BY <1>1, Alphabet, LedIs
<1>3. MenuItems \in Seq(It) /\ Len(MenuItems) = 3
  BY MenuItemsAre
<1>4. lines \in Seq(Rune)
  BY <1>3, Alphabet, LinesAre
<1>5. /\ Unkeyed(a) /\ a.key = One /\ Unkeyed(b) /\ b.key = Two
  <2>1. One \in KeyNames /\ Two \in KeyNames
    BY KeyNamesAre, Zenon DEF One, Two
  <2>2. T["menu.timeline"] \in Text /\ T["menu.about"] \in Text
    BY WordsUnkeyed, Zenon
  <2>3. a = Item(One, T["menu.timeline"]) /\ b = Item(Two, T["menu.about"])
    BY Zenon DEF One, Two
  <2> HIDE DEF a, b
  <2>4. a.key = One /\ a.label = T["menu.timeline"] /\ b.key = Two /\ b.label = T["menu.about"]
    BY <2>1, <2>2, <2>3, ItemIs, Zenon
  <2> QED
    BY <2>1, <2>4, WordsUnkeyed, Zenon DEF Unkeyed
<1>6. MenuItems = <<a, b, Quit>>
  BY Zenon DEF MenuItems
<1> HIDE DEF a, b, It, x
<1>7. MenuItems[1] = a /\ MenuItems[2] = b /\ MenuItems[3] = Quit
  BY <1>6
<1>8. \A i \in 1 .. Len(MenuItems) : Unkeyed(MenuItems[i]) /\ MenuItems[i].key \in {Zero, One, Two}
  <2> TAKE i \in 1 .. Len(MenuItems)
  <2>1. i = 1 \/ i = 2 \/ i = 3
    BY <1>3
  <2> QED
    BY <1>5, <1>7, <2>1, QuitUnkeyed, Zenon
<1>9. KeysIn(x \o lines) \subseteq
        KeysIn(x) \cup {MenuItems[i].key : i \in 1 .. Len(MenuItems)}
  BY <1>2, <1>3, <1>8, KeysOfLines DEF It
<1>10. <<NewLine>> \o MenuText = x \o lines
  <2>1. Rebracketed(<<NewLine>>, title, lines)
    BY <1>1, <1>2, <1>4, Rebrackets, Zenon
  <2> QED
    BY <2>1, Zenon DEF Rebracketed, MenuText, x
<1>11. KeysBelow(MenuText) = KeysIn(x \o lines)
  BY <1>10, Zenon DEF KeysBelow
<1> HIDE DEF lines
<1> QED
  BY <1>1, <1>8, <1>9, <1>11

\* The timeline shows Quit and the keys of the posts it counts.
LEMMA TimelineKeys ==
  ASSUME NEW posts \in Seq(Posts), NEW notice \in Notices("timeline"),
         \A i \in DOMAIN posts : KeysIn(<<Gap>> \o OneLine(TimelineItem(posts, i).label)) = {}
  PROVE  LET fit == TimelineFit(posts, notice)
         IN /\ fit.text \in Seq(Rune)
            /\ KeysBelow(fit.text) \subseteq {Zero} \cup {Decimal(i) : i \in 1 .. fit.shown}
<1> DEFINE title == TimelineTitle(notice)
           items == TimelineItems(posts)
           footer == <<Quit>>
           fit == TimelineFit(posts, notice)
           n == fit.shown
           It == ItemsOf(Rune)
           nl == <<NewLine>>
           x == nl \o title
           shown == Take(items, n)
           lines == Lines(shown)
           end == Lines(footer)
<1>1. TimelineLists(posts, notice)
  BY TimelineFitIs
<1>2. /\ items \in Seq(It) /\ Len(items) = Len(posts) /\ n \in 0 .. Len(posts)
      /\ fit.text = (title \o lines) \o end /\ title \in Text
  BY <1>1, Zenon DEF TimelineLists, ShownAbove
<1>3. title \in Seq(Rune) /\ x \in Seq(Rune) /\ nl \in Seq(Rune) /\ KeysIn(x) = {}
  <2>1. title \in Seq(Rune) /\ NewLine \in Rune
    BY <1>2, Alphabet DEF Text
  <2>2. x \in Seq(Rune) /\ nl \in Seq(Rune)
    BY <2>1, LedIs
  <2> DEFINE word == T["timeline.title"]
  <2>3. word \in Seq(Rune) /\ KeysBelow(word) = {}
    BY WordsUnkeyed, Zenon
  <2>4. notice \in Seq(Rune) /\ KeysBelow(notice) = {}
    BY NoticesUnkeyed
  <2> HIDE DEF word
  <2>5. KeysBelow(title) = {}
    <3>1. CASE notice = <<>>
      <4>1. title = <<>> \o word
        BY <3>1, Zenon DEF TimelineTitle, word
      <4>2. <<>> \o word = word
        BY <2>3, ConcatEmptySeq
      <4> QED
        BY <2>3, <4>1, <4>2, Zenon
    <3>2. CASE notice # <<>>
      <4>1. title = (notice \o <<NewLine>>) \o word
        BY <3>2, Zenon DEF TimelineTitle, word, NewLine
      <4>2. KeysBelow((notice \o <<NewLine>>) \o word) \subseteq KeysBelow(notice) \cup KeysBelow(word)
        BY <2>3, <2>4, KeysOfTwoLines
      <4> QED
        BY <2>3, <2>4, <4>1, <4>2, Zenon
    <3> QED
      BY <3>1, <3>2
  <2> QED
    BY <2>1, <2>2, <2>5, Zenon DEF KeysBelow
<1>4. \A i \in 1 .. Len(posts) : Unkeyed(items[i]) /\ items[i].key = Decimal(i)
  <2> TAKE i \in 1 .. Len(posts)
  <2>1. i \in DOMAIN posts /\ i \in Nat
    OBVIOUS
  <2>2. items[i] = TimelineItem(posts, i)
    BY <2>1 DEF TimelineItems
  <2>3. TimelineItem(posts, i).key = Decimal(i)
    BY TimelineItemIs
  <2>4. Decimal(i) \in KeyNames
    BY <2>1, KeyNamesAre
  <2>5. KeysIn(<<Gap>> \o OneLine(TimelineItem(posts, i).label)) = {}
    BY <2>1
  <2> QED
    BY <2>2, <2>3, <2>4, <2>5, Zenon DEF Unkeyed
<1> HIDE DEF title, items, fit, n, It, nl, x
<1>5. shown \in Seq(It) /\ Len(shown) = n /\ n \in Nat
      /\ \A i \in 1 .. n : shown[i] = items[i] /\ i \in 1 .. Len(posts)
  <2>1. n \in 0 .. Len(items) /\ n \in Nat /\ n <= Len(posts) /\ Len(posts) \in Nat
    BY <1>2
  <2>2. shown \in Seq(It) /\ Len(shown) = n /\ \A i \in 1 .. n : shown[i] = items[i]
    BY <1>2, <2>1, TakeIs
  <2>3. \A i \in 1 .. n : i \in 1 .. Len(posts)
    BY <2>1
  <2> QED
    BY <2>1, <2>2, <2>3
<1> HIDE DEF shown
<1>6. \A i \in 1 .. Len(shown) : Unkeyed(shown[i]) /\ shown[i].key = Decimal(i)
  BY <1>4, <1>5
<1>7. footer \in Seq(It) /\ Len(footer) = 1 /\ footer[1] = Quit
  <2>1. Quit \in It
    BY QuitUnkeyed DEF It
  <2> QED
    BY <2>1
<1> HIDE DEF footer
<1>8. \A i \in 1 .. Len(footer) : Unkeyed(footer[i]) /\ footer[i].key = Zero
  BY <1>7, QuitUnkeyed
<1>9. /\ x \o lines \in Seq(Rune)
      /\ KeysIn(x \o lines) \subseteq KeysIn(x) \cup {shown[i].key : i \in 1 .. Len(shown)}
  BY <1>3, <1>5, <1>6, KeysOfLines DEF It
<1>10. lines \in Seq(Rune) /\ end \in Seq(Rune)
  BY <1>5, <1>7, Alphabet, LinesAre DEF It
<1> DEFINE xl == x \o lines
           tl == title \o lines
<1>11. xl \o end = nl \o (tl \o end)
  <2>1. xl = nl \o tl
    <3>1. Rebracketed(nl, title, lines)
      BY <1>3, <1>10, Rebrackets, Zenon
    <3> QED
      BY <3>1, Zenon DEF Rebracketed, x
  <2>2. tl \in Seq(Rune)
    <3> HIDE DEF lines
    <3> QED
      BY <1>3, <1>10, Concat
  <2> HIDE DEF tl, end
  <2>3. Rebracketed(nl, tl, end)
    BY <1>3, <1>10, <2>2, Rebrackets, Zenon
  <2> QED
    BY <2>1, <2>3, Zenon DEF Rebracketed
<1> HIDE DEF xl
<1>12. KeysIn(xl \o end) \subseteq KeysIn(xl) \cup {footer[i].key : i \in 1 .. Len(footer)}
  <2>1. xl \in Seq(Rune)
    BY <1>9 DEF xl
  <2> QED
    BY <1>7, <1>8, <2>1, KeysOfLines DEF It
<1>13. fit.text \in Seq(Rune)
  <2> DEFINE u == tl \o end
  <2>1. tl \in Seq(Rune)
    <3> HIDE DEF lines
    <3> QED
      BY <1>3, <1>10, Concat
  <2> HIDE DEF tl, end
  <2>2. u \in Seq(Rune)
    BY <1>10, <2>1, Concat
  <2> QED
    BY <1>2, <2>2, Zenon DEF tl, end
<1>14. KeysBelow(fit.text) = KeysIn(xl \o end)
  BY <1>2, <1>11, Zenon DEF KeysBelow, nl
<1>15. KeysIn(xl) \subseteq {shown[i].key : i \in 1 .. Len(shown)}
  BY <1>3, <1>9, Zenon DEF xl
<1> HIDE DEF lines, end
<1>16. {shown[i].key : i \in 1 .. Len(shown)} \subseteq {Decimal(i) : i \in 1 .. n}
  BY <1>5, <1>6
<1>17. {footer[i].key : i \in 1 .. Len(footer)} \subseteq {Zero}
  BY <1>8
<1>18. KeysBelow(fit.text) \subseteq {Zero} \cup {Decimal(i) : i \in 1 .. n}
  BY <1>12, <1>14, <1>15, <1>16, <1>17, Zenon
<1> QED
  BY <1>13, <1>18 DEF fit, n

\* A control and what stands a blank after it.
LEMMA KeysBeside ==
  ASSUME NEW c \in Seq(Rune), NEW v \in Seq(Rune)
  PROVE  /\ c \o (<<Gap>> \o v) \in Seq(Rune)
         /\ KeysBelow(c \o (<<Gap>> \o v)) \subseteq
              KeysIn(<<NewLine>> \o c \o <<Gap>>) \cup KeysBelow(v)
<1> DEFINE g == <<Gap>>
           nl == <<NewLine>>
           gv == g \o v
           s == nl \o c
<1>1. Gap \in Rune /\ NewLine \in Rune
  BY Alphabet
<1>2. g \in Seq(Rune) /\ nl \in Seq(Rune) /\ gv \in Seq(Rune) /\ s \in Seq(Rune)
  BY <1>1, LedIs
<1>3. KeysIn(gv) \subseteq KeysBelow(v)
  BY KeysLedByBreak DEF KeysBelow
<1>4. KeysIn(s \o gv) \subseteq KeysIn(s \o g) \cup KeysIn(gv)
  BY <1>2, KeysByBlank
<1> HIDE DEF gv, nl
<1>5. Rebracketed(nl, c, gv)
  BY <1>2, Rebrackets, Zenon
<1>6. c \o gv \in Seq(Rune)
  BY <1>2, Concat
<1> QED
  BY <1>3, <1>4, <1>5, <1>6, Zenon DEF Rebracketed, KeysBelow, gv, nl, s, g

\* The controls a page offers are the keys below it.
LEMMA NavKeys ==
  ASSUME NEW nexts \in BOOLEAN, NEW prevs \in BOOLEAN, NEW k \in KeysBelow(Nav(PageKeys(nexts, prevs)))
  PROVE  k = Zero \/ (k = One /\ nexts) \/ (k = Two /\ prevs)
<1> DEFINE g == <<Gap>>
           next == T["nav.next"]
           prev == T["nav.prev"]
           back == T["nav.back"]
           gb == g \o back
           pb == prev \o gb
<1>1. next \in Seq(Rune) /\ prev \in Seq(Rune) /\ back \in Seq(Rune) /\ g \in Seq(Rune)
  BY ControlsSay, BasicIsText, Alphabet DEF IsControl
<1>2. /\ KeysIn(<<NewLine>> \o next \o g) = {One} /\ KeysIn(<<NewLine>> \o prev \o g) = {Two}
      /\ KeysBelow(back) = {Zero}
  BY WordsAssumption, Zenon DEF NewLine, Gap, KeysBelow, Zero, One, Two
<1>4. /\ Nav(PageKeys(FALSE, FALSE)) = back /\ Nav(PageKeys(TRUE, FALSE)) = next \o gb
      /\ Nav(PageKeys(FALSE, TRUE)) = pb /\ Nav(PageKeys(TRUE, TRUE)) = (next \o (g \o prev)) \o gb
  BY PageKeysAre, NavIs, Zenon
<1> HIDE DEF next, prev, back, g
<1>5. gb \in Seq(Rune)
  BY <1>1, Concat
<1>6. /\ pb \in Seq(Rune)
      /\ KeysBelow(pb) \subseteq {Two, Zero} /\ KeysBelow(next \o gb) \subseteq {One, Zero}
  <2>1. /\ pb \in Seq(Rune)
        /\ KeysBelow(pb) \subseteq KeysIn(<<NewLine>> \o prev \o g) \cup KeysBelow(back)
    BY <1>1, KeysBeside, Zenon DEF g
  <2>2. KeysBelow(next \o gb) \subseteq KeysIn(<<NewLine>> \o next \o g) \cup KeysBelow(back)
    BY <1>1, KeysBeside, Zenon DEF g
  <2> HIDE DEF pb, gb
  <2> QED
    BY <1>2, <2>1, <2>2
<1>7. KeysBelow((next \o (g \o prev)) \o gb) \subseteq {One, Two, Zero}
  <2> DEFINE gp == g \o prev
             gpb == g \o pb
  <2>1. gp \in Seq(Rune)
    BY <1>1, Concat
  <2> HIDE DEF gb
  <2>2. (next \o gp) \o gb = next \o (gp \o gb)
    <3> HIDE DEF gp
    <3>1. Rebracketed(next, gp, gb)
      BY <1>1, <1>5, <2>1, Rebrackets, Zenon
    <3> QED
      BY <3>1, Zenon DEF Rebracketed
  <2>3. gp \o gb = gpb
    <3>1. Rebracketed(g, prev, gb)
      BY <1>1, <1>5, Rebrackets, Zenon
    <3> QED
      BY <3>1, Zenon DEF Rebracketed
  <2>4. KeysBelow(next \o gpb) \subseteq KeysIn(<<NewLine>> \o next \o g) \cup KeysBelow(pb)
    <3> HIDE DEF pb
    <3> QED
      BY <1>1, <1>6, KeysBeside, Zenon DEF g
  <2>5. KeysBelow((next \o gp) \o gb) = KeysBelow(next \o gpb)
    BY <2>2, <2>3, Zenon
  <2> HIDE DEF gp, gpb, pb
  <2>6. KeysBelow((next \o gp) \o gb) \subseteq {One, Two, Zero}
    BY <1>2, <1>6, <2>4, <2>5
  <2> QED
    BY <2>6, Zenon DEF gp
<1> HIDE DEF gb, pb
<1>8. CASE nexts = TRUE /\ prevs = TRUE
  <2>1. k \in {One, Two, Zero}
    BY <1>4, <1>7, <1>8, Zenon
  <2> QED
    BY <1>8, <2>1
<1>9. CASE nexts = TRUE /\ prevs = FALSE
  <2>1. k \in {One, Zero}
    BY <1>4, <1>6, <1>9, Zenon
  <2> QED
    BY <1>9, <2>1
<1>10. CASE nexts = FALSE /\ prevs = TRUE
  <2>1. k \in {Two, Zero}
    BY <1>4, <1>6, <1>10, Zenon
  <2> QED
    BY <1>10, <2>1
<1>11. CASE nexts = FALSE /\ prevs = FALSE
  <2>1. k \in {Zero}
    BY <1>2, <1>4, <1>11, Zenon
  <2> QED
    BY <2>1
<1> QED
  BY <1>8, <1>9, <1>10, <1>11

\* A blank, and then none.
LedByBlank(s) == \E rest \in Seq(Rune \ {Gap}) : s = <<Gap>> \o rest

LEMMA LedFurther ==
  ASSUME NEW s, LedByBlank(s), NEW u \in Seq(Rune \ {Gap})
  PROVE  LedByBlank(s \o u)
<1> DEFINE g == <<Gap>>
           R == Rune \ {Gap}
<1>1. PICK rest \in Seq(R) : s = g \o rest
  BY Zenon DEF LedByBlank
<1>2. rest \o u \in Seq(R)
  <2> HIDE DEF R
  <2> QED
    BY Concat DEF R
<1>3. g \in Seq(Rune) /\ rest \in Seq(Rune) /\ u \in Seq(Rune)
  BY Alphabet
<1> HIDE DEF g, R
<1>4. Rebracketed(g, rest, u)
  BY <1>3, Rebrackets, Zenon
<1> QED
  BY <1>1, <1>2, <1>4, Zenon DEF Rebracketed, LedByBlank, g, R

LEMMA CounterIsLed ==
  ASSUME NEW page \in Nat, NEW pages \in Nat, pages > 1
  PROVE  LedByBlank(Counter(page, pages))
<1> DEFINE open == <<" ", "(">>
           slash == <<"/">>
           close == <<")">>
           R == Rune \ {Gap}
<1>1. "(" \in R /\ "/" \in R /\ ")" \in R
  <2>1. "(" \in Rune /\ "/" \in Rune /\ ")" \in Rune
    BY Alphabet
  <2>2. "(" # " " /\ "/" # " " /\ ")" # " "
    OBVIOUS
  <2> QED
    BY <2>1, <2>2, Zenon DEF R, Gap
<1>2. Numeral \subseteq R
  <2>1. Numeral \subseteq Rune
    BY DigitsAre, Zenon DEF Numeral
  <2> QED
    BY <2>1, KeyRunes
<1>3. \A n \in Nat : Decimal(n) \in Seq(R)
  <2> TAKE n \in Nat
  <2>1. Decimal(n) \in Seq(Numeral)
    BY DecimalIsDigits
  <2> HIDE DEF R
  <2> QED
    BY <1>2, <2>1
<1>4. \A r \in R : <<r>> \in Seq(R)
  OBVIOUS
<1>5. slash \in Seq(R) /\ close \in Seq(R)
  BY <1>1, <1>4, Zenon
<1>6. LedByBlank(open)
  <2>1. <<Gap>> \o <<"(">> = open
    BY Tuples, Zenon DEF Gap
  <2>2. <<"(">> \in Seq(R)
    BY <1>1, <1>4, Zenon
  <2> QED
    BY <2>1, <2>2, Zenon DEF LedByBlank, R
<1>7. Counter(page, pages) = open \o Decimal(page) \o slash \o Decimal(pages) \o close
  BY Zenon DEF Counter
<1> HIDE DEF open, slash, close
<1>8. LedByBlank(open \o Decimal(page))
  BY <1>3, <1>6, LedFurther, Zenon DEF R
<1>9. LedByBlank(open \o Decimal(page) \o slash)
  BY <1>5, <1>8, LedFurther, Zenon DEF R
<1>10. LedByBlank(open \o Decimal(page) \o slash \o Decimal(pages))
  BY <1>3, <1>9, LedFurther, Zenon DEF R
<1>11. LedByBlank(open \o Decimal(page) \o slash \o Decimal(pages) \o close)
  BY <1>5, <1>10, LedFurther, Zenon DEF R
<1> QED
  BY <1>7, <1>11, Zenon

\* A name is no key below any counter where it is none below one.
LEMMA HeaderKeys ==
  ASSUME NEW post \in Posts, KeysBelow(PostHeader(post, 1, 2)) = {},
         NEW page \in Nat, NEW pages \in Nat
  PROVE  KeysBelow(PostHeader(post, page, pages)) = {}
<1> DEFINE name == Label(post.author, MaxHeaderLen, T["post"])
           nl == <<NewLine>>
           g == <<Gap>>
           s == nl \o name
           sg == s \o g
<1>1. \A k, n : PostHeader(post, k, n) = name \o Counter(k, n)
  BY Zenon DEF PostHeader, Counter
<1>2. name \in Seq(Rune)
  <2>1. post.author \in Text
    BY DEF Posts
  <2>2. T["post"] \in Text
    BY WordsAreTexts, Zenon DEF Words
  <2> QED
    BY <2>1, <2>2, Sizes, LabelIsText DEF Text
<1> HIDE DEF name
<1>3. nl \in Seq(Rune) /\ g \in Seq(Rune) /\ s \in Seq(Rune)
  BY <1>2, Alphabet, LedIs
<1> HIDE DEF s, nl
<1>4. sg \in Seq(Rune)
  BY <1>3, Concat DEF g
<1> HIDE DEF g, sg
<1>5. ASSUME NEW k, NEW n, LedByBlank(Counter(k, n))
      PROVE  \E rest \in Seq(Rune) :
               /\ \A p \in 1 .. Len(rest) : rest[p] # Gap
               /\ nl \o PostHeader(post, k, n) = sg \o rest
  <2>1. PICK rest \in Seq(Rune \ {Gap}) : Counter(k, n) = g \o rest
    BY <1>5, Zenon DEF LedByBlank, g
  <2>2. rest \in Seq(Rune) /\ \A p \in 1 .. Len(rest) : rest[p] # Gap
    OBVIOUS
  <2> DEFINE c == g \o rest
  <2>3. c \in Seq(Rune)
    BY <1>3, <2>2, Concat
  <2>4. Rebracketed(s, g, rest)
    BY <1>3, <2>2, Rebrackets, Zenon
  <2>5. Rebracketed(nl, name, c)
    <3> HIDE DEF c
    <3> QED
      BY <1>2, <1>3, <2>3, Rebrackets, Zenon
  <2>6. nl \o PostHeader(post, k, n) = sg \o rest
    BY <1>1, <2>1, <2>4, <2>5, Zenon DEF Rebracketed, s, sg
  <2> QED
    BY <2>2, <2>6, Zenon
<1>6. KeysIn(sg) = {}
  <2>1. LedByBlank(Counter(1, 2))
    <3>1. 1 \in Nat /\ 2 \in Nat /\ 2 > 1
      OBVIOUS
    <3> QED
      BY <3>1, CounterIsLed, Zenon
  <2>2. PICK rest \in Seq(Rune) : nl \o PostHeader(post, 1, 2) = sg \o rest
    BY <1>5, <2>1, Zenon
  <2>3. KeysIn(sg) \subseteq KeysIn(sg \o rest)
    BY <1>4, KeysOfStart
  <2>4. KeysIn(sg \o rest) = {}
    BY <2>2, Zenon DEF KeysBelow, nl
  <2> QED
    BY <2>3, <2>4, Zenon
<1>7. CASE pages > 1
  <2>1. PICK rest \in Seq(Rune) : /\ \A p \in 1 .. Len(rest) : rest[p] # Gap
                                  /\ nl \o PostHeader(post, page, pages) = sg \o rest
    BY <1>5, <1>7, CounterIsLed, Zenon
  <2>2. KeysIn(sg \o rest) \subseteq KeysIn(sg)
    BY <1>4, <2>1, NoBlankAfter
  <2> QED
    BY <1>6, <2>1, <2>2, Zenon DEF KeysBelow, nl
<1>8. CASE ~(pages > 1)
  <2>1. Counter(page, pages) = <<>>
    BY <1>8, Zenon DEF Counter
  <2>2. name \o <<>> = name
    BY <1>2, ConcatEmptySeq
  <2>3. KeysBelow(PostHeader(post, page, pages)) = KeysIn(s)
    BY <1>1, <2>1, <2>2, Zenon DEF KeysBelow, s, nl
  <2>4. KeysIn(s) \subseteq KeysIn(sg)
    BY <1>3, KeysOfStart, Zenon DEF sg
  <2> QED
    BY <1>6, <2>3, <2>4, Zenon
<1> QED
  BY <1>7, <1>8

\* A post shows the way back, and the next and previous page where there is one.
LEMMA PostKeys ==
  ASSUME NEW st, Steady(st), st.screen = "post", NEW notice,
         KeysBelow(PostHeader(st.posts[st.cursor], 1, 2)) = {},
         \A page \in ToSet(PostPages(st)) : KeysBelow(page) = {}
  PROVE  /\ Prompt(st, notice).body \in Seq(Rune)
         /\ \A k \in KeysBelow(Prompt(st, notice).body) :
              \/ k = Zero
              \/ k = One /\ st.page < Len(PostPages(st)) - 1
              \/ k = Two /\ st.page > 0
<1> DEFINE pages == PostPages(st)
           body == Prompt(st, notice).body
<1>1. CASE pages = <<>>
  <2>1. Prompt(st, notice) = PostPrompt(st, pages)
    BY StagesDiffer, Zenon DEF Prompt
  <2>2. body = T["error.empty"]
    BY <1>1, <2>1 DEF PostPrompt, Prompted
  <2>3. body \in Seq(Rune) /\ KeysBelow(body) = {}
    BY <2>2, WordsUnkeyed, Zenon
  <2> QED
    BY <2>3, Zenon
<1>2. CASE pages # <<>>
  <2> DEFINE nexts == st.page < Len(PostPages(st)) - 1
             prevs == st.page > 0
             nl == <<NewLine>>
  <2>1. PICK H, P, N : PageOf(st, H, P, N) /\ body = (H \o nl \o P) \o nl \o N
    BY <1>2, PostPromptIs, Zenon
  <2>2. /\ st.posts[st.cursor] \in Posts /\ st.page \in 0 .. Len(pages) - 1
        /\ H = PostHeader(st.posts[st.cursor], st.page + 1, Len(pages)) /\ H \in Seq(Rune)
        /\ P \in ToSet(pages) /\ P \in Text /\ N = Nav(PageKeys(nexts, prevs))
    BY <2>1, Zenon DEF PageOf
  <2>3. pages \in Seq(Text)
    BY PagesAre DEF Steady
  <2>4. st.page + 1 \in Nat /\ Len(pages) \in Nat
    <3> HIDE DEF pages
    <3> QED
      BY <2>2, <2>3
  <2>5. KeysBelow(H) = {}
    BY <2>2, <2>4, HeaderKeys, Zenon
  <2>6. KeysBelow(P) = {} /\ P \in Seq(Rune)
    BY <2>2 DEF Text
  <2>7. nexts \in BOOLEAN /\ prevs \in BOOLEAN
    OBVIOUS
  <2>8. \A k \in KeysBelow(N) : k = Zero \/ (k = One /\ nexts) \/ (k = Two /\ prevs)
    BY <2>2, <2>7, NavKeys, Zenon
  <2>9. N \in Seq(Rune)
    <3>1. N \in Seq(Basic)
      BY <2>2, <2>7, PageOffers, Zenon DEF Offering
    <3> QED
      BY <3>1, BasicIsText, Zenon
  <2> DEFINE X == (H \o nl) \o P
  <2> HIDE DEF nexts, prevs, body, nl, pages
  <2>10. X \in Seq(Rune) /\ KeysBelow(X) \subseteq KeysBelow(H) \cup KeysBelow(P)
    BY <2>2, <2>6, KeysOfTwoLines DEF nl
  <2> HIDE DEF X
  <2>11. /\ (X \o nl) \o N \in Seq(Rune)
         /\ KeysBelow((X \o nl) \o N) \subseteq KeysBelow(X) \cup KeysBelow(N)
    BY <2>9, <2>10, KeysOfTwoLines DEF nl
  <2>12. body = (X \o nl) \o N
    BY <2>1, Zenon DEF X
  <2>13. body \in Seq(Rune) /\ KeysBelow(body) \subseteq KeysBelow(N)
    BY <2>5, <2>6, <2>10, <2>11, <2>12, Zenon
  <2> QED
    BY <2>8, <2>13, Zenon DEF nexts, prevs, body
<1> QED
  BY <1>1, <1>2

----------------------------------------------------------------------------
(* The keys a screen shows are those it takes *)

LEMMA KeysDiffer ==
  /\ Zero # One /\ Zero # Two /\ One # Two
  /\ Zero = Decimal(0) /\ One = Decimal(1) /\ Two = Decimal(2)
<1>1. Zero # One /\ Zero # Two /\ One # Two
  BY DEF Zero, One, Two
<1>2. Digits[1] = "0" /\ Digits[2] = "1" /\ Digits[3] = "2"
  BY DEF Digits
<1>3. Decimal(0) = <<Digits[1]>> /\ Decimal(1) = <<Digits[2]>> /\ Decimal(2) = <<Digits[3]>>
  <2>1. 0 \in Nat /\ 1 \in Nat /\ 2 \in Nat /\ 0 < 10 /\ 1 < 10 /\ 2 < 10
        /\ 0 + 1 = 1 /\ 1 + 1 = 2 /\ 2 + 1 = 3
    OBVIOUS
  <2> QED
    BY <2>1, DecimalUp, Zenon
<1> QED
  BY <1>1, <1>2, <1>3, Zenon DEF Zero, One, Two

LEMMA NoticesOf ==
  /\ \A st : Stay(st, T["error.fetch"]).notice # T["error.choice"]
  /\ \A st, screen : Goto(st, screen).notice # T["error.choice"]
  /\ \A st : Finish(st).notice # T["error.choice"]
<1> DEFINE choice == T["error.choice"]
           fetch == T["error.fetch"]
<1>1. choice # <<>> /\ choice # fetch
  BY WordsAssumption, Zenon
<1> HIDE DEF choice, fetch
<1>2. \A st, notice : Stay(st, notice).notice = notice
  BY DEF Stay
<1>3. \A st : Finish(st).notice = <<>>
  BY DEF Finish
<1>4. \A st, screen : Goto(st, screen).notice = <<>>
  BY <1>2, Zenon DEF Goto
<1>5. \A st : Stay(st, fetch).notice # choice
  BY <1>1, <1>2
<1>6. \A st, screen : Goto(st, screen).notice # choice
  BY <1>1, <1>4
<1>7. \A st : Finish(st).notice # choice
  BY <1>1, <1>3
<1> QED
  BY <1>5, <1>6, <1>7, Zenon DEF choice, fetch

LEMMA MenuTakesAll ==
  ASSUME NEW st, st.screen = "menu", NEW k \in {Zero, One, Two}
  PROVE  Takes(st, k)
<1>1. Handle(st, k, Unreachable) = HandleMenu(st, k, Unreachable)
  BY Zenon DEF Handle
<1>2. CASE k = One
  <2>1. HandleMenu(st, k, Unreachable) = Stay(st, T["error.fetch"])
    BY <1>2, KeysDiffer, Zenon DEF HandleMenu, Zero, One, Two
  <2> QED
    BY <1>1, <2>1, NoticesOf, Zenon DEF Takes
<1>3. CASE k = Two
  <2>1. HandleMenu(st, k, Unreachable) = Goto(st, "about")
    BY <1>3, KeysDiffer, Zenon DEF HandleMenu, Zero, One, Two
  <2> QED
    BY <1>1, <2>1, NoticesOf, Zenon DEF Takes
<1>4. CASE k = Zero
  <2>1. HandleMenu(st, k, Unreachable) = Finish(st)
    BY <1>4, KeysDiffer, Zenon DEF HandleMenu, Zero, One, Two
  <2> QED
    BY <1>1, <2>1, NoticesOf, Zenon DEF Takes
<1> QED
  BY <1>2, <1>3, <1>4

LEMMA TimelineTakesAll ==
  ASSUME NEW st, st.screen = "timeline", st.listed \in Nat, NEW k,
         k = Zero \/ \E i \in 1 .. st.listed : k = Decimal(i)
  PROVE  Takes(st, k)
<1>1. Handle(st, k, Unreachable) = HandleTimeline(st, k)
  BY StagesDiffer, Zenon DEF Handle
<1>2. CASE k = Zero
  <2>1. HandleTimeline(st, k) = Finish(st)
    BY <1>2, Zenon DEF HandleTimeline, Zero
  <2> QED
    BY <1>1, <2>1, NoticesOf, Zenon DEF Takes
<1>3. CASE k # Zero
  <2>1. PICK i \in 1 .. st.listed : k = Decimal(i)
    BY <1>3
  <2>2. Number(k) = i
    <3>1. i \in Nat
      OBVIOUS
    <3> QED
      BY <2>1, <3>1, NumberOfDecimal
  <2>3. Number(k) \in 1 .. st.listed
    BY <2>2
  <2>4. \E tt : HandleTimeline(st, k) = Goto(tt, "post")
    BY <1>3, <2>3, Zenon DEF HandleTimeline, Zero
  <2> QED
    BY <1>1, <2>4, NoticesOf, Zenon DEF Takes
<1> QED
  BY <1>2, <1>3

LEMMA PostTakesAll ==
  ASSUME NEW st, st.screen = "post", NEW k,
         \/ k = Zero
         \/ k = One /\ st.page < Len(PostPages(st)) - 1
         \/ k = Two /\ st.page > 0
  PROVE  Takes(st, k)
<1>1. Handle(st, k, Unreachable) = HandlePost(st, k)
  BY StagesDiffer, Zenon DEF Handle
<1>2. CASE k = Zero
  <2>1. HandlePost(st, k) = Goto(st, "timeline")
    BY <1>2, KeysDiffer, Zenon DEF HandlePost, Zero, One, Two
  <2> QED
    BY <1>1, <2>1, NoticesOf, Zenon DEF Takes
<1>3. CASE k = One /\ st.page < Len(PostPages(st)) - 1
  <2>1. \E tt : HandlePost(st, k) = Goto(tt, "post")
    BY <1>3, KeysDiffer, Zenon DEF HandlePost, Zero, One, Two
  <2> QED
    BY <1>1, <2>1, NoticesOf, Zenon DEF Takes
<1>4. CASE k = Two /\ st.page > 0
  <2>1. \E tt : HandlePost(st, k) = Goto(tt, "post")
    BY <1>4, KeysDiffer, Zenon DEF HandlePost, Zero, One, Two
  <2> QED
    BY <1>1, <2>1, NoticesOf, Zenon DEF Takes
<1> QED
  BY <1>2, <1>3, <1>4

\* The keys each screen shows.
ShowsKey(st, k) ==
  \/ st.screen = "menu" /\ k \in {Zero, One, Two}
  \/ st.screen = "timeline" /\ (k = Zero \/ \E i \in 1 .. st.listed : k = Decimal(i))
  \/ /\ st.screen = "post"
     /\ \/ k = Zero
        \/ k = One /\ st.page < Len(PostPages(st)) - 1
        \/ k = Two /\ st.page > 0

LEMMA ShownAreOffered ==
  ASSUME Typed, Answerable, PlainPosts, NEW k \in KeysShown
  PROVE  ShowsKey(session, k)
<1>1. Steady(session) /\ OnScreen(session, handset.body)
  BY Zenon DEF Typed, Answerable
<1>2. PICK notice \in Notices(session.screen) :
        /\ Prompt(session, notice).st = session
        /\ handset.body = Shrink(Noticed(notice, Prompt(session, notice).body))
  BY <1>1, Zenon DEF OnScreen
<1> DEFINE body == Prompt(session, notice).body
<1>3. /\ session \in Dialogues /\ session.screen \in Stages /\ session.screen # "about"
      /\ session.posts \in Seq(Posts)
  BY <1>1 DEF Steady, Ready, Dialogues
<1>4. k \in KeysBelow(handset.body)
  BY Zenon DEF KeysShown, KeysBelow, NewLine
<1>5. ASSUME body \in Seq(Rune) PROVE k \in KeysBelow(body)
  BY <1>2, <1>4, <1>5, KeysOfScreen, Zenon
<1> HIDE DEF body
<1>6. CASE session.screen = "menu"
  <2>1. body = MenuText /\ body \in Seq(Rune)
    <3>1. body = MenuPrompt
      BY <1>6 DEF Prompt, Prompted, body
    <3> QED
      BY <3>1, MenuPromptIs DEF Text
  <2>2. k \in {Zero, One, Two}
    BY <1>5, <2>1, MenuKeys, Zenon
  <2> QED
    BY <1>6, <2>2, Zenon DEF ShowsKey
<1>7. CASE session.screen = "timeline"
  <2> DEFINE fit == TimelineFit(session.posts, notice)
  <2>1. Prompt(session, notice) = TimelinePrompt(session, fit)
    BY <1>7, StagesDiffer, Zenon DEF Prompt
  <2>2. notice \in Notices("timeline")
    BY <1>7
  <2>3. \A i \in DOMAIN session.posts :
          KeysIn(<<Gap>> \o OneLine(TimelineItem(session.posts, i).label)) = {}
    BY <1>7, Zenon DEF PlainPosts, Gap
  <2>4. /\ fit.text \in Seq(Rune)
        /\ KeysBelow(fit.text) \subseteq {Zero} \cup {Decimal(i) : i \in 1 .. fit.shown}
    BY <1>3, <2>2, <2>3, TimelineKeys
  <2> HIDE DEF fit
  <2>5. body = fit.text /\ session.listed = fit.shown
    BY <1>2, <1>3, <2>1 DEF TimelinePrompt, Prompted, Dialogues, body
  <2>6. k = Zero \/ \E i \in 1 .. session.listed : k = Decimal(i)
    BY <1>5, <2>4, <2>5
  <2> QED
    BY <1>7, <2>6, Zenon DEF ShowsKey
<1>8. CASE session.screen = "post"
  <2>1. /\ KeysBelow(PostHeader(session.posts[session.cursor], 1, 2)) = {}
        /\ \A page \in ToSet(PostPages(session)) : KeysBelow(page) = {}
    BY <1>8, Zenon DEF PlainPosts, KeysBelow, NewLine
  <2>2. /\ body \in Seq(Rune)
        /\ \A q \in KeysBelow(body) :
             \/ q = Zero
             \/ q = One /\ session.page < Len(PostPages(session)) - 1
             \/ q = Two /\ session.page > 0
    BY <1>1, <1>8, <2>1, PostKeys, Zenon DEF body
  <2> QED
    BY <1>5, <1>8, <2>2, Zenon DEF ShowsKey
<1> QED
  BY <1>3, <1>6, <1>7, <1>8, Zenon DEF Stages

LEMMA OfferedIsTaken ==
  ASSUME NEW st, st.listed \in Nat, NEW k, ShowsKey(st, k)
  PROVE  Takes(st, k)
BY MenuTakesAll, TimelineTakesAll, PostTakesAll, Zenon DEF ShowsKey

LEMMA ShownAreTaken == Typed => ShownKeysAreTaken
<1> SUFFICES ASSUME Typed, Answerable, PlainPosts, NEW k \in KeysShown
             PROVE  k \in KeysTaken
  BY Zenon DEF ShownKeysAreTaken
<1> DEFINE count == Len(session.posts)
<1>1. Steady(session)
  BY Zenon DEF Typed, Answerable
<1>2. count \in Nat /\ session.listed \in Nat /\ session.listed <= count
  BY <1>1 DEF Steady, Ready, Dialogues
<1> HIDE DEF count
<1>3. ShowsKey(session, k)
  BY ShownAreOffered
<1>4. Takes(session, k)
  BY <1>2, <1>3, OfferedIsTaken
<1>5. \E i \in 0 .. count + 2 : k = Decimal(i)
  <2>1. 0 \in 0 .. count + 2 /\ 1 \in 0 .. count + 2 /\ 2 \in 0 .. count + 2
    BY <1>2
  <2>2. \A i \in 1 .. session.listed : i \in 0 .. count + 2
    BY <1>2
  <2>3. k \in {Zero, One, Two} \/ \E i \in 1 .. session.listed : k = Decimal(i)
    BY <1>3, Zenon DEF ShowsKey
  <2> QED
    BY <2>1, <2>2, <2>3, KeysDiffer, Zenon
<1> QED
  BY <1>4, <1>5, Zenon DEF KeysTaken, Takes, count

(***************************************************************************)
(* A key the subscriber can read is one the screen takes: whatever timeline *)
(* was fetched, however many entries the list shows and wherever a page     *)
(* begins and ends, below every notice and whatever Shrink cuts off, a      *)
(* screen reads as no key but those its handler counts                     *)
(* (main.go:180-186, 201-206), as long as no author's words do.            *)
(***************************************************************************)
THEOREM ShownKeysAlwaysTaken == Spec => []ShownKeysAreTaken
BY ShownAreTaken, Invariant, PTL

----------------------------------------------------------------------------
(* What a key does *)

\* What a Prompt without an end leaves, below a notice.
LEMMA StayLeaves ==
  ASSUME NEW st, Ready(st), st.screen # "about", NEW notice
  PROVE  LET turn == Settled(Stay(st, notice))
             prompt == Prompt(st, notice)
         IN /\ turn.session = prompt.st
            /\ turn.handset.body = Shrink(Noticed(notice, prompt.body))
<1> DEFINE done == Stay(st, notice)
           prompt == Prompt(st, notice)
           body == Shrink(Noticed(notice, prompt.body))
           turn == Settled(done)
<1>1. done.ends = FALSE /\ done.notice = notice /\ done.st = st
  BY DEF Stay
<1>2. prompt.st.screen # "about"
  BY PromptIs
<1> HIDE DEF done
<1>3. turn = Rendered(notice, prompt)
  BY <1>1, Zenon DEF Settled
<1>4. turn = [session |-> prompt.st, handset |-> [shows |-> "menu", body |-> body]]
  BY <1>2, <1>3, Zenon DEF Rendered
<1> HIDE DEF turn, prompt, body
<1>5. turn.session = prompt.st /\ turn.handset.body = body
  BY <1>4
<1> QED
  BY <1>5 DEF turn, done, prompt, body

\* A turn that leads to a screen, below no notice.
Opens(turn, next) ==
  turn.session = Prompt(next, <<>>).st /\ turn.handset.body = Shrink(Prompt(next, <<>>).body)

LEMMA GotoLeaves ==
  ASSUME NEW st, NEW screen,
         Ready([st EXCEPT !.screen = screen]), [st EXCEPT !.screen = screen].screen # "about"
  PROVE  Opens(Settled(Goto(st, screen)), [st EXCEPT !.screen = screen])
<1> DEFINE next == [st EXCEPT !.screen = screen]
           prompt == Prompt(next, <<>>)
           turn == Settled(Stay(next, <<>>))
<1>1. turn.session = prompt.st /\ turn.handset.body = Shrink(Noticed(<<>>, prompt.body))
  BY StayLeaves
<1>2. Noticed(<<>>, prompt.body) = prompt.body
  BY Zenon DEF Noticed
<1>3. Settled(Goto(st, screen)) = turn
  BY Zenon DEF Goto
<1> HIDE DEF prompt, turn
<1>4. Opens(turn, next)
  BY <1>1, <1>2, Zenon DEF Opens, prompt
<1> QED
  BY <1>3, <1>4, Zenon DEF next

LEMMA FinishLeaves ==
  ASSUME NEW st
  PROVE  Settled(Finish(st)).handset.shows = "end"
<1> DEFINE done == Finish(st)
           turn == Settled(done)
           body == Shrink(T["session.ended"])
<1>1. done.ends = TRUE
  BY DEF Finish
<1> HIDE DEF done, body
<1>2. turn = [session |-> NoSession, handset |-> [shows |-> "end", body |-> body]]
  BY <1>1, Zenon DEF Settled, body
<1> HIDE DEF turn
<1>3. turn.handset.shows = "end"
  BY <1>2
<1> QED
  BY <1>3, Zenon DEF turn, done

LEMMA AboutEnds ==
  ASSUME NEW st, Steady(st)
  PROVE  Settled(Goto(st, "about")).handset.shows = "end"
<1> DEFINE next == [st EXCEPT !.screen = "about"]
           done == Stay(next, <<>>)
           prompt == Prompt(next, <<>>)
           body == Shrink(Noticed(<<>>, prompt.body))
           turn == Settled(done)
<1>1. done.ends = FALSE /\ done.notice = <<>> /\ done.st = next
  BY DEF Stay
<1>2. next.screen = "about"
  BY DEF Steady, Ready, Dialogues
<1> HIDE DEF next, done
<1>3. prompt = Prompted(next, T["about.body"])
  BY <1>2, StagesDiffer, Zenon DEF Prompt
<1>4. prompt.st = next
  BY <1>3 DEF Prompted
<1> HIDE DEF prompt, body
<1>5. turn = [session |-> NoSession, handset |-> [shows |-> "end", body |-> body]]
  BY <1>1, <1>2, <1>4, Zenon DEF Settled, Rendered, prompt, body
<1> HIDE DEF turn
<1>6. turn.handset.shows = "end"
  BY <1>5
<1>7. Settled(Goto(st, "about")) = turn
  BY Zenon DEF Goto, turn, done, next
<1> QED
  BY <1>6, <1>7, Zenon

\* A post stays on its page.
LEMMA PageIsKept ==
  ASSUME NEW st, Ready(st), st.screen = "post", NEW notice
  PROVE  Prompt(st, notice).st = st
<1> DEFINE pages == PostPages(st)
           n == Len(pages)
           page == st.page
<1>1. st \in Dialogues /\ page \in Pages(st) /\ pages \in Seq(Text)
  BY PagesAre DEF Ready
<1>2. page \in {0} \cup 0 .. n - 1
  BY <1>1 DEF Pages
<1>3. Prompt(st, notice) = PostPrompt(st, pages)
  BY StagesDiffer, Zenon DEF Prompt, pages
<1> HIDE DEF pages, page
<1>4. CASE pages = <<>>
  BY <1>3, <1>4 DEF PostPrompt, Prompted
<1>5. CASE pages # <<>>
  <2>1. n \in Nat /\ page <= n - 1
    BY <1>1, <1>2, <1>5
  <2>2. PageShown(st, pages) = page
    BY <2>1, Zenon DEF PageShown, Least, n, page
  <2>3. [st EXCEPT !.page = page] = st
    BY <1>1 DEF Dialogues, page
  <2>4. PostPrompt(st, pages).st = [st EXCEPT !.page = page]
    BY <1>5, <2>2 DEF PostPrompt, Prompted
  <2> QED
    BY <1>3, <2>3, <2>4, Zenon
<1> QED
  BY <1>4, <1>5

LEMMA GotoIsReady ==
  ASSUME NEW st, NEW screen, Goes(Goto(st, screen))
  PROVE  Ready([st EXCEPT !.screen = screen])
<1> DEFINE done == Goto(st, screen)
<1>1. done.ends = FALSE /\ done.st = [st EXCEPT !.screen = screen]
  BY DEF Goto, Stay
<1>2. Goes(done)
  OBVIOUS
<1> HIDE DEF done
<1>3. Ready(done.st)
  BY <1>1, <1>2, Zenon DEF Goes
<1> QED
  BY <1>1, <1>3, Zenon

\* What the menu's first entry leaves, and an entry of the list.
Reaches(st, turn) ==
  \/ turn.session.screen = "timeline"
  \/ turn.session = st /\ IsPrefix(T["error.fetch"], turn.handset.body)

OpensPost(st, i, turn) ==
  /\ turn.session = [st EXCEPT !.screen = "post", !.cursor = i, !.page = 0]
  /\ turn.handset.body = Shrink(Prompt(turn.session, <<>>).body)

\* What a key leaves of a dialogue whose screen shows it.
Leaves(st, k, turn) ==
  /\ st.screen = "post" /\ k = One => turn.session = [st EXCEPT !.page = @ + 1]
  /\ st.screen = "post" /\ k = Two => turn.session = [st EXCEPT !.page = @ - 1]
  /\ st.screen = "post" /\ k = Zero =>
       turn.session.screen = "timeline" /\ turn.session.posts = st.posts
  /\ \A i \in 1 .. Len(st.posts) :
       st.screen = "timeline" /\ k = Decimal(i) => OpensPost(st, i, turn)
  /\ st.screen = "timeline" /\ k = Zero => turn.handset.shows = "end"
  /\ st.screen = "menu" /\ (k = Zero \/ k = Two) => turn.handset.shows = "end"
  /\ st.screen = "menu" /\ k = One => Reaches(st, turn)

\* Next and Prev turn the page.
LEMMA NextTurns ==
  ASSUME NEW st, Steady(st), st.screen = "post", st.page < Len(PostPages(st)) - 1
  PROVE  Settled(HandlePost(st, One)).session = [st EXCEPT !.page = @ + 1]
<1> DEFINE read == [st EXCEPT !.page = @ + 1]
           next == [read EXCEPT !.screen = "post"]
<1>1. HandlePost(st, One) = Goto(read, "post")
  BY KeysDiffer, Zenon DEF HandlePost, One, Two
<1>2. st \in Dialogues
  BY DEF Steady, Ready
<1>3. next = read /\ next.screen = "post"
  BY <1>2 DEF Dialogues
<1>4. Goes(Goto(read, "post"))
  BY <1>1, PostGoes
<1>5. Ready(next)
  BY <1>4, GotoIsReady
<1>6. Prompt(next, <<>>).st = next
  BY <1>3, <1>5, PageIsKept
<1>7. next.screen # "about"
  BY <1>3, StagesDiffer
<1>8. Opens(Settled(Goto(read, "post")), next)
  BY <1>5, <1>7, GotoLeaves, Zenon
<1> HIDE DEF next, read
<1> QED
  BY <1>1, <1>3, <1>6, <1>8, Zenon DEF read, Opens

LEMMA PrevTurns ==
  ASSUME NEW st, Steady(st), st.screen = "post", st.page > 0
  PROVE  Settled(HandlePost(st, Two)).session = [st EXCEPT !.page = @ - 1]
<1> DEFINE read == [st EXCEPT !.page = @ - 1]
           next == [read EXCEPT !.screen = "post"]
<1>1. HandlePost(st, Two) = Goto(read, "post")
  BY KeysDiffer, Zenon DEF HandlePost, One, Two
<1>2. st \in Dialogues
  BY DEF Steady, Ready
<1>3. next = read /\ next.screen = "post"
  BY <1>2 DEF Dialogues
<1>4. Goes(Goto(read, "post"))
  BY <1>1, PostGoes
<1>5. Ready(next)
  BY <1>4, GotoIsReady
<1>6. Prompt(next, <<>>).st = next
  BY <1>3, <1>5, PageIsKept
<1>7. next.screen # "about"
  BY <1>3, StagesDiffer
<1>8. Opens(Settled(Goto(read, "post")), next)
  BY <1>5, <1>7, GotoLeaves, Zenon
<1> HIDE DEF next, read
<1> QED
  BY <1>1, <1>3, <1>6, <1>8, Zenon DEF read, Opens

\* Back returns to the list.
LEMMA BackReturns ==
  ASSUME NEW st, Steady(st), st.screen = "post"
  PROVE  LET turn == Settled(HandlePost(st, Zero))
         IN turn.session.screen = "timeline" /\ turn.session.posts = st.posts
<1> DEFINE next == [st EXCEPT !.screen = "timeline"]
           turn == Settled(HandlePost(st, Zero))
           fit == TimelineFit(next.posts, <<>>)
<1>1. HandlePost(st, Zero) = Goto(st, "timeline")
  BY KeysDiffer, Zenon DEF HandlePost, Zero, One, Two
<1>2. st \in Dialogues
  BY DEF Steady, Ready
<1>3. next.screen = "timeline" /\ next.posts = st.posts /\ next \in Dialogues
  BY <1>2 DEF Dialogues, Stages
<1>4. Ready(next)
  BY <1>1, PostGoes, GotoIsReady
<1>5. next.screen # "about"
  BY <1>3, StagesDiffer
<1>6. Opens(Settled(Goto(st, "timeline")), next)
  BY <1>4, <1>5, GotoLeaves, Zenon
<1> HIDE DEF next
<1>7. Prompt(next, <<>>) = TimelinePrompt(next, fit)
  BY <1>3, StagesDiffer, Zenon DEF Prompt
<1> HIDE DEF fit
<1>8. Prompt(next, <<>>).st = [next EXCEPT !.listed = fit.shown]
  BY <1>7 DEF TimelinePrompt, Prompted
<1>9. turn.session = [next EXCEPT !.listed = fit.shown]
  BY <1>1, <1>6, <1>8, Zenon DEF Opens
<1> HIDE DEF turn
<1>10. turn.session.screen = "timeline" /\ turn.session.posts = st.posts
  BY <1>3, <1>9 DEF Dialogues
<1> QED
  BY <1>10 DEF turn

\* An entry of the list opens its post.
LEMMA EntryOpens ==
  ASSUME NEW st, Steady(st), st.screen = "timeline", NEW i \in 1 .. st.listed
  PROVE  OpensPost(st, i, Settled(HandleTimeline(st, Decimal(i))))
<1> DEFINE k == Decimal(i)
           read == [st EXCEPT !.cursor = i, !.page = 0]
           next == [read EXCEPT !.screen = "post"]
           turn == Settled(HandleTimeline(st, k))
<1>1. i \in Nat /\ i # 0 /\ st \in Dialogues
  <2>1. st \in Dialogues
    BY DEF Steady, Ready
  <2>2. st.listed \in Nat
    BY <2>1 DEF Dialogues
  <2> QED
    BY <2>1, <2>2
<1>2. Number(k) = i /\ k # Zero
  <2>1. Number(k) = i
    BY <1>1, NumberOfDecimal
  <2>2. Number(Decimal(0)) = 0
    BY NumberOfDecimal
  <2> QED
    BY <1>1, <2>1, <2>2, KeysDiffer, Zenon
<1>3. HandleTimeline(st, k) = Goto(read, "post")
  BY <1>2, Zenon DEF HandleTimeline, Zero
<1>4. next = [st EXCEPT !.screen = "post", !.cursor = i, !.page = 0] /\ next.screen = "post"
  BY <1>1 DEF Dialogues
<1>5. Ready(next)
  <2>1. Goes(Goto(read, "post"))
    <3>1. Goes(HandleTimeline(st, k))
      BY TimelineGoes
    <3> QED
      BY <1>3, <3>1, Zenon
  <2> HIDE DEF read
  <2> QED
    BY <2>1, GotoIsReady
<1>6. Prompt(next, <<>>).st = next
  BY <1>4, <1>5, PageIsKept
<1>7. next.screen # "about"
  BY <1>4, StagesDiffer
<1> DEFINE opened == Settled(Goto(read, "post"))
<1>8. Opens(opened, next)
  BY <1>5, <1>7, GotoLeaves, Zenon
<1> HIDE DEF next, read
<1>9. turn = opened
  BY <1>3, Zenon DEF opened
<1> HIDE DEF turn, opened
<1> QED
  BY <1>4, <1>6, <1>8, <1>9, Zenon DEF turn, k, Opens, OpensPost

\* A fetch that fails leaves the menu, below its notice.
LEMMA FailureIsRead ==
  ASSUME NEW st, Steady(st), st.screen = "menu"
  PROVE  Reaches(st, Settled(Stay(st, T["error.fetch"])))
<1> DEFINE e == T["error.fetch"]
           nl == <<"\n">>
           read == Noticed(e, MenuText)
           turn == Settled(Stay(st, e))
<1>1. Prompt(st, e) = Prompted(st, MenuText)
  BY MenuPromptIs, Zenon DEF Prompt
<1>2. Prompt(st, e).st = st /\ Prompt(st, e).body = MenuText
  BY <1>1 DEF Prompted
<1>3. Ready(st) /\ st.screen # "about"
  BY StagesDiffer DEF Steady
<1>4. turn.session = st /\ turn.handset.body = Shrink(read)
  BY <1>2, <1>3, StayLeaves
<1>5. e \in Seq(Rune) /\ FitsScreen(e \o nl \o MenuText) /\ FitsScreen(MenuText)
      /\ MenuText \in Seq(Rune) /\ nl \in Seq(Rune)
  <2>1. nl \in Text
    BY Alphabet, ShortTexts, Zenon DEF NewLine
  <2>2. FitsScreen(MenuText) /\ MenuText \in Text
    BY MenuPromptIs
  <2>3. FitsScreen(e \o nl \o MenuText) /\ e \in Text
    BY MenuPromptIs, Zenon
  <2> QED
    BY <2>1, <2>2, <2>3, Zenon DEF Text
<1> HIDE DEF e, nl
<1>6. IsPrefix(e, read) /\ FitsScreen(read)
  <2>1. CASE e = <<>>
    <3>1. read = MenuText
      BY <2>1, Zenon DEF Noticed
    <3>2. <<>> \o MenuText = MenuText
      BY <1>5, ConcatEmptySeq
    <3>3. IsPrefix(e, e \o MenuText)
      BY <1>5, StartsWith
    <3> QED
      BY <1>5, <2>1, <3>1, <3>2, <3>3, Zenon
  <2>2. CASE e # <<>> /\ IsPrefix(e, MenuText)
    <3>1. read = MenuText
      BY <2>2, Zenon DEF Noticed
    <3> QED
      BY <1>5, <2>2, <3>1, Zenon
  <2>3. CASE e # <<>> /\ ~IsPrefix(e, MenuText)
    <3>1. read = e \o nl \o MenuText
      BY <2>3, Zenon DEF Noticed, nl
    <3>2. Rebracketed(e, nl, MenuText)
      BY <1>5, Rebrackets, Zenon
    <3>3. nl \o MenuText \in Seq(Rune)
      BY <1>5, Concat
    <3>4. IsPrefix(e, e \o (nl \o MenuText))
      BY <1>5, <3>3, StartsWith
    <3> QED
      BY <1>5, <3>1, <3>2, <3>4, Zenon DEF Rebracketed
  <2> QED
    BY <2>1, <2>2, <2>3
<1>7. Shrink(read) = read
  BY <1>6, ShrunkIsItself
<1> HIDE DEF turn, read
<1> QED
  BY <1>4, <1>6, <1>7, Zenon DEF turn, e, Reaches

\* The menu leads to the timeline, unless the fetch fails.
LEMMA TimelineIsReached ==
  ASSUME NEW st, Steady(st), st.screen = "menu", NEW fetched \in Timelines \cup {Unreachable}
  PROVE  Reaches(st, Settled(HandleMenu(st, One, fetched)))
<1> DEFINE read == [st EXCEPT !.posts = [i \in DOMAIN fetched |-> ToPost(fetched[i])]]
           next == [read EXCEPT !.screen = "timeline"]
<1>1. HandleMenu(st, One, fetched) =
        IF fetched = Unreachable THEN Stay(st, T["error.fetch"]) ELSE Goto(read, "timeline")
  BY KeysDiffer, Zenon DEF HandleMenu, One
<1>2. CASE fetched = Unreachable
  <2>1. HandleMenu(st, One, fetched) = Stay(st, T["error.fetch"])
    BY <1>1, <1>2, Zenon
  <2> QED
    BY <2>1, FailureIsRead, Zenon
<1>3. CASE fetched # Unreachable
  <2>1. HandleMenu(st, One, fetched) = Goto(read, "timeline")
    BY <1>1, <1>3, Zenon
  <2>2. Goes(Goto(read, "timeline"))
    BY <2>1, MenuGoes
  <2>3. next.screen = "timeline"
    <3>1. st \in Dialogues
      BY DEF Steady, Ready
    <3> QED
      BY <3>1 DEF Dialogues
  <2> HIDE DEF read
  <2>4. Ready(next) /\ next.screen # "about"
    BY <2>2, <2>3, StagesDiffer, GotoIsReady
  <2>5. Opens(Settled(Goto(read, "timeline")), next)
    BY <2>4, GotoLeaves, Zenon
  <2>6. Prompt(next, <<>>).st.screen = "timeline"
    BY <2>3, <2>4, PromptIs
  <2> HIDE DEF next
  <2> QED
    BY <2>1, <2>5, <2>6, Zenon DEF Opens, Reaches
<1> QED
  BY <1>2, <1>3

\* Each key leaves what it says.
LEMMA KeysLeave ==
  ASSUME NEW st, Steady(st), NEW k, ShowsKey(st, k),
         NEW fetched \in Timelines \cup {Unreachable}
  PROVE  Leaves(st, k, Settled(Handle(st, k, fetched)))
<1> DEFINE turn == Settled(Handle(st, k, fetched))
<1>1. st.listed \in Nat /\ st.screen \in Stages /\ st.screen # "about"
  BY DEF Steady, Ready, Dialogues
<1>2. CASE st.screen = "menu"
  <2>1. turn = Settled(HandleMenu(st, k, fetched))
    BY <1>2, Zenon DEF Handle
  <2>2. HandleMenu(st, Zero, fetched) = Finish(st) /\ HandleMenu(st, Two, fetched) = Goto(st, "about")
    BY KeysDiffer, Zenon DEF HandleMenu, Zero, One, Two
  <2>3. k = Zero => turn.handset.shows = "end"
    BY <2>1, <2>2, FinishLeaves, Zenon
  <2>4. k = Two => turn.handset.shows = "end"
    BY <2>1, <2>2, AboutEnds, Zenon
  <2>5. k = One => Reaches(st, turn)
    BY <1>2, <2>1, TimelineIsReached, Zenon
  <2> HIDE DEF turn
  <2>6. Leaves(st, k, turn)
    BY <1>2, <2>3, <2>4, <2>5, StagesDiffer, Zenon DEF Leaves
  <2> QED
    BY <2>6 DEF turn
<1>3. CASE st.screen = "timeline"
  <2>1. turn = Settled(HandleTimeline(st, k))
    BY <1>3, StagesDiffer, Zenon DEF Handle
  <2>2. k = Zero => turn.handset.shows = "end"
    <3>1. HandleTimeline(st, Zero) = Finish(st)
      BY Zenon DEF HandleTimeline, Zero
    <3> QED
      BY <2>1, <3>1, FinishLeaves, Zenon
  <2>3. ASSUME NEW i \in 1 .. Len(st.posts), k = Decimal(i)
        PROVE  OpensPost(st, i, turn)
    <3>1. i \in Nat /\ i # 0
      OBVIOUS
    <3>2. k = Decimal(0) \/ \E j \in 1 .. st.listed : k = Decimal(j)
      BY <1>3, StagesDiffer, KeysDiffer, Zenon DEF ShowsKey
    <3>3. i \in 1 .. st.listed
      <4>1. Number(k) = i /\ Number(Decimal(0)) = 0
        BY <2>3, <3>1, NumberOfDecimal
      <4>2. k # Decimal(0)
        BY <3>1, <4>1
      <4>3. PICK j \in 1 .. st.listed : k = Decimal(j)
        BY <3>2, <4>2
      <4>4. j \in Nat
        BY <1>1
      <4>5. Number(k) = j
        BY <4>3, <4>4, NumberOfDecimal
      <4> QED
        BY <4>1, <4>5
    <3> QED
      BY <1>3, <2>1, <2>3, <3>3, EntryOpens, Zenon
  <2> HIDE DEF turn
  <2>4. Leaves(st, k, turn)
    BY <1>3, <2>2, <2>3, StagesDiffer, Zenon DEF Leaves
  <2> QED
    BY <2>4 DEF turn
<1>4. CASE st.screen = "post"
  <2>1. turn = Settled(HandlePost(st, k))
    BY <1>4, StagesDiffer, Zenon DEF Handle
  <2>2. /\ k = One => st.page < Len(PostPages(st)) - 1
        /\ k = Two => st.page > 0
    BY <1>4, StagesDiffer, KeysDiffer, Zenon DEF ShowsKey
  <2>3. k = One => turn.session = [st EXCEPT !.page = @ + 1]
    BY <1>4, <2>1, <2>2, NextTurns, Zenon
  <2>4. k = Two => turn.session = [st EXCEPT !.page = @ - 1]
    BY <1>4, <2>1, <2>2, PrevTurns, Zenon
  <2>5. k = Zero => turn.session.screen = "timeline" /\ turn.session.posts = st.posts
    BY <1>4, <2>1, BackReturns, Zenon
  <2> HIDE DEF turn
  <2>6. Leaves(st, k, turn)
    BY <1>4, <2>3, <2>4, <2>5, StagesDiffer, Zenon DEF Leaves
  <2> QED
    BY <2>6 DEF turn
<1> QED
  BY <1>1, <1>2, <1>3, <1>4, Zenon DEF Stages

\* What a turn leaves is what the gateway stores and the subscriber sees.
Lands(turn) == session' = turn.session /\ handset' = turn.handset

\* An answer that is not empty is handled by the screen it answers.
LEMMA AnswerIsHandled ==
  ASSUME Typed, Answerable, NEW input \in Inputs, Reply(input),
         NEW k, k = answers'[Len(answers')], k # <<>>
  PROVE  \E fetched \in Timelines \cup {Unreachable} : Lands(Settled(Handle(session, k, fetched)))
<1>1. Steady(session) /\ session # NoSession
  BY Zenon DEF Typed, Answerable
<1>2. session.msisdn = Subscriber
  BY <1>1 DEF Steady, Ready, Dialogues
<1>3. [Next]_vars
  BY Zenon DEF Next
<1>4. answers' \in Seq(Answer) /\ network \in Networks
  BY <1>3, StepTyped, Zenon DEF Typed
<1>5. answers' # <<>>
  <2>1. \E a : answers' = Append(answers, a)
    BY Zenon DEF Reply
  <2>2. answers \in Seq(Answer)
    BY Zenon DEF Typed
  <2> QED
    BY <2>1, <2>2
<1>6. PICK ev \in DialogueEvents(answers'), fetched \in Fetches :
        \E turn \in {Turn(ev, fetched)} : session' = turn.session /\ handset' = turn.handset
  BY Zenon DEF Reply, Callback
<1>7. Lands(Turn(ev, fetched))
  BY <1>6, Zenon DEF Lands
<1>8. Carries(ev, answers')
  BY <1>4, EventsCarry
<1>9. answers' # << <<>> >>
  <2>1. Len(<< <<>> >>) = 1 /\ << <<>> >>[1] = <<>>
    OBVIOUS
  <2> QED
    BY <2>1, Zenon
<1>10. ev.msisdn = Subscriber /\ ev.path = answers' /\ ev.phase # "begin"
  BY <1>5, <1>8, <1>9, Zenon DEF Carries
<1>11. Resumed(ev) = session
  BY <1>1, <1>2, <1>10, Zenon DEF Resumed
<1>12. Turn(ev, fetched) = Settled(Handle(session, k, fetched))
  BY <1>5, <1>10, <1>11, Zenon DEF Turn
<1>13. fetched \in Timelines \cup {Unreachable}
  BY Zenon DEF Fetches
<1> QED
  BY <1>7, <1>12, <1>13, Zenon

LEMMA ShownKeysAreNames ==
  ASSUME NEW st, st.listed \in Nat, NEW k, ShowsKey(st, k)
  PROVE  k # <<>>
<1>1. \A i \in 1 .. st.listed : i \in Nat
  OBVIOUS
<1>2. \E n \in Nat : k = Decimal(n)
  <2>1. 0 \in Nat /\ 1 \in Nat /\ 2 \in Nat
    OBVIOUS
  <2> QED
    BY <1>1, <2>1, KeysDiffer, Zenon DEF ShowsKey
<1>3. k \in KeyNames
  BY <1>2, KeyNamesAre, Zenon
<1> QED
  BY <1>3 DEF KeyNames

LEMMA ReplySays ==
  ASSUME Typed, Answerable, PlainPosts, NEW input \in Inputs, Reply(input)
  PROVE  LastKeyDoesWhatItSays
<1> DEFINE k == answers'[Len(answers')]
<1>1. Steady(session)
  BY Zenon DEF Typed, Answerable
<1>2. session.listed \in Nat /\ DOMAIN session.posts = 1 .. Len(session.posts)
  BY <1>1 DEF Steady, Ready, Dialogues
<1> HIDE DEF k
<1>3. CASE k \notin KeysShown
  BY <1>3, Zenon DEF LastKeyDoesWhatItSays, k
<1>4. CASE k \in KeysShown
  <2>1. ShowsKey(session, k)
    BY <1>4, ShownAreOffered
  <2>2. k # <<>>
    BY <1>2, <2>1, ShownKeysAreNames
  <2>3. PICK fetched \in Timelines \cup {Unreachable} :
          Lands(Settled(Handle(session, k, fetched)))
    BY <2>2, AnswerIsHandled, Zenon DEF k
  <2> DEFINE turn == Settled(Handle(session, k, fetched))
  <2>4. Leaves(session, k, turn)
    BY <1>1, <2>1, KeysLeave
  <2>5. session' = turn.session /\ handset' = turn.handset
    BY <2>3, Zenon DEF Lands
  <2> HIDE DEF turn
  <2>6. /\ session.screen = "post" /\ k = One => session' = [session EXCEPT !.page = @ + 1]
        /\ session.screen = "post" /\ k = Two => session' = [session EXCEPT !.page = @ - 1]
        /\ session.screen = "post" /\ k = Zero =>
             session'.screen = "timeline" /\ session'.posts = session.posts
    BY <2>4, <2>5, Zenon DEF Leaves
  <2>7. ASSUME NEW i \in DOMAIN session.posts, session.screen = "timeline", k = Decimal(i)
        PROVE  /\ session' = [session EXCEPT !.screen = "post", !.cursor = i, !.page = 0]
               /\ handset'.body = Shrink(Prompt(session', <<>>).body)
    <3>1. OpensPost(session, i, turn)
      BY <1>2, <2>4, <2>7, Zenon DEF Leaves
    <3> QED
      BY <2>5, <3>1, Zenon DEF OpensPost
  <2>8. /\ session.screen = "timeline" /\ k = Zero => handset'.shows = "end"
        /\ session.screen = "menu" /\ (k = Zero \/ k = Two) => handset'.shows = "end"
    BY <2>4, <2>5, Zenon DEF Leaves
  <2>9. session.screen = "menu" /\ k = One =>
          \/ session'.screen = "timeline"
          \/ session' = session /\ IsPrefix(T["error.fetch"], handset'.body)
    BY <2>4, <2>5, Zenon DEF Leaves, Reaches
  <2> QED
    BY <2>6, <2>7, <2>8, <2>9, KeysDiffer, Zenon DEF LastKeyDoesWhatItSays, k
<1> QED
  BY <1>3, <1>4

LEMMA StepSays ==
  ASSUME Typed, [Next]_vars, Answerable, PlainPosts, answers' # answers, answers' # <<>>
  PROVE  LastKeyDoesWhatItSays
<1>1. ~Dial
  BY Zenon DEF Dial
<1>2. ~HangUp /\ ~Expire
  BY Zenon DEF HangUp, Expire
<1>3. ~UNCHANGED vars
  BY DEF vars
<1>4. \E input \in Inputs : Reply(input)
  BY <1>1, <1>2, <1>3, Zenon DEF Next
<1> QED
  BY <1>4, ReplySays

(***************************************************************************)
(* A key does what it says where the subscriber reads it, in whatever      *)
(* timeline was fetched and on whatever page: Next and Prev turn one page  *)
(* of the same post, Back returns to the posts fetched, an entry of the    *)
(* list opens that post on its first page, Quit ends, and the menu leads   *)
(* to the timeline unless the fetch fails (main.go:129-241).               *)
(***************************************************************************)
THEOREM KeysAlwaysDoWhatTheySay == Spec => KeysDoWhatTheySay
<1>1. Typed /\ [Next]_vars =>
        [ Answerable /\ PlainPosts /\ answers' # answers /\ answers' # <<>>
            => LastKeyDoesWhatItSays ]_vars
  BY StepSays, Zenon
<1> QED
  BY <1>1, Invariant, PTL DEF Spec, KeysDoWhatTheySay
=============================================================================
