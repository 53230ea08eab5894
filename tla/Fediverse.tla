------------------------------ MODULE Fediverse ------------------------------
(***************************************************************************)
(* The reference application (adapters/fediverse/main.go) on real screens: *)
(* what the subscriber reads is a text, cut as the SDK cuts it, and the    *)
(* keys on it are what may be typed next.  One subscriber, through one of  *)
(* the two networks; a gateway turn is one step, as in App, which covers   *)
(* the failures of the store and of the application.                       *)
(*                                                                         *)
(* The instance's statuses are what stripHTML leaves of them.              *)
(***************************************************************************)
EXTENDS Adapters

CONSTANTS
  Rune,           \* every rune a text may hold
  T,              \* the words of the language: a text for each key
  Timelines,      \* what the instance may answer: sequences of statuses
  Unreachable,    \* a fetch that fails
  MaxPostBytes,
  MaxHeaderLen,
  WidestPageCounter,
  Wide, Wider,    \* runes of three and of four bytes; the others have one
  Subscriber,     \* the subscriber's number, with its plus
  Inputs,         \* bound: what is typed
  MaxAnswers,     \* bound: answers in a dialogue
  NoSession

Digits == <<"0", "1", "2", "3", "4", "5", "6", "7", "8", "9">>

\* What the application itself writes between its words.
Marks == ToSet(Digits) \cup {"(", ")", "/", "@", ":", "R", "T"}

Text == Seq(Rune)

Words == {"menu.title", "menu.timeline", "menu.about", "menu.quit",
          "timeline.title", "post", "nav.next", "nav.prev", "nav.back",
          "error.fetch", "error.empty", "error.choice",
          "session.ended", "about.body", "media.none"}

\* A status that boosts another has that other in boosts.
Statuses(boosts) ==
  [name : Text, acct : Text, content : Text, age : Text,
   media : Seq([type : Text, description : Text]), reblog : boosts]

ASSUME FediverseAssumption ==
  /\ Basic \cup Extended \subseteq Rune /\ Marks \subseteq Basic
  /\ {"[", "]"} \subseteq Extended
  /\ Spaces \cap ({"+"} \cup ToSet(Digits)) = {} /\ "." \notin Wide \cup Wider
  /\ T \in [Words -> Text]
  /\ MaxPostBytes \in Nat /\ MaxPostBytes >= 3
  /\ MaxHeaderLen \in Nat /\ MaxAnswers \in Nat /\ WidestPageCounter \in Nat \ {0}
  /\ Timelines \subseteq Seq(Statuses(Seq(Statuses({<<>>}))))
  /\ Subscriber \in Text \ {<<>>} /\ Subscriber[1] = "+"
  /\ Tail(Subscriber) \in Seq(ToSet(Digits)) \ {<<>>}
  /\ Inputs \subseteq Seq(Rune \ {"*"})

VARIABLES
  network,   \* the network the subscriber dials through
  answers,   \* what was typed since
  session,   \* the application's state in the gateway's session
  handset    \* what the subscriber sees

vars == <<network, answers, session, handset>>

\* fmt's %d and strconv.Itoa.
Decimal(n) ==
  LET written[k \in 0 .. n] ==
        IF k < 10 THEN <<Digits[k + 1]>>
        ELSE Append(written[k \div 10], Digits[(k % 10) + 1])
  IN written[n]

Joining(texts, sep) ==
  FlattenSeq([i \in DOMAIN texts |-> IF i = 1 THEN texts[1] ELSE sep \o texts[i]])

----------------------------------------------------------------------------
(* The Mastodon client: mastodon.go *)

Bytes(s) == Len(s) + 2 * Count(s, Wide) + 3 * Count(s, Wider)

\* Mutant: no room is kept for the marker.
CapBytesUnmarked(s, limit) ==
  IF Bytes(s) <= limit THEN s
  ELSE TrimRight(Take(s, CHOOSE n \in 0 .. Len(s) :
                           /\ Bytes(Take(s, n)) <= limit
                           /\ Bytes(Take(s, n + 1)) > limit)) \o Ellipsis

CapBytes(s, limit) ==
  IF Bytes(s) <= limit THEN s
  ELSE TrimRight(Take(s, CHOOSE n \in 0 .. Len(s) :
                           /\ Bytes(Take(s, n)) <= limit - 3
                           /\ Bytes(Take(s, n + 1)) > limit - 3)) \o Ellipsis

\* An attachment is its type and its description.
Media(att) ==
  LET desc == TrimSpace(att.description)
  IN <<" ", "[">> \o att.type \o <<":", " ">>
     \o (IF desc = <<>> THEN T["media.none"] ELSE desc) \o <<"]">>

\* A boost shows the status boosted, below the name of who boosted it.
ToPost(s) ==
  LET body == IF s.reblog = <<>> THEN s ELSE s.reblog[1]
      prefix == IF s.reblog = <<>> THEN <<>>
                ELSE <<"R", "T", " ", "@">> \o body.acct \o <<":", " ">>
      media == FlattenSeq([i \in DOMAIN body.media |-> Media(body.media[i])])
  IN [author |-> TrimSpace(IF TrimSpace(s.name) = <<>> THEN s.acct ELSE s.name),
      text |-> CapBytes(TrimSpace(prefix \o body.content \o media), MaxPostBytes),
      when |-> s.age]

----------------------------------------------------------------------------
(* The screens: main.go *)

Item(key, label) == [key |-> key, label |-> label]

Quit == Item(<<"0">>, T["menu.quit"])

MenuItems ==
  << Item(<<"1">>, T["menu.timeline"]), Item(<<"2">>, T["menu.about"]), Quit >>

MenuPrompt == Menu(T["menu.title"], MenuItems)

\* KeyAt(s, i, j): the word after the i-th rune, a blank or a break, is a key up to
\* the j-th, some digits before a dot and a blank.
KeyAt(s, i, j) ==
  /\ i < j
  /\ s[i] \in {" ", "\n"}
  /\ \A m \in i + 1 .. j : s[m] \in ToSet(Digits)
  /\ s[j + 1] = "." /\ s[j + 2] = " "

\* What reads as a key in a text.
KeysIn(s) ==
  UNION {{SubSeq(s, i + 1, j) : j \in {j \in i .. Len(s) - 2 : KeyAt(s, i, j)}} :
           i \in DOMAIN s}

\* The words of the language every session has, "en" (main.go:89-103): a control
\* says its key, in runes of one septet, "Post" is one line, and the menu, and a
\* timeline without posts, fit a screen below every notice they may have.  No
\* other word reads as a key, and each error is its own.
ASSUME WordsAssumption ==
  /\ \A control \in {"nav.next", "nav.prev", "nav.back"} : T[control] \in Seq(Basic)
  /\ IsPrefix(<<"1", ".", " ">>, T["nav.next"])
  /\ IsPrefix(<<"2", ".", " ">>, T["nav.prev"])
  /\ IsPrefix(<<"0", ".", " ">>, T["nav.back"])
  /\ T["post"] \in Seq(Basic \cup Extended) /\ T["post"] = OneLine(T["post"])
  /\ \A error \in {"error.choice", "error.fetch"} :
       FitsScreen(T[error] \o <<"\n">> \o T["menu.title"] \o Lines(MenuItems))
  /\ FitsScreen(T["error.choice"] \o <<"\n">> \o T["timeline.title"] \o Lines(<<Quit>>))
  /\ \A word \in {"menu.title", "timeline.title", "error.fetch", "error.empty", "error.choice"} :
       KeysIn(<<"\n">> \o T[word]) = {}
  /\ \A word \in {"menu.timeline", "menu.about", "menu.quit"} :
       KeysIn(<<" ">> \o OneLine(T[word])) = {}
  /\ KeysIn(<<"\n">> \o T["nav.next"] \o <<" ">>) = {<<"1">>}
  /\ KeysIn(<<"\n">> \o T["nav.prev"] \o <<" ">>) = {<<"2">>}
  /\ KeysIn(<<"\n">> \o T["nav.back"]) = {<<"0">>}
  /\ T["error.choice"] # <<>> /\ T["error.choice"] # T["error.fetch"]

TimelineItem(posts, i) ==
  LET label == Label(posts[i].author, MaxHeaderLen, T["post"] \o <<" ">> \o Decimal(i))
      when == posts[i].when
  IN Item(Decimal(i), IF when = <<>> THEN label
                      ELSE label \o <<" ", "(">> \o when \o <<")">>)

\* The notice is part of the title, so MenuFit measures the screen with it.
TimelineFit(posts, notice) ==
  MenuFit((IF notice = <<>> THEN <<>> ELSE notice \o <<"\n">>) \o T["timeline.title"],
          [i \in DOMAIN posts |-> TimelineItem(posts, i)],
          <<Quit>>)

PostHeader(post, page, pages) ==
  Label(post.author, MaxHeaderLen, T["post"])
  \o (IF pages > 1
      THEN <<" ", "(">> \o Decimal(page) \o <<"/">> \o Decimal(pages) \o <<")">>
      ELSE <<>>)

Nav(keys) == ToGSM(Joining([i \in DOMAIN keys |-> T[keys[i]]], <<" ">>))

\* The author line is bounded and the counter's widest form reserved, so that the
\* controls, and a rune of a page, are left on a screen (main.go:256-262).
ASSUME ReserveAssumption ==
  MaxHeaderLen + (4 + 2 * Len(Decimal(WidestPageCounter)))
    + Len(Nav(<<"nav.next", "nav.prev", "nav.back">>)) + 4
  <= Least(MaxUCS2Units, MaxSeptets)

\* Mutant: the page counter is not measured.
PostPagesUncounted(st) ==
  LET header == PostHeader(st.posts[st.cursor], 1, 1)
      nav == Nav(<<"nav.next", "nav.prev", "nav.back">>)
  IN Paginate(st.posts[st.cursor].text, Len(header) + Len(nav) + 2)

\* cursor counts from 1, page from 0.
PostPages(st) ==
  LET header == PostHeader(st.posts[st.cursor], WidestPageCounter, WidestPageCounter)
      nav == Nav(<<"nav.next", "nav.prev", "nav.back">>)
  IN IF st.cursor > Len(st.posts) THEN <<>>
     ELSE Paginate(st.posts[st.cursor].text, Len(header) + Len(nav) + 2)

\* A page offers the controls that lead somewhere.
PostPage(st, pages, page) ==
  LET keys == (IF page < Len(pages) - 1 THEN <<"nav.next">> ELSE <<>>)
              \o (IF page > 0 THEN <<"nav.prev">> ELSE <<>>)
              \o <<"nav.back">>
  IN PostHeader(st.posts[st.cursor], page + 1, Len(pages))
     \o <<"\n">> \o pages[page + 1] \o <<"\n">> \o Nav(keys)

PageShown(st, pages) == Least(st.page, Len(pages) - 1)

\* What a Prompt makes of the state, which two of them change.
Prompted(st, body) == [st |-> st, body |-> body]

PostPrompt(st, pages) ==
  IF pages = <<>> THEN Prompted(st, T["error.empty"])
  ELSE Prompted([st EXCEPT !.page = PageShown(st, pages)],
                PostPage(st, pages, PageShown(st, pages)))

TimelinePrompt(st, fit) == Prompted([st EXCEPT !.listed = fit.shown], fit.text)

\* Mutant: the timeline does not count what it lists.
PromptUncounted(st, notice) ==
  CASE st.screen = "menu" -> Prompted(st, MenuPrompt)
    [] st.screen = "timeline" -> Prompted(st, TimelineFit(st.posts, notice).text)
    [] st.screen = "post" -> PostPrompt(st, PostPages(st))
    [] st.screen = "about" -> Prompted(st, T["about.body"])

Prompt(st, notice) ==
  CASE st.screen = "menu" -> Prompted(st, MenuPrompt)
    [] st.screen = "timeline" -> TimelinePrompt(st, TimelineFit(st.posts, notice))
    [] st.screen = "post" -> PostPrompt(st, PostPages(st))
    [] st.screen = "about" -> Prompted(st, T["about.body"])

----------------------------------------------------------------------------
(* What a key does: the Handle of each screen *)

Stay(st, notice) == [st |-> st, notice |-> notice, ends |-> FALSE]
Goto(st, screen) == Stay([st EXCEPT !.screen = screen], <<>>)
Finish(st) == [st |-> st, notice |-> <<>>, ends |-> TRUE]

HandleMenu(st, input, fetched) ==
  CASE input = <<"1">> ->
         IF fetched = Unreachable THEN Stay(st, T["error.fetch"])
         ELSE Goto([st EXCEPT !.posts = [i \in DOMAIN fetched |-> ToPost(fetched[i])]],
                   "timeline")
    [] input = <<"2">> -> Goto(st, "about")
    [] input = <<"0">> -> Finish(st)
    [] OTHER -> Stay(st, T["error.choice"])

\* strconv.Atoi of the trimmed input, whose sign and zeros may lead: 0 where it
\* errs or is negative.
Number(input) ==
  LET trimmed == TrimSpace(input)
      digits == IF trimmed # <<>> /\ trimmed[1] = "+" THEN Tail(trimmed) ELSE trimmed
      value[n \in 0 .. Len(digits)] ==
        IF n = 0 THEN 0
        ELSE 10 * value[n - 1] + (CHOOSE k \in 0 .. 9 : digits[n] = Digits[k + 1])
  IN IF ToSet(digits) \subseteq ToSet(Digits) THEN value[Len(digits)] ELSE 0

\* Mutant: another post is opened on the page of the last one.
HandleTimelineKeepsPage(st, input) ==
  IF input = <<"0">> THEN Finish(st)
  ELSE IF Number(input) \notin 1 .. st.listed THEN Stay(st, T["error.choice"])
  ELSE Goto([st EXCEPT !.cursor = Number(input)], "post")

\* Only the posts listed may be chosen.
HandleTimeline(st, input) ==
  IF input = <<"0">> THEN Finish(st)
  ELSE IF Number(input) \notin 1 .. st.listed THEN Stay(st, T["error.choice"])
  ELSE Goto([st EXCEPT !.cursor = Number(input), !.page = 0], "post")

HandlePost(st, input) ==
  CASE input = <<"1">> /\ st.page < Len(PostPages(st)) - 1 ->
         Goto([st EXCEPT !.page = @ + 1], "post")
    [] input = <<"2">> /\ st.page > 0 -> Goto([st EXCEPT !.page = @ - 1], "post")
    [] input = <<"0">> -> Goto(st, "timeline")
    [] OTHER -> Stay(st, T["error.choice"])

Handle(st, input, fetched) ==
  CASE st.screen = "menu" -> HandleMenu(st, input, fetched)
    [] st.screen = "timeline" -> HandleTimeline(st, input)
    [] st.screen = "post" -> HandlePost(st, input)

----------------------------------------------------------------------------
(* A turn: the gateway's session, App.Turn and render *)

Blank(msisdn) == [msisdn |-> msisdn, screen |-> "menu", posts |-> <<>>,
                  cursor |-> 1, page |-> 0, listed |-> 0]

\* Another subscriber's session is not resumed.
Resumed(ev) ==
  IF session = NoSession \/ session.msisdn # ev.msisdn THEN Blank(ev.msisdn)
  ELSE session

Noticed(notice, body) ==
  IF notice = <<>> \/ IsPrefix(notice, body) THEN body
  ELSE notice \o <<"\n">> \o body

\* What render stores and shows below a notice, cut to a screen: the one screen
\* without a Handle ends the dialogue.
Rendered(notice, prompt) ==
  LET body == Shrink(Noticed(notice, prompt.body))
  IN IF prompt.st.screen = "about"
     THEN [session |-> NoSession, handset |-> [shows |-> "end", body |-> body]]
     ELSE [session |-> prompt.st, handset |-> [shows |-> "menu", body |-> body]]

Settled(done) ==
  IF done.ends
  THEN [session |-> NoSession,
        handset |-> [shows |-> "end", body |-> Shrink(T["session.ended"])]]
  ELSE Rendered(done.notice, Prompt(done.st, done.notice))

Turn(ev, fetched) ==
  LET st == Resumed(ev)
  IN Settled(IF ev.phase = "begin" \/ ev.path = <<>> THEN Stay(st, <<>>)
             ELSE Handle(st, ev.path[Len(ev.path)], fetched))

\* The number with its plus, with the blank an unescaped plus decodes to, and
\* without.
Numbers == {Subscriber, <<" ">> \o Tail(Subscriber), Tail(Subscriber)}

\* What the adapter makes of a callback that carries the inputs typed, with the
\* number in any notation and the phase as far as the network has one.
Events(inputs, phase) ==
  IF network = "africastalking"
  THEN {AfricasTalkingParse([phoneNumber |-> number, text |-> Joined(inputs)]) :
          number \in Numbers}
  ELSE {SimulatorParse([msisdn |-> Subscriber, path |-> inputs, phase |-> sent]) :
          sent \in IF phase = "cancel" THEN {phase} ELSE {phase, NoPhase}}

DialogueEvents(inputs) ==
  Events(inputs, IF inputs = <<>> THEN "begin" ELSE "continue")

\* Only the menu fetches, so the instance's answer matters to no other screen.
Fetches ==
  IF session # NoSession /\ session.screen # "menu" THEN {Unreachable}
  ELSE Timelines \cup {Unreachable}

Callback(inputs) ==
  \E ev \in DialogueEvents(inputs), fetched \in Fetches :
    /\ Valid(ev)
    /\ \E turn \in {Turn(ev, fetched)} :
         session' = turn.session /\ handset' = turn.handset

Init ==
  /\ network \in Networks
  /\ answers = <<>>
  /\ session = NoSession
  /\ handset = [shows |-> "nothing"]

\* Every dialogue has a session id of its own; the one before has expired.
Dial ==
  /\ handset.shows # "menu"
  /\ answers' = <<>>
  /\ session = NoSession
  /\ Callback(<<>>)
  /\ UNCHANGED network

Reply(input) ==
  /\ handset.shows = "menu"
  /\ Len(answers) < MaxAnswers
  /\ answers' = Append(answers, IF network = "simulator" THEN TrimSpace(input) ELSE input)
  /\ Callback(answers')
  /\ UNCHANGED network

\* The simulator cancels the dialogue and the gateway releases the session.
\* Africa's Talking says nothing, and the session waits for its expiry.
HangUp ==
  /\ handset.shows = "menu"
  /\ handset' = [shows |-> "nothing"]
  /\ IF network = "africastalking" THEN UNCHANGED session
     ELSE /\ \E ev \in Events(answers, "cancel") : Valid(ev) /\ Terminal(ev)
          /\ session' = NoSession
  /\ UNCHANGED <<network, answers>>

Expire ==
  /\ session # NoSession
  /\ session' = NoSession
  /\ UNCHANGED <<network, answers, handset>>

Next == Dial \/ (\E input \in Inputs : Reply(input)) \/ HangUp \/ Expire

Spec == Init /\ [][Next]_vars

----------------------------------------------------------------------------
(* Properties *)

\* Every variable has its type: a stored dialogue is on a page that exists, of
\* a post that was fetched, and no post exceeds its share of the session.
TypeOK ==
  /\ network \in Networks
  /\ Len(answers) <= MaxAnswers
  /\ handset.shows \in {"nothing", "menu", "end"}
  /\ session # NoSession =>
       /\ session.screen \in {"menu", "timeline", "post"}
       /\ session.listed \in 0 .. Len(session.posts)
       /\ \A i \in DOMAIN session.posts : Bytes(session.posts[i].text) <= MaxPostBytes
       /\ session.screen = "post" =>
            /\ session.cursor \in 1 .. session.listed
            /\ session.page \in {0} \cup 0 .. Len(PostPages(session)) - 1

\* Reads(t): the text is somewhere on the handset.
Reads(t) ==
  \E i \in 0 .. Len(handset.body) - Len(t) :
    SubSeq(handset.body, i + 1, i + Len(t)) = t

KeysShown == KeysIn(<<"\n">> \o handset.body)

\* The numbers a screen may name that the one that gets the next answer does not
\* call invalid.
KeysTaken ==
  {key \in {Decimal(n) : n \in 0 .. Len(session.posts) + 2} :
     Handle(session, key, Unreachable).notice # T["error.choice"]}

Answerable == handset.shows = "menu" /\ session # NoSession

\* What the instance's authors write does not itself read as a key where it is
\* shown: a name in the list, and a header and a page of a post.
PlainPosts ==
  /\ session.screen = "timeline" =>
       \A i \in DOMAIN session.posts :
         KeysIn(<<" ">> \o OneLine(TimelineItem(session.posts, i).label)) = {}
  /\ session.screen = "post" =>
       /\ KeysIn(<<"\n">> \o PostHeader(session.posts[session.cursor], 1, 2)) = {}
       /\ \A page \in ToSet(PostPages(session)) : KeysIn(<<"\n">> \o page) = {}

(***************************************************************************)
(* A key the subscriber can read is one the screen takes, on every page,   *)
(* below every notice, however the lists and pages were cut and whatever   *)
(* was cut off (main.go:180-186, 201-206: the count tells the handler      *)
(* which keys are real), as long as no author's own words read as a key.   *)
(***************************************************************************)
ShownKeysAreTaken == Answerable /\ PlainPosts => KeysShown \subseteq KeysTaken

(***************************************************************************)
(* And a key the screen takes is one the subscriber can read               *)
(* (main.go:184-186, 201-206, 219-221), on a post as far as its reserve    *)
(* measures what is on the screen: no notice above it, no page counter     *)
(* wider than the widest, no name with runes that cost two septets, and a  *)
(* text at all.                                                            *)
(***************************************************************************)
MeasuredByReserve ==
  session.screen = "post" =>
    /\ session.posts[session.cursor].text # <<>>
    /\ Len(PostPages(session)) <= WidestPageCounter
    /\ Count(PostHeader(session.posts[session.cursor], 1, 1), Extended) = 0
    /\ handset.body = Shrink(Prompt(session, <<>>).body)

TakenKeysAreShown ==
  Answerable /\ MeasuredByReserve => KeysTaken \subseteq KeysShown

(***************************************************************************)
(* Measured so, a post is on the screen whole: the author's header, the    *)
(* page the session is on, and every control that leads somewhere          *)
(* (main.go:268-311).  The reserve leaves nothing to Shrink, which would   *)
(* lose what no other page holds.                                          *)
(***************************************************************************)
PostsAreShownWhole ==
  Answerable /\ session.screen = "post" /\ MeasuredByReserve =>
    /\ PostPages(session) # <<>>
    /\ handset.body = PostPage(session, PostPages(session), session.page)

(***************************************************************************)
(* A key does what it says where the subscriber reads it: Next and Prev    *)
(* turn one page of the same post, Back returns to the posts fetched, an   *)
(* entry of the list opens that post on its first page, Quit ends, and the *)
(* menu leads to the timeline, unless the fetch fails, or ends with the    *)
(* text about (main.go:129-241), as long as the session lives and no       *)
(* author's words read as a key, whichever network carries the answer and  *)
(* however it notates the number.                                          *)
(***************************************************************************)
LastKeyDoesWhatItSays ==
  LET typed == answers'[Len(answers')]
      says(screen, key) == session.screen = screen /\ typed = key /\ key \in KeysShown
  IN /\ says("post", Decimal(1)) => session' = [session EXCEPT !.page = @ + 1]
     /\ says("post", Decimal(2)) => session' = [session EXCEPT !.page = @ - 1]
     /\ says("post", Decimal(0)) =>
          session'.screen = "timeline" /\ session'.posts = session.posts
     /\ \A i \in DOMAIN session.posts :
          says("timeline", Decimal(i)) =>
            /\ session' = [session EXCEPT !.screen = "post", !.cursor = i, !.page = 0]
            /\ handset'.body = Shrink(Prompt(session', <<>>).body)
     /\ says("timeline", Decimal(0)) \/ says("menu", Decimal(0)) => handset'.shows = "end"
     /\ says("menu", Decimal(2)) => handset'.shows = "end"
     /\ says("menu", Decimal(1)) =>
          \/ session'.screen = "timeline"
          \/ session' = session /\ IsPrefix(T["error.fetch"], handset'.body)

KeysDoWhatTheySay ==
  [][ Answerable /\ PlainPosts /\ answers' # answers /\ answers' # <<>>
        => LastKeyDoesWhatItSays ]_vars

(***************************************************************************)
(* An event carries the dialogue: every answer given, empty ones included, *)
(* for the one subscriber, and begins when there is none                   *)
(* (africastalking/adapter.go:147-174, simulator/adapter.go:85-91).  The   *)
(* exception is Africa's Talking's: a first answer that is empty makes the *)
(* text field empty, and reads as a dialogue that begins.                  *)
(***************************************************************************)
EventIsTheDialogue ==
  \A ev \in DialogueEvents(answers) :
    /\ Valid(ev)
    /\ ev.msisdn = Subscriber
    /\ \/ /\ ev.path = answers
          /\ ev.phase = "begin" <=> answers = <<>>
       \/ network = "africastalking" /\ answers = << <<>> >>

(***************************************************************************)
(* main.go:315-316: the author line is bounded "so a long display name     *)
(* cannot push the navigation controls off the bottom of the screen".  On  *)
(* a post with a text, below no notice, the way back is on the screen.     *)
(***************************************************************************)
NamesLeaveTheControls ==
  /\ Answerable
  /\ session.screen = "post"
  /\ PostPages(session) # <<>>
  /\ ~IsPrefix(T["error.choice"], handset.body)
  => Reads(T["nav.back"])
=============================================================================
