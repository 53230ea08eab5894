-------------------------------- MODULE App --------------------------------
(***************************************************************************)
(* An application on the SDK (sdk/go/app.go, handler.go) behind the        *)
(* gateway: it keeps nothing between turns but the blob the gateway stores *)
(* for it, which names the screen the subscriber is looking at.            *)
(*                                                                         *)
(* One subscriber dials one application.  A gateway turn is one step here: *)
(* Gateway shows that its turns are atomic for a network that waits for    *)
(* its answers.                                                            *)
(***************************************************************************)
EXTENDS Naturals, Sequences

CONSTANTS
  Names,        \* of screens
  Langs, DefaultLang,
  Versions,     \* deployments of the application
  First,        \* the one deployed first
  NoSession,    \* the gateway has no session
  NoState,      \* a nil state
  Same,         \* an Action without Next; a Handle that leaves Lang alone
  NoText,       \* an Action without Text
  Notice,       \* the Text of a Stay or a Finish
  SessionEnded  \* the text of a dialogue that ends without one

CONSTANTS
  Faults,       \* the store operations that may fail
  Expiry,       \* the session may expire between turns
  Retries,      \* a response may be lost and its callback repeated
  Reuses,       \* the network reuses the session id of a failed dialogue
  Deploys,      \* a new version may meet dialogues in flight
  MaxData       \* bound: what Handles have added to the data

\* What a Handle may do with an input: the Action it returns, the language it
\* leaves in the context, and what it adds to the application's data.
Outcome == [next: Names \cup {Same}, text: {NoText, Notice}, end: BOOLEAN,
            lang: Langs \cup {Same}, adds: {0, 1}]

\* NewApp: the screens declared, those of them with a Handle (asks), the start
\* screen, the schema of the state, and what each Handle may do.
NewAppAccepts(v) ==
  /\ v.screens \subseteq Names
  /\ v.start \in v.screens
  /\ v.asks \subseteq v.screens
  /\ v.exits \in [v.asks -> SUBSET Outcome]

ASSUME AppAssumption ==
  /\ Faults \subseteq {"load", "save", "delete"}
  /\ First \in Versions
  /\ \A v \in Versions : NewAppAccepts(v)
  /\ DefaultLang \in Langs

VARIABLES
  version,   \* the version deployed
  session,   \* the blob in the gateway's session of this dialogue
  handset,   \* what the subscriber sees
  pending    \* the callback whose response was lost, if any

vars == <<version, session, handset, pending>>

Init ==
  /\ version = First
  /\ session = NoSession
  /\ handset = [shows |-> "nothing"]
  /\ pending = "none"

----------------------------------------------------------------------------
(* App.Turn *)

\* The SDK's blob, state[S], labelled with the version that wrote it.
State == [by: Versions, screen: Names, lang: Langs, data: Nat]

Blank == [by |-> version, screen |-> version.start, lang |-> DefaultLang,
          data |-> 0]

\* The prompt of a screen in a language, rendered from the data.
Prompts == [screen: Names, lang: Langs, data: Nat]

ASSUME SentinelAssumption ==
  /\ NoSession \notin State
  /\ NoState \notin State
  /\ Notice \notin Prompts

Unreadable(stored) == stored.by.schema # version.schema

\* Corrupt state restarts the dialogue; absent state starts it.
Decoded(stored) ==
  IF stored = NoState \/ Unreadable(stored) THEN Blank ELSE stored

\* The handler answers 500, and the gateway's error screen is shown.
Failure == [failed |-> TRUE]

Ended(text) == [failed |-> FALSE, end |-> TRUE, body |-> <<text>>,
                state |-> NoState]

Prompt(name, st) == [screen |-> name, lang |-> st.lang, data |-> st.data]

Encoded(name, st) == [st EXCEPT !.screen = name, !.by = version]

\* Mutant: the notice is put above a prompt that has placed it.
PlacedTwice(name, st, notice) ==
  IF notice = NoText THEN {<<Prompt(name, st)>>}
  ELSE {<<notice, Prompt(name, st)>>, <<notice, notice, Prompt(name, st)>>}

\* The bodies a Prompt may give.  One that did not place the notice itself has
\* it prepended.
Bodies(name, st, notice) ==
  IF notice = NoText THEN {<<Prompt(name, st)>>}
  ELSE LET prompted == {<<Prompt(name, st)>>, <<notice, Prompt(name, st)>>}
       IN {IF body[1] = notice THEN body ELSE <<notice>> \o body :
             body \in prompted}

\* Mutants: a screen with no Handle does not end the dialogue; the state of
\* one that has is not returned.
RenderNeverEnds(name, st, notice) ==
  {[failed |-> FALSE, end |-> FALSE, body |-> body,
    state |-> Encoded(name, st)] : body \in Bodies(name, st, notice)}

RenderLosesState(name, st, notice) ==
  {[failed |-> FALSE, end |-> name \notin version.asks, body |-> body,
    state |-> NoState] : body \in Bodies(name, st, notice)}

\* render: a Prompt may fail; a screen with no Handle ends the dialogue.
Render(name, st, notice) ==
  {Failure} \cup
  {[failed |-> FALSE, end |-> name \notin version.asks, body |-> body,
    state |-> IF name \in version.asks THEN Encoded(name, st) ELSE NoState] :
     body \in Bodies(name, st, notice)}

\* What follows the Handle of st.screen doing o.
Follow(o, st) ==
  LET after == [st EXCEPT !.lang = IF o.lang = Same THEN @ ELSE o.lang,
                          !.data = @ + o.adds]
      next == IF o.next = Same THEN st.screen ELSE o.next
  IN IF o.end
     THEN {Ended(IF o.text = NoText THEN SessionEnded ELSE o.text)}
     ELSE IF next \notin version.screens
     THEN {Failure}
     ELSE Render(next, after, o.text)

\* Everything a turn may answer to a first screen (begins) or to an input.
Turn(begins, stored) ==
  LET st == Decoded(stored)
  IN CASE st.screen \notin version.screens -> {Failure}
       [] st.screen \in version.screens /\ begins ->
            Render(st.screen, st, NoText)
       [] st.screen \in version.screens \ version.asks /\ ~begins ->
            {Ended(SessionEnded)}
       [] OTHER ->
            {Failure} \cup UNION {Follow(o, st) : o \in version.exits[st.screen]}

\* Handler.ServeHTTP: a request that is unsigned, stale, too long, malformed or
\* of another protocol version is refused, and the gateway reads no 200.
Serve(begins, stored) == {Failure} \cup Turn(begins, stored)

----------------------------------------------------------------------------
(* The gateway's turn around it *)

Error == [shows |-> "error"]

\* Mutant: the screen is served although Save has failed.
RepliedUnsaved(reply, held) ==
  IF reply.failed
  THEN {[session |-> held, handset |-> Error]}
  ELSE {[session |-> s,
         handset |-> [shows |-> IF reply.end THEN "end" ELSE "menu",
                      body |-> reply.body]] :
          s \in {held, IF reply.end THEN NoSession ELSE reply.state}}

\* A reply is shown once its state is saved, or the session of an ended
\* dialogue deleted.  A failed operation may have been applied; a failed Save
\* fails the turn, a failed Delete does not.
Replied(reply, held) ==
  CASE reply.failed -> {[session |-> held, handset |-> Error]}
    [] ~reply.failed /\ reply.end ->
         {[session |-> s, handset |-> [shows |-> "end", body |-> reply.body]] :
            s \in {NoSession} \cup {x \in {held} : "delete" \in Faults}}
    [] ~reply.failed /\ ~reply.end ->
         {[session |-> reply.state,
           handset |-> [shows |-> "menu", body |-> reply.body]]}
         \cup {[session |-> s, handset |-> Error] :
                 s \in {x \in {held, reply.state} : "save" \in Faults}}

\* The session a callback finds: a new session id has none.
Held(begins) == IF begins /\ ~Reuses THEN NoSession ELSE session

\* The turn's effects, with its response shown.
Outcomes(begins) ==
  LET held == Held(begins)
      found == {IF held = NoSession THEN NoState ELSE held}
               \cup {s \in {NoState} : "load" \in Faults}
  IN UNION {Replied(reply, held) :
              reply \in UNION {Serve(begins, stored) : stored \in found}}

Callback(kind) ==
  /\ \E r \in Outcomes(kind = "dial") :
       /\ session' = r.session
       /\ \/ handset' = r.handset /\ pending' = "none"
          \/ Retries /\ handset' = handset /\ pending' = kind
  /\ UNCHANGED version

Dial ==
  /\ pending = "none"
  /\ handset.shows # "menu"
  /\ Callback("dial")

Answer ==
  /\ pending = "none"
  /\ handset.shows = "menu"
  /\ session # NoSession => session.data < MaxData
  /\ Callback("answer")

\* The network repeats a callback it has had no response to.
Retry ==
  /\ pending # "none"
  /\ session # NoSession => session.data < MaxData
  /\ Callback(pending)

\* A cancel or a timeout, which the application does not see.
HangUp ==
  /\ handset.shows = "menu" \/ pending # "none"
  /\ session' \in {NoSession} \cup {s \in {session} : "delete" \in Faults}
  /\ handset' = [shows |-> "nothing"]
  /\ pending' = "none"
  /\ UNCHANGED version

Expire ==
  /\ Expiry
  /\ session' = NoSession
  /\ UNCHANGED <<version, handset, pending>>

Deploy ==
  /\ Deploys
  /\ version' \in Versions
  /\ UNCHANGED <<session, handset, pending>>

Next == Dial \/ Answer \/ Retry \/ HangUp \/ Expire \/ Deploy

Spec == Init /\ [][Next]_vars

----------------------------------------------------------------------------
(* Properties *)

\* Every variable has its type: a session always holds a state of the SDK's,
\* and a menu ends with the prompt of a screen.
TypeOK ==
  /\ version \in Versions
  /\ session \in State \cup {NoSession}
  /\ handset.shows \in {"nothing", "menu", "end", "error"}
  /\ handset.shows = "menu" =>
       handset.body \in Seq(Prompts \cup {Notice}) \ {<<>>}
  /\ pending \in {"none", "dial", "answer"}

(***************************************************************************)
(* The screen a session names takes input in the version that stored it:   *)
(* as long as that version runs no dialogue reaches the branches of Turn   *)
(* for a screen that is gone or one without a Handle (app.go:196-199,      *)
(* 208-212), however callbacks are repeated and store operations fail.     *)
(***************************************************************************)
StoredScreenAsks == session # NoSession => session.screen \in session.by.asks

(***************************************************************************)
(* The subscriber who reads a menu is on the stored screen, in the stored  *)
(* language, and sees the stored data: what is typed next goes to the      *)
(* Handle of the screen it was typed on (app.go:214, 260-261), whatever    *)
(* was lost, repeated, redeployed or failed before, unless the session has *)
(* expired.                                                                *)
(***************************************************************************)
ShownIsStored ==
  pending = "none" /\ handset.shows = "menu" /\ session # NoSession =>
    handset.body[Len(handset.body)] =
      [screen |-> session.screen, lang |-> session.lang, data |-> session.data]

(***************************************************************************)
(* Behind a network that repeats nothing the application behaves as if it  *)
(* kept the subscriber's place itself: a Stay keeps screen, language and   *)
(* data and puts its notice once above the prompt, a Goto moves, an end    *)
(* forgets (app.go:175-273), even when Prompts, Handles, Saves and Deletes *)
(* fail.                                                                   *)
(***************************************************************************)
Walk == INSTANCE ScreenWalk WITH Application <- First

WalksTheScreens == Walk!Spec
=============================================================================
