------------------------------ MODULE AppProofs ------------------------------
(***************************************************************************)
(* Proofs about App, for every application, deployment and failure.        *)
(***************************************************************************)
EXTENDS App, SequenceTheorems, TLAPS

\* What a reply of the SDK is made of: a failure, the end of the dialogue, or
\* a menu and the state that says which menu it was.
Sound(reply) ==
  \/ reply.failed
  \/ /\ ~reply.failed
     /\ reply.end
  \/ /\ ~reply.failed
     /\ ~reply.end
     /\ reply.state \in State
     /\ reply.state.by = version
     /\ reply.state.screen \in version.asks
     /\ reply.body \in Seq(Prompts \cup {Notice})
     /\ reply.body # <<>>
     /\ reply.body[Len(reply.body)] = Prompt(reply.state.screen, reply.state)

\* NewApp has checked the version deployed.
LEMMA VersionAccepted ==
  ASSUME version \in Versions
  PROVE  /\ version.screens \subseteq Names
         /\ version.start \in version.screens
         /\ version.asks \subseteq version.screens
         /\ version.exits \in [version.asks -> SUBSET Outcome]
BY AppAssumption DEF NewAppAccepts

\* Decoded gives a state, whatever was stored (app.go:176-194).
LEMMA DecodedIsState ==
  ASSUME version \in Versions, NEW stored \in State \cup {NoState}
  PROVE  Decoded(stored) \in State
BY VersionAccepted, AppAssumption DEF Decoded, Blank, State

\* A body ends with its prompt, with or without a notice above it.
LEMMA BodyEndsWithPrompt ==
  ASSUME NEW name \in Names, NEW st \in State, NEW notice \in {NoText, Notice},
         NEW body \in Bodies(name, st, notice)
  PROVE  /\ body \in Seq(Prompts \cup {Notice})
         /\ body # <<>>
         /\ body[Len(body)] = Prompt(name, st)
<1> DEFINE prompt == Prompt(name, st)
           Parts == Prompts \cup {Notice}
<1>1. prompt \in Parts
  BY DEF Prompt, Prompts, State
<1>2. \/ body = <<prompt>>
      \/ notice = Notice /\ body \in {<<notice, prompt>>, <<notice>> \o <<prompt>>}
  <2>1. CASE notice = NoText
    BY <2>1 DEF Bodies
  <2>2. CASE notice # NoText
    <3>1. PICK b \in {<<prompt>>, <<notice, prompt>>} :
            body = IF b[1] = notice THEN b ELSE <<notice>> \o b
      BY <2>2 DEF Bodies
    <3>2. <<notice, prompt>>[1] = notice
      OBVIOUS
    <3> QED
      BY <2>2, <3>1, <3>2
  <2> QED
    BY <2>1, <2>2
<1>3. CASE body = <<prompt>>
  BY <1>1, <1>3
<1>4. CASE notice = Notice /\ body = <<notice, prompt>>
  BY <1>1, <1>4
<1>5. CASE notice = Notice /\ body = <<notice>> \o <<prompt>>
  <2> HIDE DEF prompt, Parts
  <2>1. /\ <<Notice>> \o <<prompt>> \in Seq(Parts)
        /\ Len(<<Notice>> \o <<prompt>>) = 2
        /\ (<<Notice>> \o <<prompt>>)[2] = prompt
    BY <1>1 DEF Parts
  <2>2. <<Notice>> \o <<prompt>> # <<>>
    BY <2>1
  <2> QED
    BY <1>5, <2>1, <2>2 DEF Parts, prompt
<1> QED
  BY <1>2, <1>3, <1>4, <1>5

\* render returns sound replies (app.go:240-273).
LEMMA RenderIsSound ==
  ASSUME version \in Versions, NEW name \in version.screens, NEW st \in State,
         NEW notice \in {NoText, Notice}, NEW reply \in Render(name, st, notice)
  PROVE  Sound(reply)
<1>1. name \in Names
  BY VersionAccepted
<1>2. CASE reply = Failure
  BY <1>2 DEF Failure, Sound
<1>3. CASE reply # Failure
  <2>1. PICK body \in Bodies(name, st, notice) :
          reply = [failed |-> FALSE, end |-> name \notin version.asks,
                   body |-> body,
                   state |-> IF name \in version.asks
                             THEN Encoded(name, st) ELSE NoState]
    BY <1>3 DEF Render
  <2>2. /\ body \in Seq(Prompts \cup {Notice})
        /\ body # <<>>
        /\ body[Len(body)] = Prompt(name, st)
    BY <1>1, BodyEndsWithPrompt
  <2>3. CASE name \notin version.asks
    BY <2>1, <2>3 DEF Sound
  <2>4. CASE name \in version.asks
    <3>1. /\ reply.state = [st EXCEPT !.screen = name, !.by = version]
          /\ reply.body = body /\ reply.failed = FALSE /\ reply.end = FALSE
      BY <2>1, <2>4 DEF Encoded
    <3>2. /\ reply.state \in State
          /\ reply.state.by = version
          /\ reply.state.screen = name
          /\ Prompt(name, st) = Prompt(reply.state.screen, reply.state)
      BY <1>1, <3>1 DEF State, Prompt
    <3> QED
      BY <2>2, <2>4, <3>1, <3>2 DEF Sound
  <2> QED
    BY <2>3, <2>4
<1> QED
  BY <1>2, <1>3

\* Turn returns sound replies, whatever the state it is given (app.go:175-236).
LEMMA TurnIsSound ==
  ASSUME version \in Versions, NEW begins \in BOOLEAN,
         NEW stored \in State \cup {NoState}, NEW reply \in Turn(begins, stored)
  PROVE  Sound(reply)
<1> DEFINE st == Decoded(stored)
<1>1. st \in State
  BY DecodedIsState
<1>2. CASE reply = Failure
  BY <1>2 DEF Failure, Sound
<1>3. CASE \E text : reply = Ended(text)
  BY <1>3 DEF Ended, Sound
<1>4. CASE st.screen \in version.screens /\ reply \in Render(st.screen, st, NoText)
  BY <1>1, <1>4, RenderIsSound
<1>5. CASE /\ st.screen \in version.asks
           /\ \E o \in version.exits[st.screen] : reply \in Follow(o, st)
  <2>1. PICK o \in version.exits[st.screen] : reply \in Follow(o, st)
    BY <1>5
  <2>2. o \in Outcome
    BY <1>5, <2>1, VersionAccepted
  <2> DEFINE after == [st EXCEPT !.lang = IF o.lang = Same THEN @ ELSE o.lang,
                                 !.data = @ + o.adds]
             next == IF o.next = Same THEN st.screen ELSE o.next
  <2>3. after \in State
    <3>1. /\ (IF o.lang = Same THEN st.lang ELSE o.lang) \in Langs
          /\ st.data + o.adds \in Nat
      BY <1>1, <2>2 DEF State, Outcome
    <3> HIDE DEF st
    <3> QED
      BY <1>1, <3>1 DEF State
  <2>4. o.text \in {NoText, Notice}
    BY <2>2 DEF Outcome
  <2>5. CASE o.end
    BY <2>1, <2>5 DEF Follow, Ended, Sound
  <2>6. CASE ~o.end /\ next \notin version.screens
    BY <2>1, <2>6 DEF Follow, Failure, Sound
  <2>7. CASE ~o.end /\ next \in version.screens
    <3>1. reply \in Render(next, after, o.text)
      BY <2>1, <2>7 DEF Follow
    <3> HIDE DEF after, next
    <3> QED
      BY <2>3, <2>4, <2>7, <3>1, RenderIsSound
  <2> QED
    BY <2>5, <2>6, <2>7
<1>6. \/ reply = Failure
      \/ \E text : reply = Ended(text)
      \/ st.screen \in version.screens /\ reply \in Render(st.screen, st, NoText)
      \/ /\ st.screen \in version.asks
         /\ \E o \in version.exits[st.screen] : reply \in Follow(o, st)
  BY DEF Turn
<1> QED
  BY <1>2, <1>3, <1>4, <1>5, <1>6

----------------------------------------------------------------------------
(* The gateway's turn *)

\* What a turn leaves: a menu is shown only with its own state saved, and a
\* session is the one found, a new one on a screen that asks, or none.
Remembered(r) ==
  /\ r.session \in State \cup {NoSession}
  /\ \/ r.session \in {NoSession, session}
     \/ r.session.by = version /\ r.session.screen \in version.asks
  /\ r.handset.shows \in {"nothing", "menu", "end", "error"}
  /\ r.handset.shows = "menu" =>
       /\ r.handset.body \in Seq(Prompts \cup {Notice}) \ {<<>>}
       /\ r.session \in State
       /\ r.handset.body[Len(r.handset.body)] = Prompt(r.session.screen, r.session)

\* The gateway saves before it shows (inbound.go:180-193).
LEMMA RepliedIsRemembered ==
  ASSUME TypeOK, NEW held \in {NoSession, session}, NEW reply, Sound(reply),
         NEW r \in Replied(reply, held)
  PROVE  Remembered(r)
<1>1. CASE reply.failed
  BY <1>1 DEF Replied, Remembered, Error, TypeOK
<1>2. CASE ~reply.failed /\ reply.end
  BY <1>2 DEF Replied, Remembered, TypeOK
<1>3. CASE ~reply.failed /\ ~reply.end
  <2>1. /\ reply.state \in State
        /\ reply.state.by = version
        /\ reply.state.screen \in version.asks
        /\ reply.body \in Seq(Prompts \cup {Notice}) \ {<<>>}
        /\ reply.body[Len(reply.body)] = Prompt(reply.state.screen, reply.state)
    BY <1>3 DEF Sound
  <2>2. CASE r = [session |-> reply.state,
                  handset |-> [shows |-> "menu", body |-> reply.body]]
    BY <2>1, <2>2 DEF Remembered
  <2>3. CASE \E s \in {held, reply.state} : r = [session |-> s, handset |-> Error]
    BY <2>1, <2>3 DEF Remembered, Error, TypeOK
  <2> QED
    BY <1>3, <2>2, <2>3 DEF Replied
<1> QED
  BY <1>1, <1>2, <1>3

LEMMA OutcomeIsRemembered ==
  ASSUME TypeOK, NEW begins \in BOOLEAN, NEW r \in Outcomes(begins)
  PROVE  Remembered(r)
<1> DEFINE held == Held(begins)
<1>1. held \in {NoSession, session}
  BY DEF Held
<1>2. PICK stored \in State \cup {NoState} :
        \E reply \in Serve(begins, stored) : r \in Replied(reply, held)
  BY <1>1 DEF Outcomes, TypeOK
<1>3. PICK reply \in Serve(begins, stored) : r \in Replied(reply, held)
  BY <1>2
<1>4. Sound(reply)
  BY <1>3, TurnIsSound DEF TypeOK, Serve, Failure, Sound
<1> QED
  BY <1>1, <1>3, <1>4, RepliedIsRemembered

----------------------------------------------------------------------------
(***************************************************************************)
(* Type correctness: what the gateway holds for an SDK application is      *)
(* always a state the SDK wrote, and a menu always ends with the prompt of *)
(* a screen.                                                               *)
(***************************************************************************)
THEOREM AppTypeCorrect == Spec => []TypeOK
<1>1. Init => TypeOK
  BY AppAssumption DEF Init, TypeOK
<1>2. TypeOK /\ [Next]_vars => TypeOK'
  <2> SUFFICES ASSUME TypeOK, [Next]_vars PROVE TypeOK'
    OBVIOUS
  <2>1. ASSUME NEW kind \in {"dial", "answer"}, Callback(kind) PROVE TypeOK'
    <3>1. PICK r \in Outcomes(kind = "dial") :
            /\ session' = r.session
            /\ \/ handset' = r.handset /\ pending' = "none"
               \/ Retries /\ handset' = handset /\ pending' = kind
      BY <2>1 DEF Callback
    <3>2. Remembered(r)
      BY OutcomeIsRemembered
    <3> QED
      BY <2>1, <3>1, <3>2 DEF Callback, Remembered, TypeOK
  <2>2. CASE Dial
    BY <2>1, <2>2 DEF Dial
  <2>3. CASE Answer
    BY <2>1, <2>3 DEF Answer
  <2>4. CASE Retry
    BY <2>1, <2>4 DEF Retry, TypeOK
  <2>5. CASE HangUp
    BY <2>5 DEF HangUp, TypeOK
  <2>6. CASE Expire
    BY <2>6 DEF Expire, TypeOK
  <2>7. CASE Deploy
    BY <2>7 DEF Deploy, TypeOK
  <2>8. CASE UNCHANGED vars
    BY <2>8 DEF vars, TypeOK
  <2> QED
    BY <2>2, <2>3, <2>4, <2>5, <2>6, <2>7, <2>8 DEF Next
<1> QED
  BY <1>1, <1>2, PTL DEF Spec

(***************************************************************************)
(* No turn of the version that stored a screen finds that it cannot take   *)
(* the input, whatever is lost, repeated, expired, failed or deployed.     *)
(***************************************************************************)
THEOREM StoredScreensAsk == Spec => []StoredScreenAsks
<1>1. Init => StoredScreenAsks
  BY DEF Init, StoredScreenAsks
<1>2. TypeOK /\ StoredScreenAsks /\ [Next]_vars => StoredScreenAsks'
  <2> SUFFICES ASSUME TypeOK, StoredScreenAsks, [Next]_vars
               PROVE  StoredScreenAsks'
    OBVIOUS
  <2>1. ASSUME NEW kind, Callback(kind) PROVE StoredScreenAsks'
    <3>1. PICK r \in Outcomes(kind = "dial") : session' = r.session
      BY <2>1 DEF Callback
    <3>2. Remembered(r)
      BY OutcomeIsRemembered
    <3> QED
      BY <2>1, <3>1, <3>2 DEF Callback, Remembered, StoredScreenAsks
  <2>2. CASE Dial
    BY <2>1, <2>2 DEF Dial
  <2>3. CASE Answer
    BY <2>1, <2>3 DEF Answer
  <2>4. CASE Retry
    BY <2>1, <2>4 DEF Retry
  <2>5. CASE HangUp
    BY <2>5 DEF HangUp, StoredScreenAsks
  <2>6. CASE Expire
    BY <2>6 DEF Expire, StoredScreenAsks
  <2>7. CASE Deploy
    BY <2>7 DEF Deploy, StoredScreenAsks
  <2>8. CASE UNCHANGED vars
    BY <2>8 DEF vars, StoredScreenAsks
  <2> QED
    BY <2>2, <2>3, <2>4, <2>5, <2>6, <2>7, <2>8 DEF Next
<1> QED
  BY <1>1, <1>2, AppTypeCorrect, PTL DEF Spec

(***************************************************************************)
(* Until its session expires the subscriber's menu is always the stored    *)
(* screen, over retries, reused ids, failures and deployments.             *)
(***************************************************************************)
THEOREM ShownScreensAreStored == Spec => []ShownIsStored
<1>1. Init => ShownIsStored
  BY DEF Init, ShownIsStored
<1>2. TypeOK /\ ShownIsStored /\ [Next]_vars => ShownIsStored'
  <2> SUFFICES ASSUME TypeOK, ShownIsStored, [Next]_vars
               PROVE  ShownIsStored'
    OBVIOUS
  <2>1. ASSUME NEW kind, kind # "none", Callback(kind) PROVE ShownIsStored'
    <3>1. PICK r \in Outcomes(kind = "dial") :
            /\ session' = r.session
            /\ \/ handset' = r.handset /\ pending' = "none"
               \/ pending' = kind
      BY <2>1 DEF Callback
    <3>2. Remembered(r)
      BY OutcomeIsRemembered
    <3>3. CASE pending' = kind
      BY <2>1, <3>3 DEF ShownIsStored
    <3>4. CASE handset' = r.handset
      BY <3>1, <3>2, <3>4, SentinelAssumption DEF Remembered, ShownIsStored, Prompt
    <3> QED
      BY <3>1, <3>3, <3>4
  <2>2. CASE Dial
    BY <2>1, <2>2 DEF Dial
  <2>3. CASE Answer
    BY <2>1, <2>3 DEF Answer
  <2>4. CASE Retry
    BY <2>1, <2>4 DEF Retry
  <2>5. CASE HangUp
    BY <2>5 DEF HangUp, ShownIsStored
  <2>6. CASE Expire
    BY <2>6 DEF Expire, ShownIsStored
  <2>7. CASE Deploy
    BY <2>7 DEF Deploy, ShownIsStored
  <2>8. CASE UNCHANGED vars
    BY <2>8 DEF vars, ShownIsStored
  <2> QED
    BY <2>2, <2>3, <2>4, <2>5, <2>6, <2>7, <2>8 DEF Next
<1> QED
  BY <1>1, <1>2, AppTypeCorrect, PTL DEF Spec

----------------------------------------------------------------------------
(* An application that keeps the subscriber's place *)

\* Behind a network that repeats nothing, while sessions are kept, a menu has a
\* session, of the version that runs.
OwnSession ==
  /\ version = First
  /\ pending = "none"
  /\ session # NoSession => session.by = First
  /\ handset.shows = "menu" => session # NoSession

Walking == TypeOK /\ StoredScreenAsks /\ ShownIsStored /\ OwnSession

LEMMA StepOwnSession ==
  ASSUME ~Expiry, ~Retries, ~Deploys, TypeOK, OwnSession, [Next]_vars
  PROVE  OwnSession'
<1>1. ASSUME NEW kind, Callback(kind) PROVE OwnSession'
  <2>1. PICK r \in Outcomes(kind = "dial") :
          session' = r.session /\ handset' = r.handset /\ pending' = "none"
    BY <1>1 DEF Callback
  <2>2. Remembered(r)
    BY OutcomeIsRemembered
  <2> QED
    BY <1>1, <2>1, <2>2, SentinelAssumption DEF Callback, Remembered, OwnSession
<1>2. CASE Dial \/ Answer \/ Retry
  BY <1>1, <1>2 DEF Dial, Answer, Retry
<1>3. CASE HangUp
  BY <1>3 DEF HangUp, OwnSession
<1>4. CASE Expire \/ Deploy \/ UNCHANGED vars
  BY <1>4 DEF Expire, Deploy, vars, OwnSession
<1> QED
  BY <1>2, <1>3, <1>4 DEF Next

\* The notice, if any, is shown once, above the prompt.
Shown(notice, prompt) ==
  (IF notice = NoText THEN <<>> ELSE <<notice>>) \o <<prompt>>

LEMMA PairIsConcat ==
  ASSUME NEW S, NEW a \in S, NEW b \in S
  PROVE  <<a>> \o <<b>> = <<a, b>>
<1>1. /\ <<a>> \o <<b>> \in Seq(S) /\ Len(<<a>> \o <<b>>) = 2
      /\ (<<a>> \o <<b>>)[1] = a /\ (<<a>> \o <<b>>)[2] = b
  OBVIOUS
<1>2. <<a, b>> \in Seq(S) /\ Len(<<a, b>>) = 2 /\ <<a, b>>[1] = a /\ <<a, b>>[2] = b
  OBVIOUS
<1>3. \A i \in 1 .. 2 : (<<a>> \o <<b>>)[i] = <<a, b>>[i]
  BY <1>1, <1>2
<1> QED
  BY <1>1, <1>2, <1>3, SeqEqual

LEMMA RenderDisplays ==
  ASSUME NEW name \in Names, NEW st \in State, NEW notice \in {NoText, Notice},
         NEW reply \in Render(name, st, notice), ~reply.failed
  PROVE  /\ reply.end = (name \notin version.asks)
         /\ reply.body = Shown(notice, Prompt(name, st))
<1> DEFINE prompt == Prompt(name, st)
<1>1. prompt \in Prompts
  BY DEF Prompt, Prompts, State
<1>2. PICK body \in Bodies(name, st, notice) :
        reply = [failed |-> FALSE, end |-> name \notin version.asks,
                 body |-> body,
                 state |-> IF name \in version.asks
                           THEN Encoded(name, st) ELSE NoState]
  BY DEF Render, Failure
<1>3. CASE notice = NoText
  <2>1. body = <<prompt>>
    BY <1>3 DEF Bodies
  <2>2. <<>> \o <<prompt>> = <<prompt>>
    BY <1>1
  <2> QED
    BY <1>2, <1>3, <2>1, <2>2 DEF Shown
<1>4. CASE notice # NoText
  <2>1. PICK b \in {<<prompt>>, <<notice, prompt>>} :
          body = IF b[1] = notice THEN b ELSE <<notice>> \o b
    BY <1>4 DEF Bodies
  <2>2. prompt # notice
    BY <1>1, <1>4, SentinelAssumption
  <2>3. <<notice>> \o <<prompt>> = <<notice, prompt>>
    BY <1>1, <1>4, PairIsConcat, notice \in Prompts \cup {Notice}
  <2>4. body = <<notice>> \o <<prompt>>
    <3> HIDE DEF prompt
    <3>1. <<prompt>>[1] = prompt /\ <<notice, prompt>>[1] = notice
      OBVIOUS
    <3> QED
      BY <2>1, <2>2, <2>3, <3>1
  <2> QED
    BY <1>2, <1>4, <2>4 DEF Shown
<1> QED
  BY <1>3, <1>4

\* What the handset shows is a reply, or the error screen.
LEMMA RepliedShows ==
  ASSUME NEW held, NEW reply, NEW r \in Replied(reply, held)
  PROVE  \/ r.handset = Error
         \/ /\ ~reply.failed
            /\ r.handset = [shows |-> IF reply.end THEN "end" ELSE "menu",
                            body |-> reply.body]
<1>1. CASE reply.failed
  BY <1>1 DEF Replied
<1>2. CASE ~reply.failed /\ reply.end
  BY <1>2 DEF Replied
<1>3. CASE ~reply.failed /\ ~reply.end
  BY <1>3 DEF Replied
<1> QED
  BY <1>1, <1>2, <1>3

\* A dialogue begins on the start screen with nothing of an earlier one.
LEMMA DialWalks ==
  ASSUME ~Reuses, ~Retries, Walking, Dial
  PROVE  Walk!Dial \/ Walk!Fail
<1>1. version \in Versions /\ version = First
  BY DEF Walking, TypeOK, OwnSession
<1>2. PICK r \in Outcomes(TRUE) : handset' = r.handset
  BY DEF Dial, Callback
<1>3. PICK reply \in Serve(TRUE, NoState) : r \in Replied(reply, NoSession)
  BY <1>2 DEF Outcomes, Held
<1>4. Decoded(NoState) = Blank /\ Blank \in State /\ Blank.screen = First.start
      /\ First.start \in First.screens /\ First.start \in Names
  BY <1>1, VersionAccepted, DecodedIsState DEF Decoded, Blank
<1>5. reply \in Render(First.start, Blank, NoText) \cup {Failure}
  BY <1>1, <1>3, <1>4 DEF Serve, Turn
<1>6. CASE r.handset = Error
  BY <1>2, <1>6 DEF Walk!Fail, Error
<1>7. CASE /\ ~reply.failed
           /\ r.handset = [shows |-> IF reply.end THEN "end" ELSE "menu",
                           body |-> reply.body]
  <2>1. /\ reply.end = (First.start \notin First.asks)
        /\ reply.body = Shown(NoText, Prompt(First.start, Blank))
    BY <1>1, <1>4, <1>5, <1>7, RenderDisplays DEF Failure
  <2>2. Prompt(First.start, Blank)
          = [screen |-> First.start, lang |-> DefaultLang, data |-> 0]
    BY DEF Prompt, Blank
  <2> QED
    BY <1>2, <1>7, <2>1, <2>2 DEF Dial, Walk!Dial, Walk!Display, Shown
<1> QED
  BY <1>3, <1>6, <1>7, RepliedShows

\* An input is handled by the screen it was typed on, and what that screen
\* decides is shown next.
LEMMA TurnDecides ==
  ASSUME Walking, handset.shows = "menu", NEW reply \in Turn(FALSE, session),
         ~reply.failed
  PROVE  \E o \in First.exits[session.screen] :
           IF o.end
           THEN reply.end /\ reply.body = <<IF o.text = NoText THEN SessionEnded ELSE o.text>>
           ELSE LET name == IF o.next = Same THEN session.screen ELSE o.next
                IN /\ reply.end = (name \notin First.asks)
                   /\ reply.body =
                        Shown(o.text,
                              [screen |-> name, data |-> session.data + o.adds,
                               lang |-> IF o.lang = Same THEN session.lang ELSE o.lang])
<1>1. /\ version = First /\ version \in Versions
      /\ session \in State /\ session.by = First /\ session.screen \in First.asks
  BY DEF Walking, TypeOK, StoredScreenAsks, OwnSession
<1>2. Decoded(session) = session
  BY <1>1, SentinelAssumption DEF Decoded, Unreadable
<1>3. session.screen \in First.screens
  BY <1>1, VersionAccepted
<1>4. reply \in UNION {Follow(o, session) : o \in First.exits[session.screen]}
  BY <1>1, <1>2, <1>3 DEF Turn, Failure
<1>5. PICK o \in First.exits[session.screen] : reply \in Follow(o, session)
  BY <1>4
<1>6. o \in Outcome
  BY <1>1, <1>5, VersionAccepted
<1> DEFINE lang == IF o.lang = Same THEN session.lang ELSE o.lang
           after == [session EXCEPT !.lang = lang, !.data = session.data + o.adds]
           name == IF o.next = Same THEN session.screen ELSE o.next
<1>7. CASE o.end
  BY <1>5, <1>7 DEF Follow, Ended
<1>8. CASE ~o.end
  <2>1. name \in First.screens /\ reply \in Render(name, after, o.text)
    BY <1>1, <1>5, <1>8 DEF Follow, Failure
  <2>2. /\ after \in State
        /\ after.lang = lang /\ after.data = session.data + o.adds
    <3>1. lang \in Langs /\ session.data + o.adds \in Nat
      BY <1>1, <1>6 DEF State, Outcome
    <3> HIDE DEF lang
    <3> QED
      BY <1>1, <3>1 DEF State
  <2>3. name \in Names /\ o.text \in {NoText, Notice}
    BY <1>1, <1>6, <2>1, VersionAccepted DEF Outcome
  <2>4. /\ reply.end = (name \notin First.asks)
        /\ reply.body = Shown(o.text, Prompt(name, after))
    <3> HIDE DEF name, after
    <3> QED
      BY <1>1, <2>1, <2>2, <2>3, RenderDisplays
  <2>5. Prompt(name, after) = [screen |-> name, data |-> session.data + o.adds, lang |-> lang]
    <3> HIDE DEF name, after, lang
    <3> QED
      BY <2>2 DEF Prompt
  <2> QED
    BY <1>8, <2>4, <2>5
<1> QED
  BY <1>7, <1>8

LEMMA AnswerWalks ==
  ASSUME ~Retries, "load" \notin Faults, Walking, Answer
  PROVE  Walk!Answer \/ Walk!Fail
<1>1. /\ version = First /\ version \in Versions /\ handset.shows = "menu"
      /\ session \in State /\ session # NoSession
      /\ handset.body[Len(handset.body)] =
           [screen |-> session.screen, lang |-> session.lang, data |-> session.data]
  BY DEF Walking, TypeOK, OwnSession, ShownIsStored, Answer
<1>2. PICK r \in Outcomes(FALSE) : handset' = r.handset
  BY DEF Answer, Callback
<1>3. PICK reply \in Serve(FALSE, session) : r \in Replied(reply, session)
  BY <1>1, <1>2 DEF Outcomes, Held
<1>4. reply = Failure \/ reply \in Turn(FALSE, session)
  BY <1>3 DEF Serve
<1>5. CASE r.handset = Error
  BY <1>2, <1>5 DEF Walk!Fail, Error
<1>6. CASE /\ ~reply.failed
           /\ r.handset = [shows |-> IF reply.end THEN "end" ELSE "menu",
                           body |-> reply.body]
  <2>1. reply \in Turn(FALSE, session)
    <3>1. Failure.failed
      BY DEF Failure
    <3> QED
      BY <1>4, <1>6, <3>1
  <2>2. PICK o \in First.exits[session.screen] :
           IF o.end
           THEN reply.end /\ reply.body = <<IF o.text = NoText THEN SessionEnded ELSE o.text>>
           ELSE LET name == IF o.next = Same THEN session.screen ELSE o.next
                IN /\ reply.end = (name \notin First.asks)
                   /\ reply.body =
                        Shown(o.text,
                              [screen |-> name, data |-> session.data + o.adds,
                               lang |-> IF o.lang = Same THEN session.lang ELSE o.lang])
    BY <1>1, <1>6, <2>1, TurnDecides
  <2> DEFINE at == handset.body[Len(handset.body)]
             name == IF o.next = Same THEN at.screen ELSE o.next
             lang == IF o.lang = Same THEN at.lang ELSE o.lang
  <2>3. at.screen = session.screen /\ at.lang = session.lang /\ at.data = session.data
    BY <1>1
  <2>4. CASE o.end
    <3>1. handset' = [shows |-> "end",
                      body |-> <<IF o.text = NoText THEN SessionEnded ELSE o.text>>]
      BY <1>2, <1>6, <2>2, <2>4
    <3> QED
      BY <1>1, <2>3, <2>4, <3>1 DEF Walk!Answer
  <2>5. CASE ~o.end
    <3>1. handset' = [shows |-> IF name \in First.asks THEN "menu" ELSE "end",
                      body |-> Shown(o.text, [screen |-> name, lang |-> lang,
                                              data |-> at.data + o.adds])]
      BY <1>2, <1>6, <2>2, <2>3, <2>5
    <3>2. Walk!Display(name, lang, at.data + o.adds, o.text)
      BY <3>1 DEF Walk!Display, Shown
    <3> QED
      BY <1>1, <2>3, <2>5, <3>2 DEF Walk!Answer
  <2> QED
    BY <2>4, <2>5
<1> QED
  BY <1>3, <1>5, <1>6, RepliedShows

(***************************************************************************)
(* Behind a network that repeats nothing, and while loads do not fail and  *)
(* sessions neither expire nor meet another version, the application keeps *)
(* its subscriber's place as if it sat in the handset.                     *)
(***************************************************************************)
THEOREM ApplicationWalks ==
  ASSUME ~Expiry, ~Retries, ~Reuses, ~Deploys, "load" \notin Faults
  PROVE  Spec => WalksTheScreens
<1>1. Init => OwnSession /\ Walk!Init
  BY DEF Init, OwnSession, Walk!Init
<1>2. TypeOK /\ OwnSession /\ [Next]_vars => OwnSession'
  BY StepOwnSession
<1>3. Walking /\ [Next]_vars => [Walk!Next]_handset
  <2> SUFFICES ASSUME Walking, [Next]_vars PROVE [Walk!Next]_handset
    OBVIOUS
  <2>1. CASE Retry
    BY <2>1 DEF Retry, Walking, OwnSession
  <2>2. CASE HangUp
    BY <2>2 DEF HangUp, Walk!HangUp, Walk!Next
  <2>3. CASE Expire \/ Deploy \/ UNCHANGED vars
    BY <2>3 DEF Expire, Deploy, vars
  <2> QED
    BY <2>1, <2>2, <2>3, DialWalks, AnswerWalks DEF Next, Walk!Next
<1> QED
  BY <1>1, <1>2, <1>3, AppTypeCorrect, StoredScreensAsk, ShownScreensAreStored, PTL
  DEF Spec, Walking, WalksTheScreens, Walk!Spec
=============================================================================
