----------------------------- MODULE ScreenWalk -----------------------------
(***************************************************************************)
(* What an application built on the SDK promises its subscriber: to behave *)
(* as if it sat in the handset and kept the screen, the language and the   *)
(* application's data there.  Every input is handled by the screen it was  *)
(* typed on, and what that screen decides is shown next.                   *)
(***************************************************************************)
EXTENDS Naturals, Sequences

\* Application is [screens, asks, start, exits], as in App.
CONSTANTS Application, DefaultLang, Same, NoText, SessionEnded

VARIABLE handset

Init == handset = [shows |-> "nothing"]

\* A notice, if any, above a screen in a language, rendered from the data.  A
\* screen that handles no input ends the dialogue.
Display(name, lang, data, notice) ==
  handset' =
    [shows |-> IF name \in Application.asks THEN "menu" ELSE "end",
     body |-> (IF notice = NoText THEN <<>> ELSE <<notice>>)
              \o <<[screen |-> name, lang |-> lang, data |-> data]>>]

Dial ==
  /\ handset.shows # "menu"
  /\ Display(Application.start, DefaultLang, 0, NoText)

Answer ==
  /\ handset.shows = "menu"
  /\ LET at == handset.body[Len(handset.body)]
     IN \E o \in Application.exits[at.screen] :
          IF o.end
          THEN handset' = [shows |-> "end",
                           body |-> <<IF o.text = NoText THEN SessionEnded
                                      ELSE o.text>>]
          ELSE Display(IF o.next = Same THEN at.screen ELSE o.next,
                       IF o.lang = Same THEN at.lang ELSE o.lang,
                       at.data + o.adds, o.text)

\* The application, the gateway or its store fails; the dialogue is over.
Fail == handset' = [shows |-> "error"]

HangUp == handset' = [shows |-> "nothing"]

Next == Dial \/ Answer \/ Fail \/ HangUp

Spec == Init /\ [][Next]_handset
=============================================================================
