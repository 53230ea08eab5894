------------------------------ MODULE Adapters ------------------------------
(***************************************************************************)
(* How a callback becomes an event: the Africa's Talking adapter           *)
(* (africastalking/adapter.go), the simulator's (simulator/adapter.go) and *)
(* the checks every event passes (canonical/event.go).                     *)
(*                                                                         *)
(* Texts are sequences of characters, as in ScreenBudget; a subscriber's   *)
(* answers are texts without a star.  Fields that are only copied or       *)
(* trimmed (session id, shortcode, network code) are left out.             *)
(***************************************************************************)
EXTENDS ScreenBudget

Networks == {"africastalking", "simulator"}

Phases == {"begin", "continue", "cancel", "timeout"}

----------------------------------------------------------------------------
(* Africa's Talking *)

\* The text field: the answers so far, joined with stars.
Joined(answers) ==
  FlattenSeq([i \in DOMAIN answers |->
                IF i = 1 THEN answers[1] ELSE <<"*">> \o answers[i]])

\* The segments between the stars.
Segments(text) ==
  LET split[n \in 0 .. Len(text)] ==
        IF n = 0 THEN << <<>> >>
        ELSE IF text[n] = "*" THEN Append(split[n - 1], <<>>)
        ELSE [split[n - 1] EXCEPT ![Len(split[n - 1])] = Append(@, text[n])]
  IN split[Len(text)]

\* Mutant: empty segments are filtered out.
SplitPathFiltered(text) == SelectSeq(Segments(text), LAMBDA seg : seg # <<>>)

\* An empty segment is an answer like any other, an empty text is none.
SplitPath(text) == IF text = <<>> THEN <<>> ELSE Segments(text)

PhaseFor(text) == IF text = <<>> THEN "begin" ELSE "continue"

\* Mutant: the number is kept as it is sent.
NormaliseMSISDNTrims(s) == TrimSpace(s)

\* One subscriber has one key, whether or not the leading plus survived.
NormaliseMSISDN(s) ==
  LET trimmed == TrimSpace(s)
  IN IF trimmed = <<>> \/ trimmed[1] = "+" THEN trimmed
     ELSE <<"+">> \o trimmed

AfricasTalkingParse(form) ==
  [msisdn |-> NormaliseMSISDN(form.phoneNumber),
   path |-> SplitPath(form.text),
   phase |-> PhaseFor(form.text)]

----------------------------------------------------------------------------
(* The simulator: the canonical shape, with a phase that may be left out *)

NoPhase == ""

SimulatorParse(request) ==
  [msisdn |-> request.msisdn,
   path |-> request.path,
   phase |-> IF request.phase # NoPhase THEN request.phase
             ELSE IF request.path = <<>> THEN "begin" ELSE "continue"]

----------------------------------------------------------------------------
\* Event.Validate, without which Parse errs.
Valid(ev) ==
  /\ ev.msisdn # <<>>
  /\ ev.phase \in Phases
  /\ ev.phase = "begin" => ev.path = <<>>
  /\ \A i \in DOMAIN ev.path : "*" \notin ToSet(ev.path[i])

Terminal(ev) == ev.phase \in {"cancel", "timeout"}
=============================================================================
