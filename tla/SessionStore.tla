---------------------------- MODULE SessionStore ----------------------------
(***************************************************************************)
(* The contract of session.Store (gateway/internal/session/store.go) for   *)
(* callers that overlap: every call takes effect at one moment between its *)
(* invocation and its return.  The one thing time may still change is the  *)
(* answer of a Load not yet returned, which may expire in its hands.       *)
(***************************************************************************)
CONSTANTS Callers, Keys, Sessions, NoSession, Pending

VARIABLES
  session,  \* the live session of each key, or NoSession
  call      \* each caller's call in progress

vars == <<session, call>>

Idle == [op |-> "idle"]

Init ==
  /\ session = [k \in Keys |-> NoSession]
  /\ call = [p \in Callers |-> Idle]

Set(p, c) == call' = [call EXCEPT ![p] = c]

Put(k, s) == session' = [session EXCEPT ![k] = s]

Invoke(p) ==
  /\ call[p] = Idle
  /\ \E k \in Keys :
       \/ Set(p, [op |-> "load", key |-> k, answer |-> Pending])
       \/ \E s \in Sessions : Set(p, [op |-> "save", key |-> k, session |-> s])
       \/ Set(p, [op |-> "delete", key |-> k])
  /\ UNCHANGED session

\* ErrNotFound is the answer NoSession.
Load(p) ==
  /\ call[p].op = "load"
  /\ call[p].answer = Pending
  /\ Set(p, [call[p] EXCEPT !.answer = session[call[p].key]])
  /\ UNCHANGED session

Save(p) ==
  /\ call[p].op = "save"
  /\ Put(call[p].key, call[p].session)
  /\ Set(p, [op |-> "done"])

\* Deleting an absent session is not an error.
Delete(p) ==
  /\ call[p].op = "delete"
  /\ Put(call[p].key, NoSession)
  /\ Set(p, [op |-> "done"])

Return(p) ==
  /\ \/ call[p].op = "done"
     \/ call[p].op = "load" /\ call[p].answer # Pending
  /\ Set(p, Idle)
  /\ UNCHANGED session

\* Time passes: sessions K, and what the loads P have read, are too old.
Expire(K, P) ==
  /\ session' = [k \in Keys |-> IF k \in K THEN NoSession ELSE session[k]]
  /\ call' = [p \in Callers |->
                IF p \in P THEN [call[p] EXCEPT !.answer = NoSession]
                ELSE call[p]]

Answered == {p \in Callers : call[p].op = "load" /\ call[p].answer # Pending}

Next ==
  \/ \E p \in Callers :
       Invoke(p) \/ Load(p) \/ Save(p) \/ Delete(p) \/ Return(p)
  \/ \E K \in SUBSET Keys, P \in SUBSET Answered : Expire(K, P)

Spec == Init /\ [][Next]_vars
=============================================================================
