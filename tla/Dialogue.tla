------------------------------ MODULE Dialogue ------------------------------
(***************************************************************************)
(* What the gateway promises about the session behind each dialogue,       *)
(* whatever its goroutines, store and network do: every turn takes the     *)
(* session from one screen to the next in one step.                        *)
(*                                                                         *)
(* A turn either continues the dialogue of one subscriber with one tenant, *)
(* counting one screen more, or starts a dialogue at screen one with       *)
(* nothing of the earlier one.  Between turns a session may only vanish.   *)
(***************************************************************************)
EXTENDS Naturals

CONSTANTS Keys, Subscribers, Tenants, NoSession, NoState

VARIABLE session

Init == session = [k \in Keys |-> NoSession]

\* A state blob written by the tenant in this very turn.
Written(t, m, n) == [owner |-> t, msisdn |-> m, turn |-> n]

\* The stored session is kept for the next turn, with the state as it was,
\* cleared, or replaced by the tenant's.
Continue(k) ==
  /\ session[k] # NoSession
  /\ LET s == session[k]
         n == s.turn + 1
     IN \E blob \in {s.state, NoState, Written(s.tenant, s.msisdn, n)} :
          session' = [session EXCEPT ![k].turn = n, ![k].state = blob]

\* A first screen: nothing stored, or another subscriber's or tenant's session.
Start(k) ==
  \E m \in Subscribers, t \in Tenants :
    /\ session[k] # NoSession =>
         session[k].msisdn # m \/ session[k].tenant # t
    /\ \E blob \in {NoState, Written(t, m, 1)} :
         session' = [session EXCEPT ![k] = [tenant |-> t, msisdn |-> m,
                                            turn |-> 1, state |-> blob]]

\* Sessions end, expire, or are lost in a restart.
Drop(K) ==
  session' = [k \in Keys |-> IF k \in K THEN NoSession ELSE session[k]]

Next ==
  \/ \E k \in Keys : Continue(k) \/ Start(k)
  \/ \E K \in SUBSET Keys : Drop(K)

Spec == Init /\ [][Next]_session
=============================================================================
