-------------------------- MODULE MemoryStoreProofs --------------------------
(***************************************************************************)
(* The in-process store implements session.Store, for any number of        *)
(* goroutines, keys and sessions and any TTL.                              *)
(***************************************************************************)
EXTENDS MemoryStore, TLAPS

\* A clock reading in some goroutine's hands is not ahead of the clock, and a
\* deadline about to be written is still ahead of it.
Readings ==
  /\ \A p \in Callers :
       At(p, "write") => caller[p].now <= clock /\ clock < caller[p].now + TTL
  /\ sweeper.pc = "evict" => sweeper.now <= clock

IInv == TypeOK /\ Readings

----------------------------------------------------------------------------
LEMMA HeldType ==
  ASSUME NEW item \in Item \cup {NoSession}, NEW now
  PROVE  Held(item, now) \in Sessions \cup {NoSession}
BY DEF Held, Item

LEMMA InitTypeOK == Init => TypeOK
<1> SUFFICES ASSUME Init PROVE TypeOK
  OBVIOUS
<1>1. Idle \in CallerState
  BY DEF Idle, CallerState
<1>2. [pc |-> "wait"] \in [pc: {"wait", "stopped"}] \cup [pc: {"evict"}, now: Nat]
  OBVIOUS
<1>3. caller \in [Callers -> CallerState]
  BY <1>1, Zenon DEF Init
<1>4. items \in [Keys -> Item \cup {NoSession}] /\ clock \in Nat
  BY DEF Init
<1> QED
  BY <1>2, <1>3, <1>4 DEF Init, TypeOK

LEMMA StepTypeOK == TypeOK /\ [Next]_vars => TypeOK'
<1> SUFFICES ASSUME TypeOK, [Next]_vars PROVE TypeOK'
  OBVIOUS
<1> DEFINE SweeperState == [pc: {"wait", "stopped"}] \cup [pc: {"evict"}, now: Nat]
<1>0. /\ items \in [Keys -> Item \cup {NoSession}]
      /\ clock \in Nat
      /\ caller \in [Callers -> CallerState]
      /\ sweeper \in SweeperState
      /\ closed \in BOOLEAN
  BY DEF TypeOK
<1>1. ASSUME NEW p \in Callers, Invoke(p) PROVE TypeOK'
  <2>1. PICK state \in CallerState : Goto(p, state)
    BY <1>1 DEF Invoke, CallerState
  <2> QED
    BY <1>0, <1>1, <2>1 DEF Invoke, Goto, TypeOK
<1>2. ASSUME NEW p \in Callers, LoadRead(p) PROVE TypeOK'
  <2>1. caller[p].key \in Keys
    BY <1>0, <1>2 DEF LoadRead, At, CallerState
  <2>2. [pc |-> "check", key |-> caller[p].key, item |-> items[caller[p].key]]
          \in CallerState
    BY <1>0, <2>1 DEF CallerState
  <2> QED
    BY <1>0, <1>2, <2>2 DEF LoadRead, Goto, TypeOK
<1>3. ASSUME NEW p \in Callers, LoadCheck(p) PROVE TypeOK'
  <2>1. caller[p].key \in Keys /\ caller[p].item \in Item \cup {NoSession}
    BY <1>0, <1>3 DEF LoadCheck, At, CallerState
  <2>2. [pc |-> "loaded", key |-> caller[p].key,
         answer |-> Held(caller[p].item, clock)] \in CallerState
    BY <2>1, HeldType DEF CallerState
  <2> QED
    BY <1>0, <1>3, <2>2 DEF LoadCheck, Goto, TypeOK
<1>4. ASSUME NEW p \in Callers, SaveClock(p) PROVE TypeOK'
  <2>1. caller[p].key \in Keys /\ caller[p].session \in Sessions
    BY <1>0, <1>4 DEF SaveClock, At, CallerState
  <2>2. [pc |-> "write", key |-> caller[p].key, session |-> caller[p].session,
         now |-> clock] \in CallerState
    BY <1>0, <2>1 DEF CallerState
  <2> QED
    BY <1>0, <1>4, <2>2 DEF SaveClock, Goto, TypeOK
<1>5. ASSUME NEW p \in Callers, SaveWrite(p) PROVE TypeOK'
  <2>1. /\ caller[p].key \in Keys /\ caller[p].session \in Sessions
        /\ caller[p].now \in Nat
    BY <1>0, <1>5 DEF SaveWrite, At, CallerState
  <2>2. [session |-> caller[p].session, expiresAt |-> caller[p].now + TTL] \in Item
    BY <2>1, TimeAssumption DEF Item
  <2>3. [pc |-> "done"] \in CallerState
    BY DEF CallerState
  <2> QED
    BY <1>0, <1>5, <2>2, <2>3 DEF SaveWrite, Goto, TypeOK
<1>6. ASSUME NEW p \in Callers, Delete(p) PROVE TypeOK'
  <2>1. [pc |-> "done"] \in CallerState
    BY DEF CallerState
  <2> QED
    BY <1>0, <1>6, <2>1 DEF Delete, Goto, TypeOK
<1>7. ASSUME NEW p \in Callers, Return(p) PROVE TypeOK'
  <2>1. Idle \in CallerState
    BY DEF Idle, CallerState
  <2> QED
    BY <1>0, <1>7, <2>1 DEF Return, Goto, TypeOK
<1>8. CASE SweepClock
  BY <1>0, <1>8 DEF SweepClock, TypeOK
<1>9. CASE SweepEvict
  BY <1>0, <1>9 DEF SweepEvict, TypeOK
<1>10. CASE SweepStop \/ Close
  <2>1. [pc |-> "stopped"] \in SweeperState
    OBVIOUS
  <2> QED
    BY <1>0, <1>10, <2>1 DEF SweepStop, Close, TypeOK
<1>11. CASE Tick \/ UNCHANGED vars
  BY <1>0, <1>11 DEF Tick, vars, TypeOK
<1> QED
  BY <1>1, <1>2, <1>3, <1>4, <1>5, <1>6, <1>7, <1>8, <1>9, <1>10, <1>11 DEF Next, Sweep

LEMMA InitReadings == Init => Readings
BY DEF Init, Readings, At, Idle

LEMMA StepReadings == IInv /\ [Next]_vars => Readings'
<1> SUFFICES ASSUME IInv, [Next]_vars PROVE Readings'
  OBVIOUS
<1>0. TypeOK /\ Readings
  BY DEF IInv
<1>1. ASSUME NEW p \in Callers, NEW state, Goto(p, state), state.pc # "write",
             UNCHANGED <<clock, sweeper>>
      PROVE  Readings'
  BY <1>0, <1>1 DEF Readings, At, Goto, TypeOK
<1>2. ASSUME NEW p \in Callers, Invoke(p) PROVE Readings'
  <2>0. UNCHANGED <<clock, sweeper>>
    BY <1>2 DEF Invoke
  <2>1. PICK k \in Keys :
          \/ Goto(p, [pc |-> "load", key |-> k])
          \/ \E s \in Sessions : Goto(p, [pc |-> "save", key |-> k, session |-> s])
          \/ Goto(p, [pc |-> "delete", key |-> k])
    BY <1>2 DEF Invoke
  <2>2. CASE Goto(p, [pc |-> "load", key |-> k])
    BY <1>1, <2>0, <2>2
  <2>3. CASE Goto(p, [pc |-> "delete", key |-> k])
    BY <1>1, <2>0, <2>3
  <2>4. ASSUME NEW s \in Sessions, Goto(p, [pc |-> "save", key |-> k, session |-> s])
        PROVE  Readings'
    BY <1>1, <2>0, <2>4
  <2> QED
    BY <2>1, <2>2, <2>3, <2>4
<1>3. ASSUME NEW p \in Callers, LoadRead(p) \/ LoadCheck(p) \/ SaveWrite(p) \/ Delete(p)
      PROVE  Readings'
  BY <1>1, <1>3 DEF LoadRead, LoadCheck, SaveWrite, Delete
<1>4. ASSUME NEW p \in Callers, Return(p) PROVE Readings'
  BY <1>1, <1>4 DEF Return, Idle
<1>5. ASSUME NEW p \in Callers, SaveClock(p) PROVE Readings'
  <2>1. clock <= clock /\ clock < clock + TTL
    BY <1>0, TimeAssumption DEF TypeOK
  <2> QED
    BY <1>0, <1>5, <2>1 DEF SaveClock, Goto, Readings, At, TypeOK
<1>6. CASE SweepClock
  <2>1. clock <= clock
    BY <1>0 DEF TypeOK
  <2> QED
    BY <1>0, <1>6, <2>1 DEF SweepClock, Readings, At
<1>7. CASE SweepEvict \/ SweepStop \/ Close \/ UNCHANGED vars
  BY <1>0, <1>7 DEF SweepEvict, SweepStop, Close, vars, Readings, At
<1>8. CASE Tick
  <2>1. ASSUME NEW p \in Callers, caller[p].pc = "write"
        PROVE  caller[p].now <= clock + 1 /\ clock + 1 < caller[p].now + TTL
    <3>1. caller[p].now \in Nat /\ clock \in Nat
      BY <1>0, <2>1 DEF TypeOK, CallerState
    <3>2. caller[p].now <= clock /\ clock + 1 < caller[p].now + TTL
      BY <1>0, <1>8, <2>1 DEF Tick, Readings, At
    <3> QED
      BY <3>1, <3>2
  <2>2. ASSUME sweeper.pc = "evict" PROVE sweeper.now <= clock + 1
    <3>1. sweeper.now \in Nat /\ clock \in Nat /\ sweeper.now <= clock
      BY <1>0, <2>2 DEF TypeOK, Readings
    <3> QED
      BY <3>1
  <2> QED
    BY <1>8, <2>1, <2>2 DEF Tick, Readings, At
<1> QED
  BY <1>2, <1>3, <1>4, <1>5, <1>6, <1>7, <1>8 DEF Next, Sweep

LEMMA Invariant == Spec => []IInv
<1>1. Init => IInv
  BY InitTypeOK, InitReadings DEF IInv
<1>2. IInv /\ [Next]_vars => IInv'
  BY StepTypeOK, StepReadings DEF IInv
<1> QED
  BY <1>1, <1>2, PTL DEF Spec

(***************************************************************************)
(* The store's variables and its callers' local ones keep their types: no  *)
(* Load answers with an item that is not there.                            *)
(***************************************************************************)
THEOREM StoreTypeCorrect == Spec => []TypeOK
<1>1. IInv => TypeOK
  BY DEF IInv
<1> QED
  BY <1>1, Invariant, PTL

----------------------------------------------------------------------------
(* Every step of the store is a step of its contract, or none *)

\* The call in progress that each point of a goroutine stands for.
LEMMA MappedCalls ==
  ASSUME NEW c, NEW now
  PROVE  /\ c.pc = "idle" => MappedCall(c, now) = [op |-> "idle"]
         /\ c.pc = "load" =>
              MappedCall(c, now) = [op |-> "load", key |-> c.key, answer |-> Pending]
         /\ c.pc = "check" =>
              MappedCall(c, now) = [op |-> "load", key |-> c.key, answer |-> Held(c.item, now)]
         /\ c.pc = "loaded" =>
              MappedCall(c, now) = [op |-> "load", key |-> c.key, answer |-> c.answer]
         /\ c.pc \in {"save", "write"} =>
              MappedCall(c, now) = [op |-> "save", key |-> c.key, session |-> c.session]
         /\ c.pc = "delete" => MappedCall(c, now) = [op |-> "delete", key |-> c.key]
         /\ c.pc = "done" => MappedCall(c, now) = [op |-> "done"]
BY DEF MappedCall

\* A goroutine's step changes its own call and, the clock standing still, no other.
LEMMA OwnCall ==
  ASSUME TypeOK, NEW p \in Callers, NEW state, Goto(p, state), clock' = clock
  PROVE  /\ ContractCall[p] = MappedCall(caller[p], clock)
         /\ ContractCall' = [ContractCall EXCEPT ![p] = MappedCall(state, clock)]
BY DEF TypeOK, Goto, ContractCall

\* A call that stands for what it stood for before is no step.
LEMMA SameCall ==
  ASSUME TypeOK, NEW p \in Callers, NEW state, Goto(p, state), clock' = clock,
         MappedCall(state, clock) = MappedCall(caller[p], clock)
  PROVE  ContractCall' = ContractCall
BY OwnCall DEF ContractCall

LEMMA SameSession ==
  ASSUME UNCHANGED <<items, clock>> PROVE ContractSession' = ContractSession
BY DEF ContractSession

LEMMA InvokeStep ==
  ASSUME IInv, NEW p \in Callers, Invoke(p) PROVE Contract!Invoke(p)
<1>0. TypeOK /\ UNCHANGED <<items, clock>> /\ caller[p].pc = "idle"
  BY DEF IInv, Invoke, At
<1>1. ContractSession' = ContractSession
  BY <1>0, SameSession
<1>2. PICK k \in Keys :
        \/ Goto(p, [pc |-> "load", key |-> k])
        \/ \E s \in Sessions : Goto(p, [pc |-> "save", key |-> k, session |-> s])
        \/ Goto(p, [pc |-> "delete", key |-> k])
  BY DEF Invoke
<1>3. ContractCall[p] = [op |-> "idle"]
  BY <1>0, MappedCalls DEF ContractCall
<1>4. CASE Goto(p, [pc |-> "load", key |-> k])
  <2>1. ContractCall' =
          [ContractCall EXCEPT ![p] = [op |-> "load", key |-> k, answer |-> Pending]]
    BY <1>0, <1>4, OwnCall, MappedCalls
  <2> QED
    BY <1>1, <1>3, <2>1 DEF Contract!Invoke, Contract!Idle, Contract!Set
<1>5. ASSUME NEW s \in Sessions, Goto(p, [pc |-> "save", key |-> k, session |-> s])
      PROVE  Contract!Invoke(p)
  <2>1. ContractCall' =
          [ContractCall EXCEPT ![p] = [op |-> "save", key |-> k, session |-> s]]
    BY <1>0, <1>5, OwnCall, MappedCalls
  <2> QED
    BY <1>1, <1>3, <2>1 DEF Contract!Invoke, Contract!Idle, Contract!Set
<1>6. CASE Goto(p, [pc |-> "delete", key |-> k])
  <2>1. ContractCall' = [ContractCall EXCEPT ![p] = [op |-> "delete", key |-> k]]
    BY <1>0, <1>6, OwnCall, MappedCalls
  <2> QED
    BY <1>1, <1>3, <2>1 DEF Contract!Invoke, Contract!Idle, Contract!Set
<1> QED
  BY <1>2, <1>4, <1>5, <1>6

\* A Load takes effect when it reads the map.
LEMMA LoadReadStep ==
  ASSUME IInv, NEW p \in Callers, LoadRead(p) PROVE Contract!Load(p)
<1> DEFINE k == caller[p].key
           state == [pc |-> "check", key |-> k, item |-> items[k]]
<1>0. TypeOK /\ UNCHANGED <<items, clock>> /\ caller[p].pc = "load" /\ Goto(p, state)
  BY DEF IInv, LoadRead, At
<1>1. k \in Keys
  BY <1>0 DEF TypeOK, CallerState
<1>2. ContractSession' = ContractSession /\ ContractSession[k] = Held(items[k], clock)
  BY <1>0, <1>1, SameSession DEF ContractSession
<1>3. ContractCall[p] = [op |-> "load", key |-> k, answer |-> Pending]
  BY <1>0, MappedCalls DEF ContractCall
<1>4. MappedCall(state, clock) =
        [op |-> "load", key |-> k, answer |-> Held(items[k], clock)]
  BY MappedCalls
<1>5. ContractCall' = [ContractCall EXCEPT ![p] = MappedCall(state, clock)]
  BY <1>0, OwnCall
<1>6. MappedCall(state, clock) = [ContractCall[p] EXCEPT !.answer = ContractSession[k]]
  BY <1>2, <1>3, <1>4
<1>7. /\ ContractCall[p].op = "load" /\ ContractCall[p].answer = Pending
      /\ ContractCall[p].key = k
  BY <1>3
<1> QED
  BY <1>2, <1>5, <1>6, <1>7, Zenon DEF Contract!Load, Contract!Set

\* A Save takes effect when it writes the map: the deadline it has in its hands
\* is still ahead.
LEMMA SaveWriteStep ==
  ASSUME IInv, NEW p \in Callers, SaveWrite(p) PROVE Contract!Save(p)
<1> DEFINE k == caller[p].key
           item == [session |-> caller[p].session, expiresAt |-> caller[p].now + TTL]
<1>0. /\ TypeOK /\ clock' = clock /\ caller[p].pc = "write"
      /\ Goto(p, [pc |-> "done"]) /\ items' = [items EXCEPT ![k] = item]
  BY DEF IInv, SaveWrite, At
<1>1. k \in Keys /\ caller[p].session \in Sessions /\ caller[p].now \in Nat
  BY <1>0 DEF TypeOK, CallerState
<1>2. Held(item, clock) = caller[p].session
  <2>1. item \in Item
    BY <1>1, TimeAssumption DEF Item
  <2>2. item # NoSession
    BY <2>1, SentinelAssumption DEF Item
  <2>3. clock < item.expiresAt
    BY <1>0 DEF IInv, Readings, At
  <2> QED
    BY <2>2, <2>3 DEF Held, Unexpired
<1>3. ContractSession' = [ContractSession EXCEPT ![k] = caller[p].session]
  BY <1>0, <1>1, <1>2 DEF ContractSession, TypeOK
<1>4. ContractCall[p] = [op |-> "save", key |-> k, session |-> caller[p].session]
  BY <1>0, MappedCalls DEF ContractCall
<1>5. ContractCall' = [ContractCall EXCEPT ![p] = [op |-> "done"]]
  BY <1>0, OwnCall, MappedCalls
<1> QED
  BY <1>3, <1>4, <1>5 DEF Contract!Save, Contract!Put, Contract!Set

LEMMA DeleteStep ==
  ASSUME IInv, NEW p \in Callers, Delete(p) PROVE Contract!Delete(p)
<1> DEFINE k == caller[p].key
<1>0. /\ TypeOK /\ clock' = clock /\ caller[p].pc = "delete"
      /\ Goto(p, [pc |-> "done"]) /\ items' = [items EXCEPT ![k] = NoSession]
  BY DEF IInv, Delete, At
<1>1. ContractSession' = [ContractSession EXCEPT ![k] = NoSession]
  BY <1>0 DEF ContractSession, TypeOK, Held
<1>2. ContractCall[p] = [op |-> "delete", key |-> k]
  BY <1>0, MappedCalls DEF ContractCall
<1>3. ContractCall' = [ContractCall EXCEPT ![p] = [op |-> "done"]]
  BY <1>0, OwnCall, MappedCalls
<1> QED
  BY <1>1, <1>2, <1>3 DEF Contract!Delete, Contract!Put, Contract!Set

LEMMA ReturnStep ==
  ASSUME IInv, NEW p \in Callers, Return(p) PROVE Contract!Return(p)
<1>0. /\ TypeOK /\ UNCHANGED <<items, clock>> /\ Goto(p, Idle)
      /\ caller[p].pc \in {"loaded", "done"}
  BY DEF IInv, Return, At
<1>1. ContractSession' = ContractSession
  BY <1>0, SameSession
<1>2. ContractCall' = [ContractCall EXCEPT ![p] = [op |-> "idle"]]
  BY <1>0, OwnCall, MappedCalls DEF Idle
<1>3. CASE caller[p].pc = "done"
  <2>1. ContractCall[p] = [op |-> "done"]
    BY <1>3, MappedCalls DEF ContractCall
  <2> QED
    BY <1>1, <1>2, <2>1 DEF Contract!Return, Contract!Set, Contract!Idle
<1>4. CASE caller[p].pc = "loaded"
  <2>1. ContractCall[p] =
          [op |-> "load", key |-> caller[p].key, answer |-> caller[p].answer]
    BY <1>4, MappedCalls DEF ContractCall
  <2>2. caller[p].answer # Pending
    BY <1>0, <1>4, SentinelAssumption DEF TypeOK, CallerState
  <2> QED
    BY <1>1, <1>2, <2>1, <2>2 DEF Contract!Return, Contract!Set, Contract!Idle
<1> QED
  BY <1>0, <1>3, <1>4

\* The check of a Load, and the clock reading of a Save, are part of the call.
LEMMA InnerStep ==
  ASSUME IInv, NEW p \in Callers, LoadCheck(p) \/ SaveClock(p)
  PROVE  UNCHANGED <<ContractSession, ContractCall>>
<1>0. TypeOK /\ UNCHANGED <<items, clock>>
  BY DEF IInv, LoadCheck, SaveClock
<1>1. ContractSession' = ContractSession
  BY <1>0, SameSession
<1>2. CASE LoadCheck(p)
  <2> DEFINE state == [pc |-> "loaded", key |-> caller[p].key,
                       answer |-> Held(caller[p].item, clock)]
  <2>1. caller[p].pc = "check" /\ Goto(p, state)
    BY <1>2 DEF LoadCheck, At
  <2>2. MappedCall(state, clock) = MappedCall(caller[p], clock)
    BY <2>1, MappedCalls
  <2> QED
    BY <1>0, <1>1, <2>1, <2>2, SameCall
<1>3. CASE SaveClock(p)
  <2> DEFINE state == [pc |-> "write", key |-> caller[p].key,
                       session |-> caller[p].session, now |-> clock]
  <2>1. caller[p].pc = "save" /\ Goto(p, state)
    BY <1>3 DEF SaveClock, At
  <2>2. MappedCall(state, clock) = MappedCall(caller[p], clock)
    BY <2>1, MappedCalls
  <2> QED
    BY <1>0, <1>1, <2>1, <2>2, SameCall
<1> QED
  BY <1>2, <1>3

\* The sweeper removes nothing that a Load would still have answered with.
LEMMA EvictStep ==
  ASSUME IInv, SweepEvict
  PROVE  UNCHANGED <<ContractSession, ContractCall>>
<1>0. /\ TypeOK /\ clock' = clock /\ caller' = caller
      /\ sweeper.now <= clock /\ sweeper.now \in Nat /\ clock \in Nat
  BY DEF IInv, SweepEvict, Readings, TypeOK
<1>1. ASSUME NEW k \in Keys PROVE Held(items'[k], clock) = Held(items[k], clock)
  <2>1. CASE items[k] # NoSession /\ ~Unexpired(items[k], sweeper.now)
    <3>1. items[k].expiresAt \in Nat
      BY <1>0, <2>1 DEF TypeOK, Item
    <3>2. ~Unexpired(items[k], clock)
      BY <1>0, <2>1, <3>1 DEF Unexpired
    <3>3. items'[k] = NoSession
      BY <2>1 DEF SweepEvict
    <3> QED
      BY <3>2, <3>3 DEF Held
  <2>2. CASE ~(items[k] # NoSession /\ ~Unexpired(items[k], sweeper.now))
    BY <2>2 DEF SweepEvict
  <2> QED
    BY <2>1, <2>2
<1>2. ContractSession' = ContractSession
  BY <1>0, <1>1 DEF ContractSession
<1>3. ContractCall' = ContractCall
  BY <1>0 DEF ContractCall
<1> QED
  BY <1>2, <1>3

\* Time only takes: what it changes is gone for every Load, those that hold it
\* included.
LEMMA HeldLater ==
  ASSUME NEW item \in Item \cup {NoSession}, NEW now \in Nat
  PROVE  Held(item, now + 1) \in {Held(item, now), NoSession}
BY DEF Held, Unexpired, Item

LEMMA TickStep ==
  ASSUME IInv, Tick
  PROVE  \E K \in SUBSET Keys, P \in SUBSET Contract!Answered : Contract!Expire(K, P)
<1> DEFINE K == {k \in Keys : Held(items[k], clock + 1) # Held(items[k], clock)}
           P == {p \in Callers : /\ caller[p].pc = "check"
                                 /\ Held(caller[p].item, clock + 1)
                                      # Held(caller[p].item, clock)}
<1>0. /\ TypeOK /\ clock' = clock + 1 /\ clock \in Nat
      /\ items' = items /\ caller' = caller
  BY DEF IInv, Tick, TypeOK
<1>1. P \in SUBSET Contract!Answered
  <2>1. SUFFICES ASSUME NEW p \in P PROVE p \in Contract!Answered
    OBVIOUS
  <2>2. ContractCall[p] = [op |-> "load", key |-> caller[p].key,
                           answer |-> Held(caller[p].item, clock)]
    BY MappedCalls DEF ContractCall
  <2>3. caller[p].item \in Item \cup {NoSession}
    BY <1>0 DEF TypeOK, CallerState
  <2>4. Held(caller[p].item, clock) # Pending
    BY <2>3, HeldType, SentinelAssumption
  <2> QED
    BY <2>2, <2>4 DEF Contract!Answered
<1>2. ContractSession' =
        [k \in Keys |-> IF k \in K THEN NoSession ELSE ContractSession[k]]
  <2>1. ASSUME NEW k \in Keys
        PROVE  Held(items[k], clock + 1) =
                 IF k \in K THEN NoSession ELSE Held(items[k], clock)
    <3>1. items[k] \in Item \cup {NoSession}
      BY <1>0 DEF TypeOK
    <3> QED
      BY <1>0, <3>1, HeldLater
  <2> QED
    BY <1>0, <2>1 DEF ContractSession
<1>3. ContractCall' =
        [p \in Callers |-> IF p \in P THEN [ContractCall[p] EXCEPT !.answer = NoSession]
                           ELSE ContractCall[p]]
  <2>1. ASSUME NEW p \in Callers
        PROVE  MappedCall(caller[p], clock + 1) =
                 IF p \in P THEN [ContractCall[p] EXCEPT !.answer = NoSession]
                 ELSE ContractCall[p]
    <3>0. ContractCall[p] = MappedCall(caller[p], clock)
      BY DEF ContractCall
    <3>1. CASE caller[p].pc = "check"
      <4> DEFINE c == caller[p]
      <4>1. c.item \in Item \cup {NoSession}
        BY <1>0, <3>1 DEF TypeOK, CallerState
      <4>2. Held(c.item, clock + 1) \in {Held(c.item, clock), NoSession}
        BY <1>0, <4>1, HeldLater
      <4>3. /\ ContractCall[p] = [op |-> "load", key |-> c.key, answer |-> Held(c.item, clock)]
            /\ MappedCall(c, clock + 1) =
                 [op |-> "load", key |-> c.key, answer |-> Held(c.item, clock + 1)]
        BY <3>0, <3>1, MappedCalls
      <4> QED
        BY <3>1, <4>2, <4>3
    <3>2. CASE caller[p].pc # "check"
      <4>1. caller[p].pc \in {"idle", "load", "loaded", "save", "write", "delete", "done"}
        BY <1>0, <3>2 DEF TypeOK, CallerState
      <4>2. MappedCall(caller[p], clock + 1) = MappedCall(caller[p], clock)
        BY <4>1, MappedCalls
      <4> QED
        BY <3>0, <3>2, <4>2
    <3> QED
      BY <3>1, <3>2
  <2> QED
    BY <1>0, <2>1 DEF ContractCall
<1> QED
  BY <1>1, <1>2, <1>3 DEF Contract!Expire

LEMMA StepMeetsContract ==
  IInv /\ [Next]_vars => [Contract!Next]_(Contract!vars)
<1> SUFFICES ASSUME IInv, [Next]_vars
             PROVE  Contract!Next \/ UNCHANGED <<ContractSession, ContractCall>>
  BY DEF Contract!vars
<1>1. ASSUME NEW p \in Callers,
             \/ Invoke(p) \/ LoadRead(p) \/ SaveWrite(p) \/ Delete(p) \/ Return(p)
      PROVE  Contract!Next
  BY <1>1, InvokeStep, LoadReadStep, SaveWriteStep, DeleteStep, ReturnStep
  DEF Contract!Next
<1>2. ASSUME NEW p \in Callers, LoadCheck(p) \/ SaveClock(p)
      PROVE  UNCHANGED <<ContractSession, ContractCall>>
  BY <1>2, InnerStep
<1>3. CASE SweepEvict
  BY <1>3, EvictStep
<1>4. CASE Tick
  BY <1>4, TickStep DEF Contract!Next
<1>5. CASE SweepClock \/ SweepStop \/ Close \/ UNCHANGED vars
  <2>1. UNCHANGED <<items, clock, caller>>
    BY <1>5 DEF SweepClock, SweepStop, Close, vars
  <2> QED
    BY <2>1 DEF ContractSession, ContractCall
<1> QED
  BY <1>1, <1>2, <1>3, <1>4, <1>5 DEF Next, Sweep

LEMMA InitMeetsContract == Init => Contract!Init
<1> SUFFICES ASSUME Init PROVE Contract!Init
  OBVIOUS
<1>1. ContractSession = [k \in Keys |-> NoSession]
  BY DEF Init, ContractSession, Held
<1>2. ContractCall = [p \in Callers |-> [op |-> "idle"]]
  BY MappedCalls DEF Init, ContractCall, Idle
<1> QED
  BY <1>1, <1>2 DEF Contract!Init, Contract!Idle

(***************************************************************************)
(* The store with its lock, its clock readings and its sweeper implements  *)
(* the atomic store of session.Store.                                      *)
(***************************************************************************)
THEOREM StoreMeetsContract == Spec => MeetsContract
BY Invariant, InitMeetsContract, StepMeetsContract, PTL
DEF Spec, MeetsContract, Contract!Spec
=============================================================================
