---------------------------- MODULE MemoryStore ----------------------------
(***************************************************************************)
(* The in-process store of gateway/internal/session/memory.go, at the      *)
(* grain at which its goroutines interleave: a mutex around the map, and a *)
(* clock read outside it by Load (after), Save and the sweeper (before).   *)
(*                                                                         *)
(* The clock is Go's monotonic one.  Keys are valid: Event.Validate has    *)
(* rejected the empty ones before any call.                                *)
(***************************************************************************)
EXTENDS Naturals

CONSTANTS
  Callers,    \* goroutines that call the store
  Keys,
  Sessions,   \* what callers save
  NoSession,  \* Load's ErrNotFound
  Pending,    \* a Load that has not read the map yet
  TTL,
  MaxTime     \* bound: the clock's last reading

ASSUME TimeAssumption == TTL \in Nat \ {0} /\ MaxTime \in Nat

ASSUME SentinelAssumption ==
  /\ NoSession \notin Sessions \cup [session: Sessions, expiresAt: Nat]
  /\ Pending \notin Sessions \cup {NoSession}

VARIABLES
  items,    \* the map: an item or NoSession for each key
  clock,
  caller,   \* each goroutine's program counter and local variables
  sweeper,  \* the sweeper goroutine's
  closed    \* m.stop is closed

vars == <<items, clock, caller, sweeper, closed>>

Item == [session: Sessions, expiresAt: Nat]

CallerState ==
  [pc: {"idle"}]
  \cup [pc: {"load"}, key: Keys]
  \cup [pc: {"check"}, key: Keys, item: Item \cup {NoSession}]
  \cup [pc: {"loaded"}, key: Keys, answer: Sessions \cup {NoSession}]
  \cup [pc: {"save"}, key: Keys, session: Sessions]
  \cup [pc: {"write"}, key: Keys, session: Sessions, now: Nat]
  \cup [pc: {"delete"}, key: Keys]
  \cup [pc: {"done"}]

Idle == [pc |-> "idle"]

Init ==
  /\ items = [k \in Keys |-> NoSession]
  /\ clock = 0
  /\ caller = [p \in Callers |-> Idle]
  /\ sweeper = [pc |-> "wait"]
  /\ closed = FALSE

Goto(p, state) == caller' = [caller EXCEPT ![p] = state]

At(p, point) == caller[p].pc = point

\* now.Before(expiresAt)
Unexpired(item, now) == now < item.expiresAt

\* A session that the store must still answer with.
Held(item, now) ==
  IF item # NoSession /\ Unexpired(item, now) THEN item.session ELSE NoSession

----------------------------------------------------------------------------
Invoke(p) ==
  /\ At(p, "idle")
  /\ \E k \in Keys :
       \/ Goto(p, [pc |-> "load", key |-> k])
       \/ \E s \in Sessions : Goto(p, [pc |-> "save", key |-> k, session |-> s])
       \/ Goto(p, [pc |-> "delete", key |-> k])
  /\ UNCHANGED <<items, clock, sweeper, closed>>

\* Load reads the map under the read lock, and only then the clock.
LoadRead(p) ==
  /\ At(p, "load")
  /\ Goto(p, [pc |-> "check", key |-> caller[p].key,
              item |-> items[caller[p].key]])
  /\ UNCHANGED <<items, clock, sweeper, closed>>

\* Mutants: an absent item, or an expired one, is answered as it is.
LoadUnchecked(p) ==
  /\ At(p, "check")
  /\ Goto(p, [pc |-> "loaded", key |-> caller[p].key,
              answer |-> caller[p].item])
  /\ UNCHANGED <<items, clock, sweeper, closed>>

LoadStale(p) ==
  /\ At(p, "check")
  /\ Goto(p, [pc |-> "loaded", key |-> caller[p].key,
              answer |-> IF caller[p].item = NoSession THEN NoSession
                         ELSE caller[p].item.session])
  /\ UNCHANGED <<items, clock, sweeper, closed>>

LoadCheck(p) ==
  /\ At(p, "check")
  /\ Goto(p, [pc |-> "loaded", key |-> caller[p].key,
              answer |-> Held(caller[p].item, clock)])
  /\ UNCHANGED <<items, clock, sweeper, closed>>

\* Save reads the clock before it takes the lock.
SaveClock(p) ==
  /\ At(p, "save")
  /\ Goto(p, [pc |-> "write", key |-> caller[p].key,
              session |-> caller[p].session, now |-> clock])
  /\ UNCHANGED <<items, clock, sweeper, closed>>

SaveWrite(p) ==
  /\ At(p, "write")
  /\ items' = [items EXCEPT ![caller[p].key] =
                 [session |-> caller[p].session,
                  expiresAt |-> caller[p].now + TTL]]
  /\ Goto(p, [pc |-> "done"])
  /\ UNCHANGED <<clock, sweeper, closed>>

Delete(p) ==
  /\ At(p, "delete")
  /\ items' = [items EXCEPT ![caller[p].key] = NoSession]
  /\ Goto(p, [pc |-> "done"])
  /\ UNCHANGED <<clock, sweeper, closed>>

Return(p) ==
  /\ At(p, "loaded") \/ At(p, "done")
  /\ Goto(p, Idle)
  /\ UNCHANGED <<items, clock, sweeper, closed>>

----------------------------------------------------------------------------
\* The ticker fires: evictExpired reads the clock, then takes the lock.
SweepClock ==
  /\ sweeper.pc = "wait"
  /\ sweeper' = [pc |-> "evict", now |-> clock]
  /\ UNCHANGED <<items, clock, caller, closed>>

\* Mutant: the sweeper sweeps once.
SweepOnce ==
  /\ sweeper.pc = "evict"
  /\ items' = [k \in Keys |->
                 IF items[k] # NoSession /\ ~Unexpired(items[k], sweeper.now)
                 THEN NoSession ELSE items[k]]
  /\ sweeper' = [pc |-> "stopped"]
  /\ UNCHANGED <<clock, caller, closed>>

SweepEvict ==
  /\ sweeper.pc = "evict"
  /\ items' = [k \in Keys |->
                 IF items[k] # NoSession /\ ~Unexpired(items[k], sweeper.now)
                 THEN NoSession ELSE items[k]]
  /\ sweeper' = [pc |-> "wait"]
  /\ UNCHANGED <<clock, caller, closed>>

Close ==
  /\ ~closed
  /\ closed' = TRUE
  /\ UNCHANGED <<items, clock, caller, sweeper>>

SweepStop ==
  /\ closed
  /\ sweeper.pc = "wait"
  /\ sweeper' = [pc |-> "stopped"]
  /\ UNCHANGED <<items, clock, caller, closed>>

\* Time passes.  A goroutine is not descheduled for a whole TTL between
\* reading the clock in Save and taking the lock.
Tick ==
  /\ clock < MaxTime
  /\ \A p \in Callers : At(p, "write") => clock + 1 < caller[p].now + TTL
  /\ clock' = clock + 1
  /\ UNCHANGED <<items, caller, sweeper, closed>>

Sweep == SweepClock \/ SweepEvict \/ SweepStop

Next ==
  \/ \E p \in Callers :
       \/ Invoke(p) \/ LoadRead(p) \/ LoadCheck(p)
       \/ SaveClock(p) \/ SaveWrite(p) \/ Delete(p) \/ Return(p)
  \/ Sweep \/ Close \/ Tick

Spec == Init /\ [][Next]_vars

\* The ticker keeps firing and the scheduler runs the sweeper.
FairSpec == Spec /\ WF_vars(Sweep)

----------------------------------------------------------------------------
(* Properties *)

TypeOK ==
  /\ items \in [Keys -> Item \cup {NoSession}]
  /\ clock \in Nat
  /\ caller \in [Callers -> CallerState]
  /\ sweeper \in [pc: {"wait", "stopped"}] \cup [pc: {"evict"}, now: Nat]
  /\ closed \in BOOLEAN

(***************************************************************************)
(* The store meets its contract under every interleaving: a Load answers   *)
(* with a session that was live when it read the map and still is, a Save  *)
(* that races the sweeper or an expiry is never undone, and the sweeper    *)
(* only removes what no Load would have returned.                          *)
(***************************************************************************)
MappedCall(c, now) ==
  CASE c.pc = "idle" -> [op |-> "idle"]
    [] c.pc = "load" -> [op |-> "load", key |-> c.key, answer |-> Pending]
    [] c.pc = "check" -> [op |-> "load", key |-> c.key, answer |-> Held(c.item, now)]
    [] c.pc = "loaded" -> [op |-> "load", key |-> c.key, answer |-> c.answer]
    [] c.pc \in {"save", "write"} ->
         [op |-> "save", key |-> c.key, session |-> c.session]
    [] c.pc = "delete" -> [op |-> "delete", key |-> c.key]
    [] c.pc = "done" -> [op |-> "done"]

ContractSession == [k \in Keys |-> Held(items[k], clock)]

ContractCall == [p \in Callers |-> MappedCall(caller[p], clock)]

Contract == INSTANCE SessionStore WITH session <- ContractSession, call <- ContractCall

MeetsContract == Contract!Spec

(***************************************************************************)
(* Until the store is closed, every expired session leaves memory, however *)
(* long its subscriber has been gone (memory.go:120-148).                  *)
(***************************************************************************)
Stale(k) == items[k] # NoSession /\ ~Unexpired(items[k], clock)

ExpiredIsSwept ==
  \A k \in Keys : Stale(k) ~> ~Stale(k) \/ closed
=============================================================================
