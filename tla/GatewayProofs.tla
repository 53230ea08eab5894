--------------------------- MODULE GatewayProofs ---------------------------
(***************************************************************************)
(* Type correctness of the gateway, and the isolation of tenants and       *)
(* subscribers, for any number of goroutines, sessions, subscribers and    *)
(* tenants, on any network and any store.                                  *)
(***************************************************************************)
EXTENDS Gateway, WellFoundedInduction, TLAPS

----------------------------------------------------------------------------
(* The session operators *)

LEMMA ConfigFields ==
  \A i \in DOMAIN Config : /\ i \in Nat
                           /\ Config[i].name \in Tenants
                           /\ Config[i].prefix \in Seq(Segments)
<1>1. \A i \in DOMAIN Config : i \in Nat /\ Config[i] \in TenantRecord(Tenants, Shortcodes, Segments)
  BY ConfigAssumption
<1> QED
  BY <1>1 DEF TenantRecord

\* What the loop of Route stops at is a tenant: of those that match, the
\* stable sort puts one before all others.
LEMMA RouteIndexMatches ==
  ASSUME NEW sc, NEW path \in Seq(Segments), Matching(Config, sc, path) # {}
  PROVE  RouteIndex(Config, sc, path) \in Matching(Config, sc, path)
<1> DEFINE match == Matching(Config, sc, path)
           rank(i) == <<Len(path) - Len(Config[i].prefix), i>>
           ranks == {rank(i) : i \in match}
           less == OpToRel(<, Nat)
           order == LexPairOrdering(less, less, Nat, Nat)
<1>1. ASSUME NEW i \in match
      PROVE  /\ i \in Nat
             /\ Len(Config[i].prefix) \in Nat
             /\ Len(path) - Len(Config[i].prefix) \in Nat
  BY ConfigFields DEF Matching, HasPrefix
<1>2. \A m, n \in Nat : m < n => <<m, n>> \in less
  BY DEF OpToRel
<1>3. IsWellFoundedOn(order, Nat \X Nat)
  BY NatLessThanWellFounded, WFLexPairOrdering, Zenon
<1>4. ranks \subseteq Nat \X Nat /\ ranks # {}
  <2>1. \A i \in match : rank(i) \in Nat \X Nat
    BY <1>1
  <2> QED
    BY <2>1, Zenon
<1> HIDE DEF less, order, match
<1>5. PICK x \in ranks : \A y \in ranks : <<y, x>> \notin order
  BY <1>3, <1>4, WFMin, Zenon
<1>6. PICK i \in match : \A j \in match : <<rank(j), rank(i)>> \notin order
  BY <1>5, Zenon
<1>7. ASSUME NEW j \in match \ {i} PROVE SortedBefore(Config, i, j)
  <2> DEFINE pi == Len(Config[i].prefix)
             pj == Len(Config[j].prefix)
  <2>1. /\ i \in Nat /\ pi \in Nat /\ Len(path) - pi \in Nat
        /\ j \in Nat /\ pj \in Nat /\ Len(path) - pj \in Nat /\ Len(path) \in Nat
    BY <1>1
  <2>2. /\ <<Len(path) - pj, Len(path) - pi>> \notin less
        /\ Len(path) - pj = Len(path) - pi => <<j, i>> \notin less
    BY <1>6, <2>1 DEF order, LexPairOrdering
  <2>3. ~(Len(path) - pj < Len(path) - pi) /\ (pj = pi => ~(j < i))
    BY <1>2, <2>1, <2>2
  <2>4. pi > pj \/ (pi = pj /\ i < j)
    <3> HIDE DEF pi, pj
    <3> QED
      BY <2>1, <2>3
  <2> QED
    BY <2>4 DEF SortedBefore
<1> QED
  BY <1>6, <1>7, Zenon DEF RouteIndex, match

\* Routing an event yields a configured tenant or NoRoute.
LEMMA TargetType ==
  ASSUME NEW ev \in Event
  PROVE  Target(ev) \in Tenants \cup {NoRoute}
<1>1. ev.path \in Seq(Segments)
  BY DEF Event
<1> QED
  BY <1>1, RouteIndexMatches, ConfigFields DEF Target, Route, Matching

LEMMA ResumeType ==
  ASSUME NEW ev \in Event, NEW found \in SavedSession \cup {NoSession}
  PROVE  /\ Resume(found, ev) \in Session
         /\ Resume(found, ev).msisdn = ev.msisdn
BY DEF Event, Resume, Fresh, SavedSession, Session

LEMMA TakeTurnType ==
  ASSUME NEW s \in Session, NEW t \in Tenants
  PROVE  /\ TakeTurn(s, t) \in SavedSession
         /\ TakeTurn(s, t).tenant = t
         /\ TakeTurn(s, t).msisdn = s.msisdn
<1> DEFINE kept == HandOver(s, t)
<1>1. kept \in Session /\ kept.msisdn = s.msisdn
  BY DEF HandOver, Session
<1>2. kept.turn + 1 \in Nat \ {0}
  BY <1>1 DEF Session
<1>3. \A n \in Nat \ {0} : [kept EXCEPT !.tenant = t, !.turn = n] \in SavedSession
  BY <1>1 DEF Session, SavedSession
<1>4. TakeTurn(s, t) = [kept EXCEPT !.tenant = t, !.turn = kept.turn + 1]
  BY <1>1 DEF TakeTurn, Session
<1>5. TakeTurn(s, t) \in SavedSession
  BY <1>2, <1>3, <1>4
<1>6. TakeTurn(s, t).tenant = t /\ TakeTurn(s, t).msisdn = kept.msisdn
  BY <1>1, <1>4 DEF Session
<1> QED
  BY <1>1, <1>5, <1>6

\* The tenant that serves a routed event is the one its name belongs to.
LEMMA ServingType ==
  ASSUME NEW ev \in Event, Target(ev) \in Tenants
  PROVE  Serving(ev) \in DOMAIN Config /\ Config[Serving(ev)].name = Target(ev)
<1>1. ev.path \in Seq(Segments)
  BY DEF Event
<1>2. Matching(Config, ev.shortcode, ev.path) # {}
  BY SentinelAssumption DEF Target, Route
<1>3. Serving(ev) \in DOMAIN Config
  BY <1>1, <1>2, RouteIndexMatches DEF Serving, Matching
<1> QED
  BY <1>2, <1>3 DEF Serving, Target, Route

LEMMA AnswersType ==
  ASSUME NEW ev \in Event, Target(ev) \in Tenants, NEW n \in Nat \ {0}
  PROVE  Answers(ev, n) \in SUBSET Reply
BY ServingType DEF Answers, Event, Reply, Blob

LEMMA SettleType ==
  ASSUME NEW s \in SavedSession, NEW reply \in Reply
  PROVE  /\ Settle(s, reply) \in SavedSession
         /\ Settle(s, reply).tenant = s.tenant
         /\ Settle(s, reply).msisdn = s.msisdn
         /\ Settle(s, reply).turn = s.turn
BY DEF Settle, SavedSession, Reply

\* A new dialogue carries no state; a resumed one the state it was saved with.
LEMMA ResumeOwns ==
  ASSUME NEW ev \in Event, NEW found \in SavedSession \cup {NoSession},
         found # NoSession => OwnState(found)
  PROVE  OwnState(Resume(found, ev))
BY DEF Resume, Fresh, OwnState

\* A handover drops the state; a turn makes what is kept one turn older.
LEMMA TakeTurnOwns ==
  ASSUME NEW s \in Session, NEW t \in Tenants, OwnState(s)
  PROVE  /\ OwnState(TakeTurn(s, t))
         /\ TakeTurn(s, t).state # NoState =>
              TakeTurn(s, t).state.turn < TakeTurn(s, t).turn
<1> DEFINE kept == HandOver(s, t)
           taken == TakeTurn(s, t)
<1>1. kept \in Session /\ OwnState(kept)
      /\ (kept.state # NoState => kept.tenant = t)
  <2>1. CASE s.tenant = NoTenant
    <3>1. \A i \in DOMAIN Config : Config[i].name \in Tenants
      BY ConfigFields
    <3>2. s.state = NoState
      BY <2>1, <3>1, SentinelAssumption DEF OwnState, Session, Blob
    <3> QED
      BY <2>1, <3>2 DEF HandOver
  <2>2. CASE s.tenant = t
    BY <2>2 DEF HandOver
  <2>3. CASE s.tenant \notin {NoTenant, t}
    BY <2>3 DEF HandOver, Session, OwnState
  <2> QED
    BY <2>1, <2>2, <2>3
<1>2. /\ taken.tenant = t
      /\ taken.msisdn = kept.msisdn
      /\ taken.turn = kept.turn + 1
      /\ taken.state = kept.state
  BY <1>1 DEF TakeTurn, Session
<1>3. /\ kept.turn \in Nat
      /\ kept.state # NoState => kept.state.turn \in Nat
  BY <1>1 DEF Session, Blob
<1> QED
  BY <1>1, <1>2, <1>3 DEF OwnState

LEMMA SettleOwns ==
  ASSUME NEW s \in SavedSession, NEW ev \in Event,
         NEW reply \in Answers(ev, s.turn),
         OwnState(s), s.tenant = Target(ev), s.msisdn = ev.msisdn
  PROVE  OwnState(Settle(s, reply))
<1>1. Config[Serving(ev)].name = s.tenant
  BY ServingType DEF SavedSession
<1> QED
  BY <1>1 DEF Settle, Answers, SavedSession, OwnState

----------------------------------------------------------------------------
(* Types *)

LEMMA InitType == Init => TypeOK
BY DEF Init, TypeOK, HandlerState, DialogueState, Idle, Unused

\* The events of a dialogue's callbacks are events.
LEMMA DialogueEvent ==
  ASSUME TypeOK, NEW k \in Keys, dialogue[k].at # "unused"
  PROVE  dialogue[k] \in [at: {"waiting", "menu", "end", "error", "none"},
                          ev: Event]
BY DEF TypeOK, DialogueState

LEMMA RepeatableType ==
  ASSUME TypeOK, NEW k \in Keys, dialogue[k].at # "unused",
         NEW ev \in Repeatable(k)
  PROVE  ev \in Event
<1> DEFINE last == dialogue[k].ev
<1>1. last \in Event /\ last.path \in Seq(Segments)
  BY DialogueEvent DEF Event
<1>2. \A n \in 0 .. Len(last.path) : SubSeq(last.path, 1, n) \in Seq(Segments)
  BY <1>1
<1>3. \A n \in 0 .. Len(last.path) :
        [last EXCEPT !.path = SubSeq(@, 1, n), !.terminal = FALSE] \in Event
  BY <1>1, <1>2 DEF Event
<1> QED
  BY <1>1, <1>3 DEF Repeatable

LEMMA CallbackType ==
  ASSUME TypeOK, NEW h \in Handlers, NEW ev \in Event, Callback(h, ev)
  PROVE  /\ store' \in [Keys -> SavedSession \cup {NoSession}]
         /\ handler' \in [Handlers -> HandlerState]
         /\ sent' \in Nat
BY DEF TypeOK, Callback, HandlerState

LEMMA NetworkType ==
  ASSUME TypeOK, NEW h \in Handlers, NetworkStep(h)
  PROVE  TypeOK'
<1> PICK k \in Keys : Dial(h, k) \/ Type(h, k) \/ Abandon(h, k) \/ Retry(h, k)
  BY DEF NetworkStep
<1>1. ASSUME NEW ev \in Event, Callback(h, ev), Await(k, ev)
      PROVE  TypeOK'
  BY <1>1, CallbackType DEF Await, TypeOK, DialogueState
<1>2. CASE Dial(h, k)
  <2>1. PICK m \in Subscribers, sc \in Shortcodes :
          LET ev == [key |-> k, msisdn |-> m, shortcode |-> sc,
                     path |-> <<>>, terminal |-> FALSE]
          IN Callback(h, ev) /\ Await(k, ev)
    BY <1>2 DEF Dial
  <2>2. [key |-> k, msisdn |-> m, shortcode |-> sc, path |-> <<>>,
         terminal |-> FALSE] \in Event
    BY DEF Event
  <2> QED
    BY <1>1, <2>1, <2>2
<1>3. CASE Type(h, k)
  <2>1. PICK seg \in Segments :
          LET ev == [dialogue[k].ev EXCEPT !.path = Append(@, seg)]
          IN Callback(h, ev) /\ Await(k, ev)
    BY <1>3 DEF Type
  <2>2. [dialogue[k].ev EXCEPT !.path = Append(@, seg)] \in Event
    <3>1. dialogue[k].ev \in Event
      BY <1>3, DialogueEvent DEF Type
    <3>2. Append(dialogue[k].ev.path, seg) \in Seq(Segments)
      BY <3>1 DEF Event
    <3> QED
      BY <3>1, <3>2 DEF Event
  <2> QED
    BY <1>1, <2>1, <2>2
<1>4. CASE Abandon(h, k)
  <2>1. [dialogue[k].ev EXCEPT !.terminal = TRUE] \in Event
    BY <1>4, DialogueEvent DEF Abandon, Event
  <2> QED
    BY <1>1, <1>4, <2>1 DEF Abandon
<1>5. CASE Retry(h, k)
  <2>1. PICK ev \in Repeatable(k) : Callback(h, ev)
    BY <1>5 DEF Retry
  <2>2. ev \in Event
    BY <1>5, RepeatableType DEF Retry
  <2> QED
    BY <1>5, <2>1, <2>2, CallbackType DEF Retry, TypeOK
<1> QED
  BY <1>2, <1>3, <1>4, <1>5

\* What a goroutine holds at each point of the turn.
LEMMA HandlerFields ==
  ASSUME TypeOK, NEW h \in Handlers
  PROVE  /\ ~At(h, "idle") => handler[h].ev \in Event
         /\ At(h, "loaded") => handler[h].sess \in Session
         /\ InTurn(h) => /\ handler[h].sess \in SavedSession
                         /\ Target(handler[h].ev) \in Tenants
         /\ At(h, "replied") => handler[h].reply \in Reply
         /\ At(h, "loaded") \/ InTurn(h) =>
              handler[h].found \in SavedSession \cup {NoSession}
         /\ At(h, "respond") =>
              handler[h].screen \in {"menu", "end", "error", "none"}
<1> USE DEF At, InTurn
<1>1. handler[h] \in HandlerState
  BY DEF TypeOK
<1>2. InTurn(h) => handler[h].ev \in Event /\ Target(handler[h].ev) # NoRoute
  BY <1>1 DEF HandlerState, Routed
<1>3. ~At(h, "idle") => handler[h].ev \in Event
  BY <1>1 DEF HandlerState, Routed
<1>4. InTurn(h) => Target(handler[h].ev) \in Tenants
  BY <1>2, TargetType
<1> QED
  BY <1>1, <1>3, <1>4 DEF HandlerState

\* A key of the session store belongs to every event.
LEMMA EventKey == \A ev \in Event : ev.key \in Keys /\ ev.msisdn \in Subscribers
BY DEF Event

LEMMA RespondType ==
  ASSUME TypeOK, NEW h \in Handlers, ~At(h, "idle"),
         NEW screen \in {"menu", "end", "error", "none"}, Respond(h, screen)
  PROVE  handler' \in [Handlers -> HandlerState]
<1>1. [pc |-> "respond", ev |-> handler[h].ev, screen |-> screen]
        \in HandlerState
  BY HandlerFields DEF HandlerState
<1> QED
  BY <1>1 DEF Respond, Goto, TypeOK

LEMMA PutType ==
  ASSUME TypeOK, NEW k \in Keys, NEW s \in SavedSession \cup {NoSession},
         Put(k, s) \/ Faulty(k, s)
  PROVE  store' \in [Keys -> SavedSession \cup {NoSession}]
BY DEF TypeOK, Put, Faulty

LEMMA HandlerType ==
  ASSUME TypeOK, NEW h \in Handlers,
         HandlerStep(h) \/ TenantReplies(h) \/ ResponseLost(h)
  PROVE  TypeOK'
<1> USE HandlerFields
<1>1. CASE Load(h)
  <2> DEFINE ev == handler[h].ev
  <2>1. PICK found \in {store[ev.key]} \cup {s \in {NoSession} : StoreFaults} :
          Goto(h, [pc |-> "loaded", ev |-> ev, found |-> found,
                   sess |-> Resume(found, ev)])
    BY <1>1 DEF Load
  <2>2. ev \in Event /\ found \in SavedSession \cup {NoSession}
    BY <1>1, EventKey DEF Load, At, TypeOK
  <2>3. Resume(found, ev) \in Session
    BY <2>2, ResumeType
  <2>4. [pc |-> "loaded", ev |-> ev, found |-> found,
         sess |-> Resume(found, ev)] \in HandlerState
    BY <2>2, <2>3 DEF HandlerState
  <2> QED
    BY <1>1, <2>1, <2>4 DEF Load, Goto, TypeOK
<1>2. CASE Release(h)
  BY <1>2, RespondType, PutType, EventKey DEF Release, At, TypeOK
<1>3. CASE RouteFails(h)
  BY <1>3, RespondType DEF RouteFails, At, TypeOK
<1>4. CASE Deliver(h)
  <2> DEFINE target == Target(handler[h].ev)
             taken == TakeTurn(handler[h].sess, target)
  <2>1. target \in Tenants
    BY <1>4, TargetType DEF Deliver, At
  <2>2. taken \in SavedSession
    BY <1>4, <2>1, TakeTurnType DEF Deliver
  <2>3. handler[h] \in [pc: {"loaded"}, ev: Event, sess: Session,
                        found: SavedSession \cup {NoSession}]
    BY <1>4 DEF Deliver, At, TypeOK, HandlerState
  <2>4. handler[h].ev \in Routed
    BY <1>4, <2>3 DEF Deliver, Routed
  <2>6. [handler[h] EXCEPT !.pc = "deliver", !.sess = taken] \in HandlerState
    BY <2>2, <2>3, <2>4 DEF HandlerState
  <2>5. handler' = [handler EXCEPT ![h] =
                      [handler[h] EXCEPT !.pc = "deliver", !.sess = taken]]
    BY <1>4 DEF Deliver, Goto
  <2> QED
    BY <1>4, <2>5, <2>6 DEF Deliver, TypeOK
<1>5. CASE TenantReplies(h)
  <2>1. PICK reply \in Answers(handler[h].ev, handler[h].sess.turn) :
          Goto(h, [pc |-> "replied", ev |-> handler[h].ev, reply |-> reply,
                   found |-> handler[h].found, sess |-> handler[h].sess])
    BY <1>5 DEF TenantReplies
  <2>2. handler[h] \in [pc: {"deliver"}, ev: Routed, sess: SavedSession,
                        found: SavedSession \cup {NoSession}]
    BY <1>5 DEF TenantReplies, At, TypeOK, HandlerState
  <2>3. handler[h].ev \in Event /\ Target(handler[h].ev) \in Tenants
        /\ handler[h].sess.turn \in Nat \ {0}
    BY <1>5, <2>2 DEF TenantReplies, InTurn, At, Routed, SavedSession
  <2>4. reply \in Reply
    BY <2>1, <2>3, AnswersType
  <2>5. [pc |-> "replied", ev |-> handler[h].ev, reply |-> reply,
         found |-> handler[h].found, sess |-> handler[h].sess] \in HandlerState
    BY <2>2, <2>4 DEF HandlerState
  <2> QED
    BY <1>5, <2>1, <2>5 DEF TenantReplies, Goto, TypeOK
<1>6. CASE DeliverFails(h)
  BY <1>6, RespondType DEF DeliverFails, At, TypeOK
<1>7. CASE Finish(h)
  BY <1>7, RespondType, PutType, EventKey DEF Finish, At, TypeOK
<1>8. CASE Save(h) \/ SaveFails(h)
  <2>1. Settle(handler[h].sess, handler[h].reply) \in SavedSession
    BY <1>8, SettleType DEF Save, SaveFails, At, InTurn
  <2> QED
    BY <1>8, <2>1, RespondType, PutType, EventKey
    DEF Save, SaveFails, At, TypeOK
<1>9. CASE Render(h)
  <2> DEFINE ev == handler[h].ev
             shown == [[at |-> "waiting", ev |-> ev] EXCEPT !.at = handler[h].screen]
  <2>1. ev.key \in Keys /\ shown \in DialogueState /\ Idle \in HandlerState
    BY <1>9, EventKey DEF Render, At, DialogueState, HandlerState, Idle
  <2>2. dialogue' \in [Keys -> DialogueState]
    BY <1>9, <2>1 DEF Render, TypeOK
  <2> QED
    BY <1>9, <2>1, <2>2 DEF Render, Goto, TypeOK
<1>10. CASE ResponseLost(h)
  BY <1>10 DEF ResponseLost, Goto, TypeOK, HandlerState, Idle
<1> QED
  BY <1>1, <1>2, <1>3, <1>4, <1>5, <1>6, <1>7, <1>8, <1>9, <1>10
  DEF HandlerStep

LEMMA StepType == TypeOK /\ [Next]_vars => TypeOK'
<1> SUFFICES ASSUME TypeOK, [Next]_vars PROVE TypeOK'
  OBVIOUS
<1>1. ASSUME NEW h \in Handlers, NetworkStep(h) PROVE TypeOK'
  BY <1>1, NetworkType
<1>2. ASSUME NEW h \in Handlers,
             HandlerStep(h) \/ TenantReplies(h) \/ ResponseLost(h)
      PROVE  TypeOK'
  BY <1>2, HandlerType
<1>3. ASSUME NEW k \in Keys, Expire(k) PROVE TypeOK'
  BY <1>3 DEF Expire, Put, TypeOK
<1>4. CASE Restart
  BY <1>4 DEF Restart, TypeOK, HandlerState, Idle
<1>5. CASE UNCHANGED vars
  BY <1>5 DEF vars, TypeOK
<1> QED
  BY <1>1, <1>2, <1>3, <1>4, <1>5 DEF Next

(***************************************************************************)
(* Every reachable state of the gateway has its types: in particular the   *)
(* store only ever holds sessions some routed turn has saved.              *)
(***************************************************************************)
THEOREM TypeCorrect == Spec => []TypeOK
BY InitType, StepType, PTL DEF Spec

----------------------------------------------------------------------------
(* Isolation *)

\* What Ownership says of one goroutine.
HandlerOwns(h) ==
  /\ At(h, "loaded") => /\ OwnState(handler[h].sess)
                        /\ handler[h].sess.msisdn = handler[h].ev.msisdn
  /\ InTurn(h) =>
       /\ OwnState(handler[h].sess)
       /\ handler[h].sess.msisdn = handler[h].ev.msisdn
       /\ handler[h].sess.tenant = Target(handler[h].ev)
       /\ handler[h].sess.state # NoState =>
            handler[h].sess.state.turn < handler[h].sess.turn
  /\ At(h, "replied") =>
       handler[h].reply \in Answers(handler[h].ev, handler[h].sess.turn)

LEMMA OwnershipByHandler ==
  Ownership <=> /\ TypeOK
                /\ StoredStateIsOwn
                /\ \A h \in Handlers : HandlerOwns(h)
BY DEF Ownership, LoadedStateIsOwn, TurnIsOwn, StateIsFromAnEarlierTurn,
       ReplyIsOwn, HandlerOwns

LEMMA InitOwnership == Init => Ownership
<1> SUFFICES ASSUME Init PROVE Ownership
  OBVIOUS
<1>1. TypeOK /\ StoredStateIsOwn
  BY InitType DEF Init, StoredStateIsOwn
<1>2. \A h \in Handlers : HandlerOwns(h)
  BY DEF Init, Idle, HandlerOwns, At, InTurn
<1> QED
  BY <1>1, <1>2, OwnershipByHandler

\* The other goroutines do not move.
Frame(h) == \A g \in Handlers \ {h} : handler'[g] = handler[g]

LEMMA GotoFrame ==
  ASSUME TypeOK, NEW h \in Handlers, NEW state, Goto(h, state)
  PROVE  handler'[h] = state /\ Frame(h)
BY DEF TypeOK, Goto, Frame

LEMMA RespondFrame ==
  ASSUME TypeOK, NEW h \in Handlers, NEW screen, Respond(h, screen)
  PROVE  handler'[h].pc = "respond" /\ Frame(h)
BY DEF TypeOK, Respond, Goto, Frame

\* A step that takes a goroutine out of its turn, or not yet into it.
LEMMA OutOfTurn ==
  ASSUME \A g \in Handlers : HandlerOwns(g), NEW h \in Handlers,
         Frame(h), handler'[h].pc \in {"idle", "load", "respond"}
  PROVE  \A g \in Handlers : HandlerOwns(g)'
BY DEF Frame, HandlerOwns, At, InTurn, Target

\* A step of a goroutine to a point where it still owns what it holds.
LEMMA StillOwns ==
  ASSUME \A g \in Handlers : HandlerOwns(g), NEW h \in Handlers,
         Frame(h), HandlerOwns(h)'
  PROVE  \A g \in Handlers : HandlerOwns(g)'
BY DEF Frame, HandlerOwns, At, InTurn, Target

LEMMA PutOwns ==
  ASSUME TypeOK, StoredStateIsOwn, NEW k \in Keys, NEW s,
         s # NoSession => OwnState(s), Put(k, s) \/ Faulty(k, s)
  PROVE  StoredStateIsOwn'
BY DEF Put, Faulty, StoredStateIsOwn, TypeOK, OwnState

LEMMA HandlerOwnership ==
  ASSUME Ownership, NEW h \in Handlers,
         HandlerStep(h) \/ TenantReplies(h) \/ ResponseLost(h)
  PROVE  StoredStateIsOwn' /\ \A g \in Handlers : HandlerOwns(g)'
<1>0. TypeOK /\ StoredStateIsOwn /\ \A g \in Handlers : HandlerOwns(g)
  BY OwnershipByHandler
<1> DEFINE ev == handler[h].ev
           sess == handler[h].sess
<1>1. CASE Load(h)
  <2>1. PICK found \in {store[ev.key]} \cup {s \in {NoSession} : StoreFaults} :
          Goto(h, [pc |-> "loaded", ev |-> ev, found |-> found,
                   sess |-> Resume(found, ev)])
    BY <1>1 DEF Load
  <2>2. ev \in Event /\ ev.key \in Keys
    BY <1>0, <1>1, HandlerFields, EventKey DEF Load, At
  <2>3. found \in SavedSession \cup {NoSession}
        /\ (found # NoSession => OwnState(found))
    BY <1>0, <2>2 DEF TypeOK, StoredStateIsOwn
  <2>4. OwnState(Resume(found, ev)) /\ Resume(found, ev).msisdn = ev.msisdn
    BY <2>2, <2>3, ResumeOwns, ResumeType
  <2>5. handler'[h] = [pc |-> "loaded", ev |-> ev, found |-> found,
                       sess |-> Resume(found, ev)]
        /\ Frame(h)
    BY <1>0, <2>1, GotoFrame
  <2>6. HandlerOwns(h)'
    BY <2>4, <2>5 DEF HandlerOwns, At, InTurn, OwnState
  <2> QED
    BY <1>0, <1>1, <2>5, <2>6, StillOwns DEF Load, StoredStateIsOwn
<1>2. CASE Release(h) \/ Finish(h)
  <2>1. ev.key \in Keys
    BY <1>0, <1>2, HandlerFields, EventKey DEF Release, Finish, At
  <2>2. StoredStateIsOwn'
    BY <1>0, <1>2, <2>1, PutOwns DEF Release, Finish
  <2>3. handler'[h].pc = "respond" /\ Frame(h)
    BY <1>0, <1>2, RespondFrame DEF Release, Finish
  <2> QED
    BY <1>0, <2>2, <2>3, OutOfTurn
<1>3. CASE RouteFails(h) \/ DeliverFails(h)
  <2>1. handler'[h].pc = "respond" /\ Frame(h)
    BY <1>0, <1>3, RespondFrame DEF RouteFails, DeliverFails
  <2> QED
    BY <1>0, <1>3, <2>1, OutOfTurn DEF RouteFails, DeliverFails, StoredStateIsOwn
<1>4. CASE Deliver(h)
  <2> DEFINE target == Target(ev)
             taken == TakeTurn(sess, target)
  <2>1. ev \in Event /\ sess \in Session /\ OwnState(sess)
        /\ sess.msisdn = ev.msisdn
    BY <1>0, <1>4, HandlerFields DEF Deliver, At, HandlerOwns
  <2>2. target \in Tenants
    BY <1>4, <2>1, TargetType DEF Deliver
  <2>3. /\ taken.tenant = target
        /\ taken.msisdn = ev.msisdn
        /\ OwnState(taken)
        /\ taken.state # NoState => taken.state.turn < taken.turn
    BY <2>1, <2>2, TakeTurnType, TakeTurnOwns
  <2>4. handler[h] \in [pc: {"loaded"}, ev: Event, sess: Session,
                        found: SavedSession \cup {NoSession}]
    BY <1>0, <1>4 DEF Deliver, At, TypeOK, HandlerState
  <2>5. handler' = [handler EXCEPT ![h] =
                      [handler[h] EXCEPT !.pc = "deliver", !.sess = taken]]
    BY <1>4 DEF Deliver, Goto
  <2>6. handler'[h].pc = "deliver" /\ handler'[h].ev = ev
        /\ handler'[h].sess = taken /\ Frame(h)
    BY <1>0, <2>4, <2>5 DEF TypeOK, Frame
  <2>7. HandlerOwns(h)'
    BY <2>3, <2>6 DEF HandlerOwns, At, InTurn, OwnState, Target
  <2> QED
    BY <1>0, <1>4, <2>6, <2>7, StillOwns DEF Deliver, StoredStateIsOwn
<1>5. CASE TenantReplies(h)
  <2>1. PICK reply \in Answers(ev, sess.turn) :
          Goto(h, [pc |-> "replied", ev |-> ev, reply |-> reply,
                   found |-> handler[h].found, sess |-> sess])
    BY <1>5 DEF TenantReplies
  <2>2. handler'[h] = [pc |-> "replied", ev |-> ev, reply |-> reply,
                       found |-> handler[h].found, sess |-> sess]
        /\ Frame(h)
    BY <1>0, <2>1, GotoFrame
  <2>3. HandlerOwns(h)'
    BY <1>0, <1>5, <2>2
    DEF TenantReplies, HandlerOwns, At, InTurn, OwnState, Target, Answers
  <2> QED
    BY <1>0, <1>5, <2>2, <2>3, StillOwns DEF TenantReplies, StoredStateIsOwn
<1>6. CASE Save(h) \/ SaveFails(h)
  <2>1. /\ ev.key \in Keys
        /\ sess \in SavedSession
        /\ OwnState(sess)
        /\ ev \in Event
        /\ sess.tenant = Target(ev) /\ sess.msisdn = ev.msisdn
        /\ handler[h].reply \in Answers(ev, sess.turn)
    BY <1>0, <1>6, HandlerFields, EventKey
    DEF Save, SaveFails, At, InTurn, HandlerOwns
  <2>2. OwnState(Settle(sess, handler[h].reply))
    BY <2>1, SettleOwns
  <2>3. StoredStateIsOwn'
    BY <1>0, <1>6, <2>1, <2>2, PutOwns DEF Save, SaveFails
  <2>4. handler'[h].pc = "respond" /\ Frame(h)
    BY <1>0, <1>6, RespondFrame DEF Save, SaveFails
  <2> QED
    BY <1>0, <2>3, <2>4, OutOfTurn
<1>7. CASE Render(h) \/ ResponseLost(h)
  <2>1. handler'[h].pc = "idle" /\ Frame(h)
    BY <1>0, <1>7, GotoFrame DEF Render, ResponseLost, Idle
  <2> QED
    BY <1>0, <1>7, <2>1, OutOfTurn DEF Render, ResponseLost, StoredStateIsOwn
<1> QED
  BY <1>1, <1>2, <1>3, <1>4, <1>5, <1>6, <1>7 DEF HandlerStep

LEMMA StepOwnership == Ownership /\ [Next]_vars => Ownership'
<1> SUFFICES ASSUME Ownership, [Next]_vars PROVE Ownership'
  OBVIOUS
<1>0. TypeOK /\ StoredStateIsOwn /\ \A h \in Handlers : HandlerOwns(h)
  BY OwnershipByHandler
<1>1. TypeOK'
  BY <1>0, StepType
<1>2. ASSUME NEW h \in Handlers, NetworkStep(h)
      PROVE  StoredStateIsOwn' /\ \A g \in Handlers : HandlerOwns(g)'
  <2>1. PICK ev : Callback(h, ev)
    BY <1>2 DEF NetworkStep, Dial, Type, Abandon, Retry
  <2>2. handler'[h].pc = "load" /\ Frame(h)
    BY <1>0, <2>1 DEF Callback, TypeOK, Frame
  <2> QED
    BY <1>0, <2>1, <2>2, OutOfTurn DEF Callback, StoredStateIsOwn
<1>3. ASSUME NEW h \in Handlers,
             HandlerStep(h) \/ TenantReplies(h) \/ ResponseLost(h)
      PROVE  StoredStateIsOwn' /\ \A g \in Handlers : HandlerOwns(g)'
  BY <1>3, HandlerOwnership
<1>4. ASSUME NEW k \in Keys, Expire(k)
      PROVE  StoredStateIsOwn' /\ \A g \in Handlers : HandlerOwns(g)'
  BY <1>0, <1>4, PutOwns DEF Expire, HandlerOwns, At, InTurn, Target
<1>5. ASSUME Restart
      PROVE  StoredStateIsOwn' /\ \A g \in Handlers : HandlerOwns(g)'
  BY <1>0, <1>5
  DEF Restart, Idle, StoredStateIsOwn, HandlerOwns, At, InTurn
<1>6. ASSUME UNCHANGED vars
      PROVE  StoredStateIsOwn' /\ \A g \in Handlers : HandlerOwns(g)'
  BY <1>0, <1>6 DEF vars, StoredStateIsOwn, HandlerOwns, At, InTurn, Target
<1>7. StoredStateIsOwn' /\ \A g \in Handlers : HandlerOwns(g)'
  BY <1>2, <1>3, <1>4, <1>5, <1>6 DEF Next
<1> QED
  BY <1>1, <1>7
  DEF Ownership, LoadedStateIsOwn, TurnIsOwn, StateIsFromAnEarlierTurn,
      ReplyIsOwn, HandlerOwns

(***************************************************************************)
(* The inductive invariant: what every session, stored or loaded, carries. *)
(***************************************************************************)
THEOREM OwnershipHolds == Spec => []Ownership
BY InitOwnership, StepOwnership, PTL DEF Spec

(***************************************************************************)
(* No tenant is ever handed a state another tenant stored, or one it       *)
(* stored for another subscriber, on any network and any store.            *)
(***************************************************************************)
THEOREM Isolation == Spec => []StateStaysWithItsTenant
<1>1. Ownership => StateStaysWithItsTenant
  <2> SUFFICES ASSUME Ownership, NEW h \in Handlers, InTurn(h),
                      handler[h].sess.state # NoState
               PROVE  /\ handler[h].sess.state.owner = Serving(handler[h].ev)
                      /\ handler[h].sess.state.msisdn = handler[h].ev.msisdn
    BY DEF StateStaysWithItsTenant
  <2> DEFINE ev == handler[h].ev
             blob == handler[h].sess.state
  <2>1. TypeOK /\ HandlerOwns(h)
    BY OwnershipByHandler
  <2>2. ev \in Event /\ Target(ev) \in Tenants /\ blob \in Blob
    BY <2>1, HandlerFields DEF InTurn, At, SavedSession
  <2>3. Config[blob.owner].name = Target(ev) /\ blob.msisdn = ev.msisdn
    BY <2>1 DEF HandlerOwns, OwnState
  <2>4. blob.owner \in DOMAIN Config
    BY <2>2 DEF Blob
  <2>5. Serving(ev) \in DOMAIN Config /\ Config[Serving(ev)].name = Target(ev)
    BY <2>2, ServingType
  <2> QED
    BY <2>3, <2>4, <2>5, ConfigAssumption DEF NewRouterAccepts, UniqueNames
<1> QED
  BY <1>1, OwnershipHolds, PTL

(***************************************************************************)
(* A request's state was written in an earlier turn than the request's, so *)
(* a first turn carries none.                                              *)
(***************************************************************************)
THEOREM StateIsEarlier == Spec => []StateIsFromAnEarlierTurn
<1>1. Ownership => StateIsFromAnEarlierTurn
  BY DEF Ownership
<1> QED
  BY <1>1, OwnershipHolds, PTL

----------------------------------------------------------------------------
(***************************************************************************)
(* What a network that waits for its answers may rely on                   *)
(***************************************************************************)

Busy(h) == handler[h].pc # "idle"

\* A callback in flight is the only one of its dialogue, and the one the network
\* waits for.
OneAtATime ==
  /\ \A k \in Keys : dialogue[k].at # "unused" => dialogue[k].ev.key = k
  /\ \A h \in Handlers :
       Busy(h) => dialogue[handler[h].ev.key] = [at |-> "waiting", ev |-> handler[h].ev]
  /\ \A g, h \in Handlers :
       Busy(g) /\ Busy(h) /\ handler[g].ev.key = handler[h].ev.key => g = h

----------------------------------------------------------------------------
(* One callback at a time *)

\* Every callback of an orderly network is the one it then waits for.
LEMMA OrderlyCallback ==
  ASSUME Orderly, TypeOK, OneAtATime, NEW h \in Handlers, NetworkStep(h)
  PROVE  \E ev \in Event :
           /\ Callback(h, ev)
           /\ dialogue' = [dialogue EXCEPT ![ev.key] = [at |-> "waiting", ev |-> ev]]
<1> PICK k \in Keys : Dial(h, k) \/ Type(h, k) \/ Abandon(h, k) \/ Retry(h, k)
  BY DEF NetworkStep
<1> DEFINE last == dialogue[k].ev
<1>1. dialogue[k].at # "unused" => last \in Event /\ last.key = k
  BY DialogueEvent DEF OneAtATime
<1>2. CASE Dial(h, k)
  <2>1. PICK m \in Subscribers, sc \in Shortcodes :
          LET ev == [key |-> k, msisdn |-> m, shortcode |-> sc,
                     path |-> <<>>, terminal |-> FALSE]
          IN Callback(h, ev) /\ Await(k, ev)
    BY <1>2 DEF Dial
  <2> DEFINE ev == [key |-> k, msisdn |-> m, shortcode |-> sc,
                    path |-> <<>>, terminal |-> FALSE]
  <2>2. ev \in Event /\ ev.key = k
    BY DEF Event
  <2> QED
    BY <2>1, <2>2 DEF Await
<1>3. CASE Type(h, k)
  <2>1. PICK seg \in Segments :
          LET ev == [last EXCEPT !.path = Append(@, seg)]
          IN Callback(h, ev) /\ Await(k, ev)
    BY <1>3 DEF Type
  <2> DEFINE ev == [last EXCEPT !.path = Append(@, seg)]
  <2>2. last \in Event /\ last.key = k
    BY <1>1, <1>3 DEF Type
  <2>3. Append(last.path, seg) \in Seq(Segments)
    BY <2>2 DEF Event
  <2>4. ev \in Event /\ ev.key = k
    BY <2>2, <2>3 DEF Event
  <2> QED
    BY <2>1, <2>4 DEF Await
<1>4. CASE Abandon(h, k)
  <2> DEFINE ev == [last EXCEPT !.terminal = TRUE]
  <2>1. ev \in Event /\ ev.key = k
    BY <1>1, <1>4 DEF Abandon, Event
  <2> QED
    BY <1>4, <2>1 DEF Abandon, Await
<1>5. CASE Retry(h, k)
  <2>1. PICK ev \in Repeatable(k) : Callback(h, ev)
    BY <1>5 DEF Retry
  <2>2. ev = last /\ dialogue[k].at = "waiting"
    BY <2>1 DEF Repeatable
  <2>3. ev \in Event /\ ev.key = k
    BY <1>1, <2>2
  <2>4. dialogue[k] = [at |-> "waiting", ev |-> ev]
    BY <2>2, DialogueEvent
  <2>5. dialogue' = [dialogue EXCEPT ![ev.key] = [at |-> "waiting", ev |-> ev]]
    BY <1>5, <2>3, <2>4 DEF Retry, TypeOK
  <2> QED
    BY <2>1, <2>3, <2>5
<1> QED
  BY <1>2, <1>3, <1>4, <1>5

\* A goroutine that goes on stays with its event.
LEMMA GoesOn ==
  ASSUME TypeOK, NEW h \in Handlers,
         HandlerStep(h) \/ TenantReplies(h), ~Render(h)
  PROVE  /\ Busy(h) /\ Busy(h)' /\ handler'[h].ev = handler[h].ev
         /\ Frame(h)
         /\ UNCHANGED dialogue
<1>1. CASE Load(h)
  <2>1. PICK found : Goto(h, [pc |-> "loaded", ev |-> handler[h].ev, found |-> found,
                              sess |-> Resume(found, handler[h].ev)])
    BY <1>1 DEF Load
  <2> QED
    BY <1>1, <2>1, GotoFrame DEF Load, At, Busy
<1>2. ASSUME NEW screen, Respond(h, screen), Busy(h), UNCHANGED dialogue
      PROVE  Busy(h)' /\ handler'[h].ev = handler[h].ev /\ Frame(h)
  BY <1>2, GotoFrame DEF Respond, Busy
<1>3. CASE Release(h) \/ RouteFails(h) \/ DeliverFails(h) \/ Finish(h) \/ Save(h)
           \/ SaveFails(h)
  BY <1>2, <1>3 DEF Release, RouteFails, DeliverFails, Finish, Save, SaveFails, At, Busy
<1>4. CASE Deliver(h)
  <2> DEFINE taken == TakeTurn(handler[h].sess, Target(handler[h].ev))
  <2>1. handler[h] \in [pc: {"loaded"}, ev: Event, sess: Session,
                        found: SavedSession \cup {NoSession}]
    BY <1>4 DEF Deliver, At, TypeOK, HandlerState
  <2>2. Goto(h, [handler[h] EXCEPT !.pc = "deliver", !.sess = taken])
    BY <1>4 DEF Deliver
  <2>3. /\ handler'[h] = [handler[h] EXCEPT !.pc = "deliver", !.sess = taken]
        /\ Frame(h)
    BY <2>2, GotoFrame
  <2> QED
    BY <1>4, <2>1, <2>3 DEF Deliver, At, Busy
<1>5. CASE TenantReplies(h)
  <2>1. PICK reply : Goto(h, [pc |-> "replied", ev |-> handler[h].ev, reply |-> reply,
                              found |-> handler[h].found, sess |-> handler[h].sess])
    BY <1>5 DEF TenantReplies
  <2> QED
    BY <1>5, <2>1, GotoFrame DEF TenantReplies, At, Busy
<1> QED
  BY <1>1, <1>3, <1>4, <1>5 DEF HandlerStep

\* A goroutine that answers an orderly network shows its screen, or the answer
\* is lost.
LEMMA Answered ==
  ASSUME TypeOK, OneAtATime, NEW h \in Handlers, Render(h) \/ ResponseLost(h)
  PROVE  /\ Busy(h) /\ handler'[h] = Idle /\ Frame(h) /\ UNCHANGED store
         /\ \/ UNCHANGED dialogue
            \/ dialogue' = [dialogue EXCEPT ![handler[h].ev.key] =
                              [at |-> handler[h].screen, ev |-> handler[h].ev]]
<1>1. Busy(h) /\ handler'[h] = Idle /\ Frame(h) /\ UNCHANGED store
  BY GotoFrame DEF Render, ResponseLost, At, Busy
<1>2. CASE Render(h)
  <2> DEFINE ev == handler[h].ev
  <2>1. dialogue[ev.key] = [at |-> "waiting", ev |-> ev]
    BY <1>1 DEF OneAtATime
  <2>2. [[at |-> "waiting", ev |-> ev] EXCEPT !.at = handler[h].screen]
          = [at |-> handler[h].screen, ev |-> ev]
    OBVIOUS
  <2>3. dialogue' = [dialogue EXCEPT ![ev.key] =
                       IF dialogue[ev.key] = [at |-> "waiting", ev |-> ev]
                       THEN [dialogue[ev.key] EXCEPT !.at = handler[h].screen]
                       ELSE dialogue[ev.key]]
    BY <1>2 DEF Render
  <2> QED
    BY <1>1, <2>1, <2>2, <2>3
<1> QED
  BY <1>1, <1>2 DEF ResponseLost

\* The step of a goroutine that goes on changes nobody's event.
LEMMA SameEvents ==
  ASSUME OneAtATime, NEW h \in Handlers, Busy(h), Busy(h)',
         handler'[h].ev = handler[h].ev, Frame(h), UNCHANGED dialogue
  PROVE  OneAtATime'
<1>1. \A g \in Handlers : (Busy(g)' <=> Busy(g)) /\ (Busy(g) => handler'[g].ev = handler[g].ev)
  BY DEF Frame, Busy
<1> QED
  BY <1>1 DEF OneAtATime

LEMMA InitOrderly == Init => OneAtATime
BY DEF Init, OneAtATime, Busy, Idle, Unused

LEMMA StepOrderly ==
  ASSUME Orderly, TypeOK, OneAtATime, [Next]_vars
  PROVE  OneAtATime'
<1>1. ASSUME NEW h \in Handlers, NetworkStep(h) PROVE OneAtATime'
  <2>1. PICK ev \in Event :
          /\ Callback(h, ev)
          /\ dialogue' = [dialogue EXCEPT ![ev.key] = [at |-> "waiting", ev |-> ev]]
    BY <1>1, OrderlyCallback
  <2>2. ev.key \in Keys
    BY EventKey
  <2>3. /\ handler'[h] = [pc |-> "load", ev |-> ev] /\ Frame(h)
        /\ \A g \in Handlers : Busy(g) => handler[g].ev.key # ev.key
    BY <2>1 DEF Callback, InFlight, TypeOK, Frame, Busy
  <2>4. /\ dialogue'[ev.key] = [at |-> "waiting", ev |-> ev]
        /\ \A k \in Keys \ {ev.key} : dialogue'[k] = dialogue[k]
    BY <2>1, <2>2 DEF TypeOK
  <2>5. \A g \in Handlers \ {h} : Busy(g)' = Busy(g) /\ handler'[g] = handler[g]
    BY <2>3 DEF Frame, Busy
  <2>6. \A g \in Handlers : Busy(g) => handler[g].ev.key \in Keys
    BY HandlerFields, EventKey DEF Busy, At
  <2>7. \A k \in Keys : dialogue'[k].at # "unused" => dialogue'[k].ev.key = k
    BY <2>4 DEF OneAtATime
  <2>8. ASSUME NEW g \in Handlers, Busy(g)'
        PROVE  dialogue'[handler'[g].ev.key] = [at |-> "waiting", ev |-> handler'[g].ev]
    <3>1. CASE g = h
      BY <2>3, <2>4, <3>1
    <3>2. CASE g # h
      BY <2>3, <2>4, <2>5, <2>6, <2>8, <3>2 DEF OneAtATime
    <3> QED
      BY <3>1, <3>2
  <2>9. ASSUME NEW g \in Handlers, NEW f \in Handlers, Busy(g)', Busy(f)',
               handler'[g].ev.key = handler'[f].ev.key
        PROVE  g = f
    BY <2>3, <2>5, <2>9 DEF OneAtATime
  <2> QED
    BY <2>7, <2>8, <2>9 DEF OneAtATime
<1>2. ASSUME NEW h \in Handlers, HandlerStep(h) \/ TenantReplies(h), ~Render(h)
      PROVE  OneAtATime'
  BY <1>2, GoesOn, SameEvents
<1>3. ASSUME NEW h \in Handlers, Render(h) \/ ResponseLost(h) PROVE OneAtATime'
  <2> DEFINE ev == handler[h].ev
  <2>1. /\ Busy(h) /\ handler'[h] = Idle /\ Frame(h)
        /\ \/ UNCHANGED dialogue
           \/ dialogue' = [dialogue EXCEPT ![ev.key] = [at |-> handler[h].screen, ev |-> ev]]
    BY <1>3, Answered
  <2>2. ev.key \in Keys
    BY <2>1, HandlerFields, EventKey DEF Busy, At
  <2>3. \A g \in Handlers : Busy(g)' => g # h /\ Busy(g) /\ handler'[g] = handler[g]
    BY <2>1 DEF Frame, Busy, Idle
  <2>4. \A g \in Handlers \ {h} : Busy(g) => handler[g].ev.key # ev.key
    BY <2>1 DEF OneAtATime
  <2>5. \A k \in Keys \ {ev.key} : dialogue'[k] = dialogue[k]
    BY <2>1, <2>2 DEF TypeOK
  <2>6. dialogue'[ev.key] = dialogue[ev.key] \/ dialogue'[ev.key].ev = ev
    BY <2>1, <2>2 DEF TypeOK
  <2>7. \A g \in Handlers : Busy(g) => handler[g].ev.key \in Keys
    BY HandlerFields, EventKey DEF Busy, At
  <2>8. \A k \in Keys : dialogue'[k].at # "unused" => dialogue'[k].ev.key = k
    BY <2>5, <2>6 DEF OneAtATime
  <2>9. \A g \in Handlers :
          Busy(g)' => dialogue'[handler'[g].ev.key] = [at |-> "waiting", ev |-> handler'[g].ev]
    BY <2>3, <2>4, <2>5, <2>7 DEF OneAtATime
  <2>10. \A f, g \in Handlers :
           Busy(f)' /\ Busy(g)' /\ handler'[f].ev.key = handler'[g].ev.key => f = g
    BY <2>3 DEF OneAtATime
  <2> QED
    BY <2>8, <2>9, <2>10 DEF OneAtATime
<1>4. CASE Restart
  BY <1>4 DEF Restart, Idle, OneAtATime, Busy
<1>5. CASE (\E k \in Keys : Expire(k)) \/ UNCHANGED vars
  BY <1>5 DEF Expire, vars, OneAtATime, Busy
<1> QED
  BY <1>1, <1>2, <1>3, <1>4, <1>5 DEF Next

----------------------------------------------------------------------------
(* What a screen on a handset says of the store *)

\* A menu has its session as long as the store keeps it; the end of a dialogue
\* leaves none if the store can release it.
Kept(stored, ev, screen) ==
  /\ screen = "menu" /\ ~Expiry /\ Durable =>
       /\ stored[ev.key] # NoSession
       /\ stored[ev.key].msisdn = ev.msisdn
       /\ stored[ev.key].tenant = Target(ev)
  /\ screen \in {"end", "none"} /\ ~StoreFaults => stored[ev.key] = NoSession

\* It does on the handset, and on its way there.
ScreensAreKept ==
  /\ \A h \in Handlers :
       At(h, "respond") => Kept(store, handler[h].ev, handler[h].screen)
  /\ \A k \in Keys :
       dialogue[k].at \notin {"unused", "waiting"} => Kept(store, dialogue[k].ev, dialogue[k].at)

\* A session that is only ever lost is lost to expiry or to a restart.
LEMMA LosingKeeps ==
  ASSUME NEW ev, NEW screen, Kept(store, ev, screen),
         \/ store'[ev.key] = store[ev.key]
         \/ store'[ev.key] = NoSession /\ (Expiry \/ ~Durable)
  PROVE  Kept(store', ev, screen)
BY DEF Kept

\* A step that loses no more than expiry and restarts may, and answers nothing.
LEMMA QuietStepKeeps ==
  ASSUME ScreensAreKept, TypeOK, OneAtATime,
         \A k \in Keys : \/ store'[k] = store[k]
                         \/ store'[k] = NoSession /\ (Expiry \/ ~Durable),
         \A h \in Handlers : At(h, "respond")' => handler'[h] = handler[h],
         \A k \in Keys : dialogue'[k] = dialogue[k] \/ dialogue'[k].at = "waiting"
  PROVE  ScreensAreKept'
<1>1. ASSUME NEW h \in Handlers, At(h, "respond")'
      PROVE  Kept(store', handler'[h].ev, handler'[h].screen)
  <2>1. handler'[h] = handler[h] /\ At(h, "respond") /\ handler[h].ev.key \in Keys
    BY <1>1, HandlerFields, EventKey DEF At
  <2>2. Kept(store, handler[h].ev, handler[h].screen)
    BY <2>1 DEF ScreensAreKept
  <2> QED
    BY <2>1, <2>2, LosingKeeps
<1>2. ASSUME NEW k \in Keys, dialogue'[k].at \notin {"unused", "waiting"}
      PROVE  Kept(store', dialogue'[k].ev, dialogue'[k].at)
  <2>1. dialogue'[k] = dialogue[k] /\ dialogue[k].ev.key = k
    BY <1>2 DEF OneAtATime
  <2>2. Kept(store, dialogue[k].ev, dialogue[k].at)
    BY <1>2, <2>1 DEF ScreensAreKept
  <2> QED
    BY <2>1, <2>2, LosingKeeps
<1> QED
  BY <1>1, <1>2 DEF ScreensAreKept

\* A goroutine that answers changes the store under its own dialogue alone, and
\* nobody is looking at a screen of that.
LEMMA AnswerKeeps ==
  ASSUME ScreensAreKept, TypeOK, OneAtATime, NEW h \in Handlers, Busy(h),
         NEW s, Put(handler[h].ev.key, s) \/ UNCHANGED store,
         NEW screen, Respond(h, screen), UNCHANGED dialogue,
         Kept(store', handler[h].ev, screen)
  PROVE  ScreensAreKept'
<1> DEFINE ev == handler[h].ev
<1>1. ev.key \in Keys
  BY HandlerFields, EventKey DEF Busy, At
<1>2. \A k \in Keys \ {ev.key} : store'[k] = store[k]
  BY <1>1 DEF Put, TypeOK
<1>3. handler'[h] = [pc |-> "respond", ev |-> ev, screen |-> screen] /\ Frame(h)
  BY GotoFrame DEF Respond
<1>4. ASSUME NEW g \in Handlers, At(g, "respond")'
      PROVE  Kept(store', handler'[g].ev, handler'[g].screen)
  <2>1. CASE g = h
    <3>1. handler'[g].ev = ev /\ handler'[g].screen = screen
      BY <1>3, <2>1
    <3> QED
      BY <3>1
  <2>2. CASE g # h
    <3>1. handler'[g] = handler[g] /\ At(g, "respond") /\ Busy(g)
      BY <1>3, <1>4, <2>2 DEF Frame, At, Busy
    <3>2. handler[g].ev.key \in Keys \ {ev.key}
      BY <2>2, <3>1, HandlerFields, EventKey DEF OneAtATime, Busy, At
    <3>3. Kept(store, handler[g].ev, handler[g].screen)
      BY <3>1 DEF ScreensAreKept
    <3> QED
      BY <1>2, <3>1, <3>2, <3>3 DEF Kept
  <2> QED
    BY <2>1, <2>2
<1>5. ASSUME NEW k \in Keys, dialogue'[k].at \notin {"unused", "waiting"}
      PROVE  Kept(store', dialogue'[k].ev, dialogue'[k].at)
  <2>0. dialogue[ev.key].at = "waiting"
    <3>1. dialogue[ev.key] = [at |-> "waiting", ev |-> ev]
      BY DEF OneAtATime
    <3> QED
      BY <3>1
  <2>1. dialogue'[k] = dialogue[k] /\ dialogue[k].ev.key = k /\ k # ev.key
    BY <1>5, <2>0 DEF OneAtATime
  <2>2. Kept(store, dialogue[k].ev, dialogue[k].at)
    BY <1>5, <2>1 DEF ScreensAreKept
  <2> QED
    BY <1>2, <2>1, <2>2 DEF Kept
<1> QED
  BY <1>4, <1>5 DEF ScreensAreKept

LEMMA StepKeeps ==
  ASSUME Orderly, Ownership, OneAtATime, ScreensAreKept, [Next]_vars
  PROVE  ScreensAreKept'
<1>0. TypeOK /\ \A h \in Handlers : HandlerOwns(h)
  BY OwnershipByHandler
<1>1. ASSUME NEW h \in Handlers, NetworkStep(h) PROVE ScreensAreKept'
  <2>1. PICK ev \in Event :
          /\ Callback(h, ev)
          /\ dialogue' = [dialogue EXCEPT ![ev.key] = [at |-> "waiting", ev |-> ev]]
    BY <1>0, <1>1, OrderlyCallback
  <2>2. \A k \in Keys : dialogue'[k] = dialogue[k] \/ dialogue'[k].at = "waiting"
    BY <1>0, <2>1 DEF TypeOK
  <2>3. \A g \in Handlers : At(g, "respond")' => handler'[g] = handler[g]
    BY <1>0, <2>1 DEF Callback, TypeOK, At
  <2> QED
    BY <1>0, <2>1, <2>2, <2>3, QuietStepKeeps DEF Callback
<1>2. ASSUME NEW h \in Handlers,
             Load(h) \/ Deliver(h) \/ TenantReplies(h)
      PROVE  ScreensAreKept'
  <2>1. handler'[h].pc # "respond" /\ Frame(h)
    <3>1. CASE Load(h)
      <4>1. PICK found : Goto(h, [pc |-> "loaded", ev |-> handler[h].ev, found |-> found,
                                  sess |-> Resume(found, handler[h].ev)])
        BY <3>1 DEF Load
      <4> QED
        BY <1>0, <4>1, GotoFrame
    <3>2. CASE Deliver(h)
      <4>1. Goto(h, [handler[h] EXCEPT !.pc = "deliver",
                       !.sess = TakeTurn(handler[h].sess, Target(handler[h].ev))])
        BY <3>2 DEF Deliver
      <4>2. handler[h] \in [pc: {"loaded"}, ev: Event, sess: Session,
                            found: SavedSession \cup {NoSession}]
        BY <1>0, <3>2 DEF Deliver, At, TypeOK, HandlerState
      <4>3. /\ handler'[h] = [handler[h] EXCEPT !.pc = "deliver",
                                !.sess = TakeTurn(handler[h].sess, Target(handler[h].ev))]
            /\ Frame(h)
        BY <1>0, <4>1, GotoFrame
      <4> QED
        BY <4>2, <4>3
    <3>3. CASE TenantReplies(h)
      <4>1. PICK reply : Goto(h, [pc |-> "replied", ev |-> handler[h].ev,
                                  reply |-> reply, found |-> handler[h].found,
                                  sess |-> handler[h].sess])
        BY <3>3 DEF TenantReplies
      <4> QED
        BY <1>0, <4>1, GotoFrame
    <3> QED
      BY <1>2, <3>1, <3>2, <3>3
  <2>2. \A g \in Handlers : At(g, "respond")' => handler'[g] = handler[g]
    BY <2>1 DEF Frame, At
  <2> QED
    BY <1>0, <1>2, <2>2, QuietStepKeeps DEF Load, Deliver, TenantReplies
<1>3. ASSUME NEW h \in Handlers, Release(h) \/ Finish(h)
      PROVE  ScreensAreKept'
  <2> DEFINE k == handler[h].ev.key
  <2>1. Busy(h) /\ k \in Keys
    BY <1>0, <1>3, HandlerFields, EventKey DEF Release, Finish, At, Busy
  <2>2. PICK screen \in {"none", "end"} : Respond(h, screen)
    BY <1>3 DEF Release, Finish
  <2>3. /\ Put(k, NoSession) \/ UNCHANGED store
        /\ ~StoreFaults => Put(k, NoSession)
        /\ UNCHANGED dialogue
    BY <1>3 DEF Release, Finish, Faulty
  <2>4. Kept(store', handler[h].ev, screen)
    BY <1>0, <2>1, <2>2, <2>3 DEF Kept, Put, TypeOK
  <2> QED
    BY <1>0, <2>1, <2>2, <2>3, <2>4, AnswerKeeps
<1>4. ASSUME NEW h \in Handlers, RouteFails(h) \/ DeliverFails(h)
      PROVE  ScreensAreKept'
  <2>1. Busy(h) /\ Respond(h, "error") /\ UNCHANGED <<store, dialogue>>
    BY <1>4 DEF RouteFails, DeliverFails, At, Busy
  <2>2. Kept(store', handler[h].ev, "error")
    BY DEF Kept
  <2> QED
    BY <1>0, <2>1, <2>2, AnswerKeeps
<1>5. ASSUME NEW h \in Handlers, SaveFails(h)
      PROVE  ScreensAreKept'
  <2>1. /\ Busy(h) /\ Respond(h, "error") /\ UNCHANGED dialogue
        /\ \/ Put(handler[h].ev.key, Settle(handler[h].sess, handler[h].reply))
           \/ UNCHANGED store
    BY <1>5 DEF SaveFails, Faulty, At, Busy
  <2>2. Kept(store', handler[h].ev, "error")
    BY DEF Kept
  <2> QED
    BY <1>0, <2>1, <2>2, AnswerKeeps
<1>6. ASSUME NEW h \in Handlers, Save(h)
      PROVE  ScreensAreKept'
  <2> DEFINE ev == handler[h].ev
             saved == Settle(handler[h].sess, handler[h].reply)
  <2>1. Busy(h) /\ ev.key \in Keys /\ Respond(h, "menu") /\ Put(ev.key, saved)
        /\ UNCHANGED dialogue
    BY <1>0, <1>6, HandlerFields, EventKey DEF Save, At, Busy
  <2>2. /\ handler[h].sess \in SavedSession /\ handler[h].reply \in Reply
        /\ handler[h].sess.msisdn = ev.msisdn /\ handler[h].sess.tenant = Target(ev)
    BY <1>0, <1>6, HandlerFields DEF Save, At, InTurn, HandlerOwns
  <2>3. saved \in SavedSession /\ saved.msisdn = ev.msisdn /\ saved.tenant = Target(ev)
    BY <2>2, SettleType
  <2>4. store'[ev.key] = saved
    BY <1>0, <2>1 DEF Put, TypeOK
  <2>5. Kept(store', ev, "menu")
    BY <2>3, <2>4, AbsenceAssumption DEF Kept
  <2> QED
    BY <1>0, <2>1, <2>5, AnswerKeeps
<1>7. ASSUME NEW h \in Handlers, Render(h) \/ ResponseLost(h)
      PROVE  ScreensAreKept'
  <2> DEFINE ev == handler[h].ev
             screen == handler[h].screen
  <2>1. /\ Busy(h) /\ handler'[h] = Idle /\ Frame(h) /\ UNCHANGED store
        /\ \/ UNCHANGED dialogue
           \/ dialogue' = [dialogue EXCEPT ![ev.key] = [at |-> screen, ev |-> ev]]
    BY <1>0, <1>7, Answered
  <2>2. ev.key \in Keys /\ Kept(store, ev, screen)
    BY <1>0, <1>7, HandlerFields, EventKey DEF ScreensAreKept, Render, ResponseLost, At
  <2>3. ASSUME NEW g \in Handlers, At(g, "respond")'
        PROVE  Kept(store', handler'[g].ev, handler'[g].screen)
    <3>1. g # h /\ handler'[g] = handler[g] /\ At(g, "respond")
      BY <2>1, <2>3 DEF Frame, At, Idle
    <3> QED
      BY <2>1, <3>1 DEF ScreensAreKept, Kept, Target
  <2>4. ASSUME NEW k \in Keys, dialogue'[k].at \notin {"unused", "waiting"}
        PROVE  Kept(store', dialogue'[k].ev, dialogue'[k].at)
    <3>1. \/ dialogue'[k] = dialogue[k]
          \/ dialogue'[k] = [at |-> screen, ev |-> ev]
      BY <1>0, <2>1, <2>2 DEF TypeOK
    <3>2. Kept(store, dialogue'[k].ev, dialogue'[k].at)
      BY <2>2, <2>4, <3>1 DEF ScreensAreKept
    <3> QED
      BY <2>1, <3>2 DEF Kept
  <2> QED
    BY <2>3, <2>4 DEF ScreensAreKept
<1>8. ASSUME NEW k \in Keys, Expire(k) PROVE ScreensAreKept'
  <2>1. \A j \in Keys : store'[j] = store[j] \/ (store'[j] = NoSession /\ Expiry)
    BY <1>0, <1>8 DEF Expire, Put, TypeOK
  <2> QED
    BY <1>0, <1>8, <2>1, QuietStepKeeps DEF Expire
<1>9. CASE Restart
  BY <1>0, <1>9, QuietStepKeeps DEF Restart, Idle, At
<1>10. CASE UNCHANGED vars
  BY <1>0, <1>10, QuietStepKeeps DEF vars
<1> QED
  BY <1>1, <1>2, <1>3, <1>4, <1>5, <1>6, <1>7, <1>8, <1>9, <1>10
  DEF Next, HandlerStep

LEMMA InitKeeps == Init => ScreensAreKept
BY DEF Init, ScreensAreKept, At, Idle, Unused

\* What holds of the gateway behind an orderly network.
OrderlyInv == Ownership /\ OneAtATime /\ ScreensAreKept

LEMMA OrderlyInvariant == ASSUME Orderly PROVE Spec => []OrderlyInv
<1>1. Init => OrderlyInv
  BY InitOwnership, InitOrderly, InitKeeps DEF OrderlyInv
<1>2. OrderlyInv /\ [Next]_vars => OrderlyInv'
  <2>1. Ownership => TypeOK
    BY DEF Ownership
  <2> QED
    BY <2>1, StepOwnership, StepOrderly, StepKeeps DEF OrderlyInv
<1> QED
  BY <1>1, <1>2, PTL DEF Spec

(***************************************************************************)
(* While sessions neither expire nor are lost in a restart, a subscriber   *)
(* of an orderly network who is looking at a menu has a session with the   *)
(* tenant that served it, even when store operations fail, with effect or  *)
(* without.                                                                *)
(***************************************************************************)
THEOREM MenusAreRemembered ==
  ASSUME Orderly, ~Expiry, Durable
  PROVE  Spec => []MenuIsRemembered
<1>1. OrderlyInv => MenuIsRemembered
  BY DEF OrderlyInv, OneAtATime, ScreensAreKept, Kept, MenuIsRemembered
<1> QED
  BY <1>1, OrderlyInvariant, PTL

(***************************************************************************)
(* While the store can release a session, a dialogue of an orderly network *)
(* that is over leaves none, whatever expires, is lost or restarts.        *)
(***************************************************************************)
THEOREM OverIsReleased ==
  ASSUME Orderly, ~StoreFaults
  PROVE  Spec => []OverLeavesNothing
<1>1. OrderlyInv => OverLeavesNothing
  BY DEF OrderlyInv, OneAtATime, ScreensAreKept, Kept, OverLeavesNothing
<1> QED
  BY <1>1, OrderlyInvariant, PTL

----------------------------------------------------------------------------
(* What a turn carries from its Load to its Save *)

InMidTurn(h) == handler[h].pc \in {"loaded", "deliver", "replied"}

\* On a sound store nothing but expiry comes between what a turn has loaded and
\* what is stored.
Carries(h) ==
  /\ InMidTurn(h) =>
       store[handler[h].ev.key] \in {handler[h].found, NoSession}
  /\ At(h, "loaded") => handler[h].sess = Resume(handler[h].found, handler[h].ev)
  /\ InTurn(h) =>
       handler[h].sess = TakeTurn(Resume(handler[h].found, handler[h].ev),
                                  Target(handler[h].ev))

TurnsCarry == \A h \in Handlers : Carries(h)

\* A goroutine that does not move carries on if its session does, or expires.
LEMMA CarriesOn ==
  ASSUME NEW h \in Handlers, Carries(h), handler'[h] = handler[h],
         InMidTurn(h) => store'[handler[h].ev.key] \in {store[handler[h].ev.key], NoSession}
  PROVE  Carries(h)'
BY DEF Carries, InMidTurn, At, InTurn, Target

LEMMA CarriesNothing ==
  ASSUME NEW h \in Handlers, handler'[h].pc \in {"idle", "load", "respond"}
  PROVE  Carries(h)'
BY DEF Carries, InMidTurn, At, InTurn

LEMMA StepCarries ==
  ASSUME Orderly, ~StoreFaults, OrderlyInv, TurnsCarry, [Next]_vars
  PROVE  TurnsCarry'
<1>0. TypeOK /\ OneAtATime /\ \A h \in Handlers : Carries(h)
  BY DEF OrderlyInv, Ownership, TurnsCarry
<1>1. ASSUME NEW h \in Handlers, Frame(h), Carries(h)', UNCHANGED store
      PROVE  TurnsCarry'
  BY <1>0, <1>1, CarriesOn DEF TurnsCarry, Frame
<1>2. ASSUME NEW h \in Handlers, NetworkStep(h) PROVE TurnsCarry'
  <2>1. PICK ev \in Event : Callback(h, ev)
    BY <1>0, <1>2, OrderlyCallback
  <2>2. handler'[h].pc = "load" /\ Frame(h) /\ UNCHANGED store
    BY <1>0, <2>1 DEF Callback, TypeOK, Frame
  <2> QED
    BY <1>1, <2>2, CarriesNothing
<1>3. ASSUME NEW h \in Handlers, Load(h) PROVE TurnsCarry'
  <2> DEFINE ev == handler[h].ev
             found == store[ev.key]
  <2>1. handler'[h] = [pc |-> "loaded", ev |-> ev, found |-> found,
                       sess |-> Resume(found, ev)]
        /\ Frame(h) /\ UNCHANGED store
    <3>1. Goto(h, [pc |-> "loaded", ev |-> ev, found |-> found,
                   sess |-> Resume(found, ev)])
      BY <1>3 DEF Load
    <3> QED
      BY <1>0, <1>3, <3>1, GotoFrame DEF Load
  <2>2. Carries(h)'
    BY <2>1 DEF Carries, InMidTurn, At, InTurn, Resume, Fresh
  <2> QED
    BY <1>1, <2>1, <2>2
<1>4. ASSUME NEW h \in Handlers, Deliver(h) PROVE TurnsCarry'
  <2> DEFINE ev == handler[h].ev
             taken == TakeTurn(handler[h].sess, Target(ev))
  <2>1. handler[h] \in [pc: {"loaded"}, ev: Event, sess: Session,
                        found: SavedSession \cup {NoSession}]
    BY <1>0, <1>4 DEF Deliver, At, TypeOK, HandlerState
  <2>2. handler'[h] = [handler[h] EXCEPT !.pc = "deliver", !.sess = taken]
        /\ Frame(h) /\ UNCHANGED store
    <3>1. Goto(h, [handler[h] EXCEPT !.pc = "deliver", !.sess = taken])
      BY <1>4 DEF Deliver
    <3> QED
      BY <1>0, <1>4, <3>1, GotoFrame DEF Deliver
  <2>3. /\ handler'[h].pc = "deliver" /\ handler'[h].ev = ev
        /\ handler'[h].found = handler[h].found /\ handler'[h].sess = taken
    BY <2>1, <2>2
  <2>4. handler[h].sess = Resume(handler[h].found, ev)
        /\ store[ev.key] \in {handler[h].found, NoSession}
    BY <1>0, <1>4 DEF Carries, InMidTurn, Deliver, At
  <2>5. Carries(h)'
    BY <2>2, <2>3, <2>4 DEF Carries, InMidTurn, At, InTurn, Target
  <2> QED
    BY <1>1, <2>2, <2>5
<1>5. ASSUME NEW h \in Handlers, TenantReplies(h) PROVE TurnsCarry'
  <2>1. PICK reply : Goto(h, [pc |-> "replied", ev |-> handler[h].ev,
                              reply |-> reply, found |-> handler[h].found,
                              sess |-> handler[h].sess])
    BY <1>5 DEF TenantReplies
  <2>2. handler'[h] = [pc |-> "replied", ev |-> handler[h].ev,
                       reply |-> reply, found |-> handler[h].found,
                       sess |-> handler[h].sess]
        /\ Frame(h) /\ UNCHANGED store
    BY <1>0, <1>5, <2>1, GotoFrame DEF TenantReplies
  <2>3. Carries(h)'
    BY <1>0, <1>5, <2>2 DEF TenantReplies, Carries, InMidTurn, At, InTurn, Target
  <2> QED
    BY <1>1, <2>2, <2>3
<1>6. ASSUME NEW h \in Handlers,
             \/ Release(h) \/ RouteFails(h) \/ DeliverFails(h) \/ Finish(h)
             \/ Save(h) \/ SaveFails(h)
      PROVE  TurnsCarry'
  <2> DEFINE k == handler[h].ev.key
  <2>1. Busy(h) /\ k \in Keys
    BY <1>0, <1>6, HandlerFields, EventKey
    DEF Release, RouteFails, DeliverFails, Finish, Save, SaveFails, At, Busy
  <2>2. handler'[h].pc = "respond" /\ Frame(h)
    BY <1>0, <1>6, RespondFrame
    DEF Release, RouteFails, DeliverFails, Finish, Save, SaveFails
  <2>3. \A j \in Keys \ {k} : store'[j] = store[j]
    BY <1>0, <1>6, <2>1
    DEF Release, RouteFails, DeliverFails, Finish, Save, SaveFails, Put, Faulty, TypeOK
  <2>4. ASSUME NEW g \in Handlers \ {h} PROVE Carries(g)'
    <3>1. InMidTurn(g) => handler[g].ev.key \in Keys \ {k}
      BY <1>0, <2>1, HandlerFields, EventKey DEF InMidTurn, OneAtATime, Busy, At
    <3> QED
      BY <1>0, <2>2, <2>3, <3>1, CarriesOn DEF Frame
  <2> QED
    BY <2>2, <2>4, CarriesNothing DEF TurnsCarry
<1>7. ASSUME NEW h \in Handlers, Render(h) \/ ResponseLost(h) PROVE TurnsCarry'
  <2>1. handler'[h] = Idle /\ Frame(h) /\ UNCHANGED store
    BY <1>0, <1>7, Answered
  <2> QED
    BY <1>1, <2>1, CarriesNothing DEF Idle
<1>8. ASSUME NEW k \in Keys, Expire(k) PROVE TurnsCarry'
  <2>1. \A j \in Keys : store'[j] \in {store[j], NoSession}
    BY <1>0, <1>8 DEF Expire, Put, TypeOK
  <2>2. \A h \in Handlers : InMidTurn(h) => handler[h].ev.key \in Keys
    BY <1>0, HandlerFields, EventKey DEF InMidTurn, At
  <2> QED
    BY <1>0, <1>8, <2>1, <2>2, CarriesOn DEF Expire, TurnsCarry
<1>9. CASE Restart
  BY <1>9, CarriesNothing DEF Restart, Idle, TurnsCarry
<1>10. CASE UNCHANGED vars
  BY <1>0, <1>10, CarriesOn DEF vars, TurnsCarry
<1> QED
  BY <1>2, <1>3, <1>4, <1>5, <1>6, <1>7, <1>8, <1>9, <1>10 DEF Next, HandlerStep

LEMMA InitCarries == Init => TurnsCarry
BY DEF Init, Idle, TurnsCarry, Carries, InMidTurn, At, InTurn

----------------------------------------------------------------------------
(* A turn is one step of Dialogue *)

\* The session Dialogue sees, in mid-turn and between turns.
LEMMA PromisedMid ==
  /\ TypeOK /\ OneAtATime =>
       \A h \in Handlers :
         InMidTurn(h) =>
           PromisedSession[handler[h].ev.key] = ByName(handler[h].found)
  /\ TypeOK' /\ OneAtATime' =>
       \A h \in Handlers :
         InMidTurn(h)' =>
           PromisedSession'[handler'[h].ev.key] = ByName(handler'[h].found)
<1>1. ASSUME TypeOK, OneAtATime, NEW h \in Handlers, InMidTurn(h)
      PROVE  PromisedSession[handler[h].ev.key] = ByName(handler[h].found)
  <2>1. handler[h].ev.key \in Keys
    BY <1>1, HandlerFields, EventKey DEF InMidTurn, At
  <2>2. MidTurn(handler[h].ev.key) = {h}
    BY <1>1, <2>1 DEF MidTurn, InFlight, InMidTurn, OneAtATime, Busy
  <2> QED
    BY <2>1, <2>2 DEF PromisedSession
<1>2. ASSUME TypeOK', OneAtATime', NEW h \in Handlers, InMidTurn(h)'
      PROVE  PromisedSession'[handler'[h].ev.key] = ByName(handler'[h].found)
  <2>1. handler'[h].ev.key \in Keys
    <3>1. handler'[h] \in HandlerState
      BY <1>2 DEF TypeOK
    <3>2. handler'[h].ev \in Event
      BY <1>2, <3>1 DEF HandlerState, InMidTurn, Routed
    <3> QED
      BY <3>2, EventKey
  <2>2. MidTurn(handler[h].ev.key)' = {h}
    BY <1>2, <2>1 DEF MidTurn, InFlight, InMidTurn, OneAtATime, Busy
  <2> QED
    BY <2>1, <2>2 DEF PromisedSession, ByName
<1> QED
  BY <1>1, <1>2

LEMMA PromisedRest ==
  /\ \A k \in Keys :
       (\A h \in Handlers : InMidTurn(h) => handler[h].ev.key # k)
       => PromisedSession[k] = ByName(store[k])
  /\ \A k \in Keys :
       (\A h \in Handlers : InMidTurn(h)' => handler'[h].ev.key # k)
       => PromisedSession'[k] = ByName(store'[k])
<1>1. ASSUME NEW k \in Keys, \A h \in Handlers : InMidTurn(h) => handler[h].ev.key # k
      PROVE  PromisedSession[k] = ByName(store[k])
  <2>1. MidTurn(k) = {}
    BY <1>1 DEF MidTurn, InFlight, InMidTurn
  <2> QED
    BY <2>1 DEF PromisedSession
<1>2. ASSUME NEW k \in Keys, \A h \in Handlers : InMidTurn(h)' => handler'[h].ev.key # k
      PROVE  PromisedSession'[k] = ByName(store'[k])
  <2>1. MidTurn(k)' = {}
    BY <1>2 DEF MidTurn, InFlight, InMidTurn
  <2> QED
    BY <2>1 DEF PromisedSession, ByName
<1> QED
  BY <1>1, <1>2

\* What the goroutines of other dialogues promise stays.
LEMMA OtherPromises ==
  ASSUME NEW h \in Handlers, NEW k \in Keys, Frame(h), store'[k] = store[k],
         InMidTurn(h) => handler[h].ev.key # k,
         InMidTurn(h)' => handler'[h].ev.key # k
  PROVE  PromisedSession'[k] = PromisedSession[k]
<1>1. MidTurn(k)' = MidTurn(k)
  BY DEF MidTurn, InFlight, InMidTurn, Frame
<1>2. CASE MidTurn(k) = {}
  BY <1>1, <1>2 DEF PromisedSession, ByName
<1>3. CASE MidTurn(k) # {}
  <2> DEFINE g == CHOOSE g \in MidTurn(k) : TRUE
  <2>1. g \in MidTurn(k)
    BY <1>3
  <2>2. g \in Handlers \ {h}
    BY <2>1 DEF MidTurn, InFlight, InMidTurn
  <2>3. handler'[g] = handler[g]
    BY <2>2 DEF Frame
  <2> QED
    BY <1>1, <1>3, <2>3 DEF PromisedSession, ByName
<1> QED
  BY <1>2, <1>3

\* Sessions may only vanish: a Drop.
LEMMA Vanishes ==
  ASSUME \A k \in Keys : PromisedSession'[k] \in {PromisedSession[k], NoSession}
  PROVE  Promise!Next
<1> DEFINE K == {k \in Keys : PromisedSession'[k] = NoSession}
<1>1. PromisedSession' = [k \in Keys |-> PromisedSession'[k]]
  BY DEF PromisedSession, ByName
<1>2. \A k \in Keys :
        PromisedSession'[k] = IF k \in K THEN NoSession ELSE PromisedSession[k]
  OBVIOUS
<1>3. PromisedSession' = [k \in Keys |-> IF k \in K THEN NoSession ELSE PromisedSession[k]]
  BY <1>1, <1>2
<1>4. K \in SUBSET Keys
  OBVIOUS
<1> QED
  BY <1>3, <1>4 DEF Promise!Next, Promise!Drop

\* A state blob as Dialogue knows it.
Named(blob) ==
  IF blob = NoState THEN NoState
  ELSE [owner |-> Config[blob.owner].name, msisdn |-> blob.msisdn, turn |-> blob.turn]

LEMMA ByNameFields ==
  ASSUME NEW s \in SavedSession
  PROVE  /\ ByName(s) = [tenant |-> s.tenant, msisdn |-> s.msisdn, turn |-> s.turn,
                         state |-> Named(s.state)]
         /\ ByName(s) # NoSession
<1>1. ByName(s) = [tenant |-> s.tenant, msisdn |-> s.msisdn, turn |-> s.turn,
                   state |-> Named(s.state)]
  BY AbsenceAssumption DEF ByName, Named, SavedSession, Blob
<1>2. Named(s.state) \in [owner: Tenants, msisdn: Subscribers, turn: Nat \ {0}]
                         \cup {NoState}
  <2>1. \A i \in DOMAIN Config : Config[i].name \in Tenants
    BY ConfigFields
  <2> QED
    BY <2>1 DEF Named, SavedSession, Blob
<1> QED
  BY <1>1, <1>2, AbsenceAssumption DEF SavedSession

\* A turn resumes the session it found, or starts clean.
LEMMA TurnTaken ==
  ASSUME NEW ev \in Event, Target(ev) \in Tenants,
         NEW found \in SavedSession \cup {NoSession}
  PROVE  LET taken == TakeTurn(Resume(found, ev), Target(ev))
         IN \/ /\ found # NoSession
               /\ found.msisdn = ev.msisdn
               /\ found.tenant = Target(ev)
               /\ taken.turn = found.turn + 1
               /\ taken.state = found.state
            \/ /\ found # NoSession =>
                    found.msisdn # ev.msisdn \/ found.tenant # Target(ev)
               /\ taken.turn = 1
               /\ taken.state = NoState
<1>1. CASE found = NoSession \/ found.msisdn # ev.msisdn
  BY <1>1 DEF Resume, Fresh, TakeTurn, HandOver
<1>2. CASE found # NoSession /\ found.msisdn = ev.msisdn /\ found.tenant = Target(ev)
  BY <1>2 DEF Resume, TakeTurn, HandOver, SavedSession
<1>3. CASE found # NoSession /\ found.msisdn = ev.msisdn /\ found.tenant # Target(ev)
  <2>1. found.tenant # NoTenant
    BY <1>3, SentinelAssumption DEF SavedSession
  <2> QED
    BY <1>3, <2>1 DEF Resume, TakeTurn, HandOver, SavedSession
<1> QED
  BY <1>1, <1>2, <1>3

\* The state a turn saves: what it had, none, or what its tenant wrote in it.
LEMMA SettledState ==
  ASSUME NEW ev \in Event, NEW s \in SavedSession, NEW reply \in Answers(ev, s.turn),
         s.tenant = Target(ev), s.msisdn = ev.msisdn
  PROVE  Named(Settle(s, reply).state)
           \in {Named(s.state), NoState, Promise!Written(s.tenant, s.msisdn, s.turn)}
<1>1. Config[Serving(ev)].name = s.tenant
  BY ServingType DEF SavedSession
<1>2. Settle(s, reply).state
        \in {s.state, NoState,
             [owner |-> Serving(ev), msisdn |-> ev.msisdn, turn |-> s.turn]}
  BY DEF Settle, Answers, SavedSession
<1> QED
  BY <1>1, <1>2 DEF Named, Promise!Written

\* The step that saves a session continues its dialogue or starts one.
LEMMA SaveIsATurn ==
  ASSUME OrderlyInv, OrderlyInv', TurnsCarry, NEW h \in Handlers, Save(h)
  PROVE  Promise!Next
<1> DEFINE ev == handler[h].ev
           k == ev.key
           found == handler[h].found
           taken == handler[h].sess
           saved == Settle(taken, handler[h].reply)
<1>1. TypeOK /\ TypeOK' /\ OneAtATime /\ OneAtATime' /\ HandlerOwns(h) /\ Carries(h)
  BY OwnershipByHandler DEF OrderlyInv, Ownership, TurnsCarry
<1>2. At(h, "replied") /\ InMidTurn(h) /\ InTurn(h) /\ Busy(h)
  BY DEF Save, At, InMidTurn, InTurn, Busy
<1>3. /\ ev \in Event /\ k \in Keys /\ ev.msisdn \in Subscribers
      /\ Target(ev) \in Tenants
      /\ taken \in SavedSession
      /\ handler[h].reply \in Reply
      /\ found \in SavedSession \cup {NoSession}
  BY <1>1, <1>2, HandlerFields, EventKey DEF At
<1>4. /\ taken.msisdn = ev.msisdn /\ taken.tenant = Target(ev)
      /\ handler[h].reply \in Answers(ev, taken.turn)
      /\ taken = TakeTurn(Resume(found, ev), Target(ev))
  BY <1>1, <1>2 DEF HandlerOwns, Carries
<1>5. /\ saved \in SavedSession
      /\ saved.tenant = Target(ev) /\ saved.msisdn = ev.msisdn
      /\ saved.turn = taken.turn
  BY <1>3, <1>4, SettleType
<1> DEFINE blob == Named(saved.state)
<1>6. blob \in {Named(taken.state), NoState,
                Promise!Written(Target(ev), ev.msisdn, taken.turn)}
  BY <1>3, <1>4, SettledState
<1>7. handler'[h] = [pc |-> "respond", ev |-> ev, screen |-> "menu"] /\ Frame(h)
      /\ store' = [store EXCEPT ![k] = saved]
  BY <1>1, GotoFrame DEF Save, Respond, Put
<1>8. PromisedSession[k] = ByName(found)
  BY <1>1, <1>2, PromisedMid
<1>9. PromisedSession'[k] = ByName(saved)
  <2>1. \A g \in Handlers : InMidTurn(g)' => handler'[g].ev.key # k
    BY <1>1, <1>2, <1>7 DEF InMidTurn, Frame, OneAtATime, Busy
  <2>2. store'[k] = saved
    BY <1>1, <1>3, <1>7 DEF TypeOK
  <2> QED
    BY <1>3, <2>1, <2>2, PromisedRest
<1>10. ASSUME NEW j \in Keys \ {k} PROVE PromisedSession'[j] = PromisedSession[j]
  <2>1. store'[j] = store[j]
    BY <1>1, <1>3, <1>7 DEF TypeOK
  <2> QED
    BY <1>7, <2>1, OtherPromises
<1>11. PromisedSession' = [PromisedSession EXCEPT ![k] = ByName(saved)]
  <2>1. PromisedSession = [j \in Keys |-> PromisedSession[j]]
    BY DEF PromisedSession
  <2>2. PromisedSession' = [j \in Keys |-> PromisedSession'[j]]
    BY DEF PromisedSession, ByName
  <2> QED
    BY <1>3, <1>9, <1>10, <2>1, <2>2
<1>12. ByName(saved) = [tenant |-> Target(ev), msisdn |-> ev.msisdn,
                        turn |-> taken.turn, state |-> blob]
  BY <1>5, ByNameFields
<1>13. CASE /\ found # NoSession /\ found.msisdn = ev.msisdn
            /\ found.tenant = Target(ev)
            /\ taken.turn = found.turn + 1 /\ taken.state = found.state
  <2>1. found \in SavedSession
    BY <1>3, <1>13
  <2>2. /\ PromisedSession[k] # NoSession
        /\ PromisedSession[k] = [tenant |-> Target(ev), msisdn |-> ev.msisdn,
                                 turn |-> found.turn, state |-> Named(found.state)]
    BY <1>8, <1>13, <2>1, ByNameFields
  <2>3. blob \in {Named(found.state), NoState,
                  Promise!Written(Target(ev), ev.msisdn, found.turn + 1)}
    BY <1>6, <1>13
  <2>4. PromisedSession' = [PromisedSession EXCEPT ![k].turn = found.turn + 1,
                                                   ![k].state = blob]
    <3>1. PromisedSession = [j \in Keys |-> PromisedSession[j]]
      BY DEF PromisedSession
    <3> DEFINE next == [PromisedSession[k] EXCEPT !.turn = found.turn + 1, !.state = blob]
    <3>2. ByName(saved) = next
      <4>1. PromisedSession[k] \in [tenant: {Target(ev)}, msisdn: {ev.msisdn},
                                    turn: {found.turn}, state: {Named(found.state)}]
        BY <2>2
      <4>2. next \in [tenant: {Target(ev)}, msisdn: {ev.msisdn},
                      turn: {found.turn + 1}, state: {blob}]
        <5> HIDE DEF found, blob, k, ev
        <5> QED
          BY <4>1
      <4>3. next = [tenant |-> Target(ev), msisdn |-> ev.msisdn,
                    turn |-> found.turn + 1, state |-> blob]
        <5> HIDE DEF next, found, blob, ev
        <5> QED
          BY <4>2
      <4> QED
        BY <1>12, <1>13, <4>3
    <3> QED
      BY <1>3, <1>11, <3>1, <3>2
  <2>5. Promise!Continue(k)
    <3>1. /\ PromisedSession[k].tenant = Target(ev)
          /\ PromisedSession[k].msisdn = ev.msisdn
          /\ PromisedSession[k].turn = found.turn
          /\ PromisedSession[k].state = Named(found.state)
      BY <2>2
    <3> HIDE DEF blob, k, found
    <3> QED
      BY <2>2, <2>3, <2>4, <3>1 DEF Promise!Continue
  <2> QED
    BY <1>3, <2>5 DEF Promise!Next
<1>14. CASE /\ found # NoSession =>
                 found.msisdn # ev.msisdn \/ found.tenant # Target(ev)
            /\ taken.turn = 1 /\ taken.state = NoState
  <2>1. PromisedSession[k] # NoSession =>
          \/ PromisedSession[k].msisdn # ev.msisdn
          \/ PromisedSession[k].tenant # Target(ev)
    <3>1. found = NoSession => PromisedSession[k] = NoSession
      BY <1>8 DEF ByName
    <3>2. found # NoSession =>
            PromisedSession[k].msisdn = found.msisdn /\ PromisedSession[k].tenant = found.tenant
      BY <1>3, <1>8, ByNameFields
    <3> QED
      BY <1>14, <3>1, <3>2
  <2>2. blob \in {NoState, Promise!Written(Target(ev), ev.msisdn, 1)}
    BY <1>6, <1>14 DEF Named
  <2>3. PromisedSession' =
          [PromisedSession EXCEPT ![k] = [tenant |-> Target(ev), msisdn |-> ev.msisdn,
                                          turn |-> 1, state |-> blob]]
    BY <1>11, <1>12, <1>14
  <2>4. Promise!Start(k)
    BY <1>3, <2>1, <2>2, <2>3 DEF Promise!Start
  <2> QED
    BY <1>3, <2>4 DEF Promise!Next
<1> QED
  BY <1>3, <1>4, <1>13, <1>14, TurnTaken

LEMMA NothingByName == ByName(NoSession) = NoSession
BY DEF ByName

\* A goroutine's step concerns its own dialogue.
LEMMA OwnDialogue ==
  ASSUME OrderlyInv, OrderlyInv', NEW h \in Handlers, NEW k \in Keys, Frame(h),
         InMidTurn(h) => handler[h].ev.key = k,
         InMidTurn(h)' => handler'[h].ev.key = k,
         \A j \in Keys \ {k} : store'[j] = store[j],
         PromisedSession'[k] \in {PromisedSession[k], NoSession}
  PROVE  Promise!Next
<1>1. \A j \in Keys \ {k} : PromisedSession'[j] = PromisedSession[j]
  BY OtherPromises
<1> QED
  BY <1>1, Vanishes

\* A turn that ends without a save leaves what it found, or nothing.
LEMMA UnsavedTurn ==
  ASSUME OrderlyInv, OrderlyInv', TurnsCarry, NEW h \in Handlers, InMidTurn(h),
         NEW screen, Respond(h, screen),
         Put(handler[h].ev.key, NoSession) \/ UNCHANGED store
  PROVE  Promise!Next
<1> DEFINE k == handler[h].ev.key
           found == handler[h].found
<1>1. TypeOK /\ TypeOK' /\ OneAtATime /\ OneAtATime' /\ Carries(h)
  BY DEF OrderlyInv, Ownership, TurnsCarry
<1>2. k \in Keys
  BY <1>1, HandlerFields, EventKey DEF InMidTurn, At
<1>3. handler'[h] = [pc |-> "respond", ev |-> handler[h].ev, screen |-> screen]
      /\ Frame(h)
  BY <1>1, GotoFrame DEF Respond
<1>4. /\ \A j \in Keys \ {k} : store'[j] = store[j]
      /\ store'[k] \in {store[k], NoSession}
  BY <1>1, <1>2 DEF Put, TypeOK
<1>5. PromisedSession[k] = ByName(found) /\ store[k] \in {found, NoSession}
  BY <1>1, PromisedMid DEF Carries
<1>6. PromisedSession'[k] = ByName(store'[k])
  <2>1. \A g \in Handlers : InMidTurn(g)' => handler'[g].ev.key # k
    BY <1>1, <1>3 DEF InMidTurn, Frame, OneAtATime, Busy
  <2> QED
    BY <1>2, <2>1, PromisedRest
<1>7. PromisedSession'[k] \in {PromisedSession[k], NoSession}
  BY <1>4, <1>5, <1>6, NothingByName
<1>8. ~InMidTurn(h)'
  BY <1>3 DEF InMidTurn
<1> QED
  BY <1>2, <1>3, <1>4, <1>7, <1>8, OwnDialogue

\* A step within a turn keeps what the turn has found.
LEMMA TurnGoesOn ==
  ASSUME OrderlyInv, OrderlyInv', NEW h \in Handlers, InMidTurn(h), InMidTurn(h)',
         handler'[h].ev = handler[h].ev, handler'[h].found = handler[h].found,
         Frame(h), UNCHANGED store
  PROVE  Promise!Next
<1> DEFINE k == handler[h].ev.key
<1>1. TypeOK /\ TypeOK' /\ OneAtATime /\ OneAtATime'
  BY DEF OrderlyInv, Ownership
<1>2. k \in Keys
  BY <1>1, HandlerFields, EventKey DEF InMidTurn, At
<1>3. PromisedSession[k] = ByName(handler[h].found)
  BY <1>1, PromisedMid
<1>4. PromisedSession'[k] = ByName(handler'[h].found)
  BY <1>1, PromisedMid
<1>5. PromisedSession'[k] = PromisedSession[k]
  BY <1>3, <1>4
<1> QED
  BY <1>2, <1>5, OwnDialogue

\* A turn begins with what is stored.
LEMMA LoadSees ==
  ASSUME ~StoreFaults, OrderlyInv, OrderlyInv', NEW h \in Handlers, Load(h)
  PROVE  Promise!Next
<1> DEFINE ev == handler[h].ev
           k == ev.key
<1>1. TypeOK /\ TypeOK' /\ OneAtATime /\ OneAtATime'
  BY DEF OrderlyInv, Ownership
<1>2. k \in Keys /\ Busy(h) /\ ~InMidTurn(h) /\ UNCHANGED store
  BY <1>1, HandlerFields, EventKey DEF Load, At, Busy, InMidTurn
<1>3. handler'[h] = [pc |-> "loaded", ev |-> ev, found |-> store[k],
                     sess |-> Resume(store[k], ev)]
      /\ Frame(h)
  <2>1. Goto(h, [pc |-> "loaded", ev |-> ev, found |-> store[k],
                 sess |-> Resume(store[k], ev)])
    BY DEF Load
  <2> QED
    BY <1>1, <2>1, GotoFrame
<1>4. PromisedSession[k] = ByName(store[k])
  <2>1. \A g \in Handlers : InMidTurn(g) => handler[g].ev.key # k
    BY <1>1, <1>2 DEF InMidTurn, OneAtATime, Busy
  <2> QED
    BY <1>2, <2>1, PromisedRest
<1>5. InMidTurn(h)' /\ handler'[h].ev.key = k /\ handler'[h].found = store[k]
  BY <1>3 DEF InMidTurn
<1>6. PromisedSession'[k] = ByName(store[k])
  BY <1>1, <1>5, PromisedMid
<1> QED
  BY <1>2, <1>3, <1>4, <1>5, <1>6, OwnDialogue

\* Sessions expire, or are lost with the goroutines in a restart.
LEMMA SessionsAreLost ==
  ASSUME OrderlyInv, OrderlyInv', TurnsCarry,
         \A k \in Keys : store'[k] \in {store[k], NoSession},
         UNCHANGED handler \/ \A h \in Handlers : handler'[h] = Idle
  PROVE  Promise!Next
<1>1. TypeOK /\ TypeOK' /\ OneAtATime /\ OneAtATime' /\ \A h \in Handlers : Carries(h)
  BY DEF OrderlyInv, Ownership, TurnsCarry
<1>2. ASSUME NEW k \in Keys
      PROVE  PromisedSession'[k] \in {PromisedSession[k], NoSession}
  <2>1. CASE \A h \in Handlers : InMidTurn(h) => handler[h].ev.key # k
    <3>1. PromisedSession[k] = ByName(store[k])
      BY <2>1, PromisedRest
    <3>2. \A h \in Handlers : InMidTurn(h)' => handler'[h].ev.key # k
      BY <2>1 DEF InMidTurn, Idle
    <3>3. PromisedSession'[k] = ByName(store'[k])
      BY <3>2, PromisedRest
    <3> QED
      BY <3>1, <3>3, NothingByName
  <2>2. CASE \E h \in Handlers : InMidTurn(h) /\ handler[h].ev.key = k
    <3>1. PICK h \in Handlers : InMidTurn(h) /\ handler[h].ev.key = k
      BY <2>2
    <3>2. PromisedSession[k] = ByName(handler[h].found)
          /\ store[k] \in {handler[h].found, NoSession}
      BY <1>1, <3>1, PromisedMid DEF Carries
    <3>3. CASE UNCHANGED handler
      <4>1. InMidTurn(h)' /\ handler'[h].ev.key = k /\ handler'[h].found = handler[h].found
        BY <3>1, <3>3 DEF InMidTurn
      <4>2. PromisedSession'[k] = ByName(handler[h].found)
        BY <1>1, <4>1, PromisedMid
      <4> QED
        BY <3>2, <4>2
    <3>4. CASE \A g \in Handlers : handler'[g] = Idle
      <4>1. \A g \in Handlers : ~InMidTurn(g)'
        BY <3>4 DEF InMidTurn, Idle
      <4>2. PromisedSession'[k] = ByName(store'[k])
        BY <4>1, PromisedRest
      <4> QED
        BY <3>2, <4>2, NothingByName
    <3> QED
      BY <3>3, <3>4
  <2> QED
    BY <2>1, <2>2
<1> QED
  BY <1>2, Vanishes

LEMMA StepIsATurn ==
  ASSUME Orderly, ~StoreFaults, OrderlyInv, OrderlyInv', TurnsCarry, [Next]_vars
  PROVE  Promise!Next
<1>0. TypeOK /\ TypeOK' /\ OneAtATime
  BY DEF OrderlyInv, Ownership
<1>1. ASSUME NEW h \in Handlers, NetworkStep(h) PROVE Promise!Next
  <2>1. PICK ev \in Event : Callback(h, ev)
    BY <1>0, <1>1, OrderlyCallback
  <2>2. ~InMidTurn(h) /\ ~InMidTurn(h)' /\ Frame(h) /\ UNCHANGED store
    BY <1>0, <2>1 DEF Callback, InMidTurn, Frame, TypeOK
  <2> QED
    BY <2>2, OtherPromises, Vanishes
<1>2. ASSUME NEW h \in Handlers, Deliver(h) PROVE Promise!Next
  <2> DEFINE taken == TakeTurn(handler[h].sess, Target(handler[h].ev))
  <2>1. handler[h] \in [pc: {"loaded"}, ev: Event, sess: Session,
                        found: SavedSession \cup {NoSession}]
    BY <1>0, <1>2 DEF Deliver, At, TypeOK, HandlerState
  <2>2. handler'[h] = [handler[h] EXCEPT !.pc = "deliver", !.sess = taken]
        /\ Frame(h) /\ UNCHANGED store
    <3>1. Goto(h, [handler[h] EXCEPT !.pc = "deliver", !.sess = taken])
      BY <1>2 DEF Deliver
    <3> QED
      BY <1>0, <1>2, <3>1, GotoFrame DEF Deliver
  <2>3. /\ handler'[h].pc = "deliver" /\ handler'[h].ev = handler[h].ev
        /\ handler'[h].found = handler[h].found
    BY <2>1, <2>2
  <2> QED
    BY <1>2, <2>2, <2>3, TurnGoesOn DEF Deliver, At, InMidTurn
<1>3. ASSUME NEW h \in Handlers, TenantReplies(h) PROVE Promise!Next
  <2>1. PICK reply : Goto(h, [pc |-> "replied", ev |-> handler[h].ev,
                              reply |-> reply, found |-> handler[h].found,
                              sess |-> handler[h].sess])
    BY <1>3 DEF TenantReplies
  <2>2. handler'[h] = [pc |-> "replied", ev |-> handler[h].ev, reply |-> reply,
                       found |-> handler[h].found, sess |-> handler[h].sess]
        /\ Frame(h) /\ UNCHANGED store
    BY <1>0, <1>3, <2>1, GotoFrame DEF TenantReplies
  <2> QED
    BY <1>3, <2>2, TurnGoesOn DEF TenantReplies, At, InMidTurn
<1>4. ASSUME NEW h \in Handlers, Release(h) \/ RouteFails(h) \/ DeliverFails(h) \/ Finish(h)
      PROVE  Promise!Next
  <2>1. /\ InMidTurn(h)
        /\ Put(handler[h].ev.key, NoSession) \/ UNCHANGED store
    BY <1>4 DEF Release, RouteFails, DeliverFails, Finish, Faulty, At, InMidTurn
  <2>2. PICK screen : Respond(h, screen)
    BY <1>4 DEF Release, RouteFails, DeliverFails, Finish
  <2> QED
    BY <2>1, <2>2, UnsavedTurn
<1>5. ASSUME NEW h \in Handlers, SaveFails(h) PROVE FALSE
  BY <1>5 DEF SaveFails, Faulty
<1>6. ASSUME NEW h \in Handlers, Render(h) \/ ResponseLost(h) PROVE Promise!Next
  <2>1. handler'[h] = Idle /\ Frame(h) /\ UNCHANGED store
    BY <1>0, <1>6, Answered
  <2>2. ~InMidTurn(h) /\ ~InMidTurn(h)'
    BY <1>6, <2>1 DEF Render, ResponseLost, At, InMidTurn, Idle
  <2> QED
    BY <2>1, <2>2, OtherPromises, Vanishes
<1>7. ASSUME NEW k \in Keys, Expire(k) PROVE Promise!Next
  <2>1. \A j \in Keys : store'[j] \in {store[j], NoSession}
    BY <1>0, <1>7 DEF Expire, Put, TypeOK
  <2> QED
    BY <1>7, <2>1, SessionsAreLost DEF Expire
<1>8. CASE Restart
  BY <1>8, SessionsAreLost DEF Restart
<1>9. CASE UNCHANGED vars
  BY <1>9, SessionsAreLost DEF vars
<1> QED
  BY <1>1, <1>2, <1>3, <1>4, <1>5, <1>6, <1>7, <1>8, <1>9, LoadSees, SaveIsATurn
  DEF Next, HandlerStep

LEMMA InitIsNoDialogue == Init => Promise!Init
<1> SUFFICES ASSUME Init PROVE Promise!Init
  OBVIOUS
<1>1. ASSUME NEW k \in Keys PROVE PromisedSession[k] = NoSession
  BY <1>1, PromisedRest, NothingByName DEF Init, Idle, InMidTurn
<1>2. PromisedSession = [k \in Keys |-> PromisedSession[k]]
  BY DEF PromisedSession
<1> QED
  BY <1>1, <1>2 DEF Promise!Init

(***************************************************************************)
(* On an orderly network with a sound store, the handler's steps from Load *)
(* to Save, each open to every other dialogue's steps, to expiry and to a  *)
(* restart, implement the atomic turns of Dialogue.                        *)
(***************************************************************************)
THEOREM TurnsImplementDialogue ==
  ASSUME Orderly, ~StoreFaults
  PROVE  Spec => TurnsAreAtomic
<1>1. Spec => []OrderlyInv
  BY OrderlyInvariant
<1>2. OrderlyInv /\ TurnsCarry /\ [Next]_vars => TurnsCarry'
  BY StepCarries
<1>3. OrderlyInv /\ OrderlyInv' /\ TurnsCarry /\ [Next]_vars => Promise!Next
  BY StepIsATurn
<1> QED
  BY <1>1, <1>2, <1>3, InitCarries, InitIsNoDialogue, PTL
  DEF Spec, TurnsAreAtomic, Promise!Spec
=============================================================================
