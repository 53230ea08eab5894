------------------------------ MODULE Gateway ------------------------------
(***************************************************************************)
(* The gateway's turn handler, gateway/internal/httpx/inbound.go, run by   *)
(* one goroutine (a Handler) for each callback in flight, over a session   *)
(* store, tenants that answer webhooks, and a network that sends           *)
(* callbacks and shows screens.                                            *)
(*                                                                         *)
(* Nothing in the handler holds a lock from Load to Save, so the steps of  *)
(* two handlers with the same session key interleave freely.               *)
(***************************************************************************)
EXTENDS Routing

CONSTANTS
  Handlers,      \* goroutines serving callbacks
  Keys,          \* session keys: (MNO, SessionID) pairs
  Subscribers,   \* MSISDNs
  Shortcodes,    \* codes a subscriber may dial
  Segments,      \* what a subscriber may type on a screen
  Tenants,       \* tenant names
  Config,        \* the configured tenants, in file order
  NoSession,     \* Load's ErrNotFound
  NoState,       \* a nil state blob
  NoTenant       \* the empty Tenant of a fresh session

CONSTANTS
  Orderly,       \* the network sends a callback only when none of that
                 \* dialogue is in flight, and repeats only the unanswered one
  Lossy,         \* a response may be lost on its way back to the network
  Abandons,      \* the network reports cancelled and timed-out dialogues
  StoreFaults,   \* store operations may return errors
  Expiry,        \* a session may reach its TTL between two operations
  Crashes,       \* the gateway may restart
  Durable        \* sessions survive a restart (Redis); memory loses them

CONSTANTS
  MaxCallbacks,  \* bound: callbacks sent in a behaviour
  MaxDepth       \* bound: inputs typed in one dialogue

ASSUME ConfigAssumption ==
  /\ Config \in Seq(TenantRecord(Tenants, Shortcodes, Segments))
  /\ NewRouterAccepts(Config)

ASSUME SentinelAssumption ==
  /\ NoRoute \notin Tenants
  /\ NoTenant \notin Tenants

VARIABLES
  store,     \* the session store: one session or NoSession for each key
  handler,   \* each goroutine's program counter and local variables
  dialogue,  \* the network's view of each session id
  sent       \* number of callbacks sent so far (bounded by MaxCallbacks)

vars == <<store, handler, dialogue, sent>>

----------------------------------------------------------------------------
(* Data *)

\* canonical.Event; terminal is Phase.Terminal(), a cancel or a timeout.
Event == [key: Keys, msisdn: Subscribers, shortcode: Shortcodes,
          path: Seq(Segments), terminal: BOOLEAN]

\* The tenant that answers an event, and its name.
Serving(ev) == RouteIndex(Config, ev.shortcode, ev.path)
Target(ev) == Route(Config, ev.shortcode, ev.path)

\* An event some tenant answers.
Routed == {ev \in Event : Target(ev) # NoRoute}

\* An application's opaque state, labelled with the tenant that wrote it (its
\* place in the configuration), the subscriber and the turn it was written for.
Blob == [owner: DOMAIN Config, msisdn: Subscribers, turn: Nat \ {0}]

\* session.Session, without the fields nothing reads back.
Session == [tenant: Tenants \cup {NoTenant}, msisdn: Subscribers, turn: Nat,
            state: Blob \cup {NoState}]

\* What the store holds was saved by a turn that had a tenant.
SavedSession == [tenant: Tenants, msisdn: Subscribers, turn: Nat \ {0},
                 state: Blob \cup {NoState}]

\* webhook.Reply as Deliver returns it: state NoState is an absent state.
Reply == [end: BOOLEAN, clear: BOOLEAN, state: Blob \cup {NoState}]

Idle == [pc |-> "idle"]

\* found is what Load saw; it is kept until the turn ends, for the properties.
HandlerState ==
  [pc: {"idle"}]
  \cup [pc: {"load"}, ev: Event]
  \cup [pc: {"loaded"}, ev: Event, sess: Session,
        found: SavedSession \cup {NoSession}]
  \cup [pc: {"deliver"}, ev: Routed, sess: SavedSession,
        found: SavedSession \cup {NoSession}]
  \cup [pc: {"replied"}, ev: Routed, sess: SavedSession, reply: Reply,
        found: SavedSession \cup {NoSession}]
  \cup [pc: {"respond"}, ev: Event, screen: {"menu", "end", "error", "none"}]

\* What the network last heard of a dialogue, and its latest event.
Unused == [at |-> "unused"]

DialogueState ==
  [at: {"unused"}]
  \cup [at: {"waiting", "menu", "end", "error", "none"}, ev: Event]

Init ==
  /\ store = [k \in Keys |-> NoSession]
  /\ handler = [h \in Handlers |-> Idle]
  /\ dialogue = [k \in Keys |-> Unused]
  /\ sent = 0

----------------------------------------------------------------------------
(* The network *)

InFlight(k) == {h \in Handlers : handler[h].pc # "idle" /\ handler[h].ev.key = k}

\* A callback arrives: net/http starts a goroutine, and Verify and Parse pass.
Callback(h, ev) ==
  /\ sent < MaxCallbacks
  /\ handler[h].pc = "idle"
  /\ Orderly => InFlight(ev.key) = {}
  /\ sent' = sent + 1
  /\ handler' = [handler EXCEPT ![h] = [pc |-> "load", ev |-> ev]]
  /\ UNCHANGED store

Await(k, ev) == dialogue' = [dialogue EXCEPT ![k] = [at |-> "waiting", ev |-> ev]]

\* A subscriber dials.  Networks reuse session ids once a dialogue is over.
Dial(h, k) ==
  /\ dialogue[k].at \in {"unused", "end", "error", "none"}
  /\ \E m \in Subscribers, sc \in Shortcodes :
       LET ev == [key |-> k, msisdn |-> m, shortcode |-> sc, path |-> <<>>,
                  terminal |-> FALSE]
       IN Callback(h, ev) /\ Await(k, ev)

\* The subscriber answers the menu shown: inputs accumulate in the path.
Type(h, k) ==
  /\ dialogue[k].at = "menu"
  /\ Len(dialogue[k].ev.path) < MaxDepth
  /\ \E seg \in Segments :
       LET ev == [dialogue[k].ev EXCEPT !.path = Append(@, seg)]
       IN Callback(h, ev) /\ Await(k, ev)

\* The subscriber hangs up, or the network times the dialogue out.
Abandon(h, k) ==
  /\ Abandons
  /\ dialogue[k].at \in {"waiting", "menu"}
  /\ ~dialogue[k].ev.terminal
  /\ LET ev == [dialogue[k].ev EXCEPT !.terminal = TRUE]
     IN Callback(h, ev) /\ Await(k, ev)

\* The callbacks of the dialogue the network may still repeat.
Repeatable(k) ==
  LET ev == dialogue[k].ev
  IN IF Orderly
     THEN {e \in {ev} : dialogue[k].at = "waiting"}
     ELSE {ev} \cup
          {[ev EXCEPT !.path = SubSeq(@, 1, n), !.terminal = FALSE] :
             n \in 0 .. Len(ev.path)}

Retry(h, k) ==
  /\ dialogue[k].at # "unused"
  /\ \E ev \in Repeatable(k) : Callback(h, ev)
  /\ UNCHANGED dialogue

----------------------------------------------------------------------------
(* The handler *)

Fresh(ev) ==
  [tenant |-> NoTenant, msisdn |-> ev.msisdn, turn |-> 0, state |-> NoState]

\* Mutant: the subscriber is not compared.
ResumeAnyone(found, ev) == IF found = NoSession THEN Fresh(ev) ELSE found

Resume(found, ev) ==
  IF found = NoSession \/ found.msisdn # ev.msisdn THEN Fresh(ev) ELSE found

\* Mutants: a handover resets the turn count or the state, not both.
HandOverKeepsState(sess, target) ==
  IF sess.tenant \in {NoTenant, target} THEN sess ELSE [sess EXCEPT !.turn = 0]

HandOverKeepsTurn(sess, target) ==
  IF sess.tenant \in {NoTenant, target} THEN sess ELSE [sess EXCEPT !.state = NoState]

HandOver(sess, target) ==
  IF sess.tenant \in {NoTenant, target}
  THEN sess
  ELSE [sess EXCEPT !.state = NoState, !.turn = 0]

\* Mutant: the turn is not counted.
TakeTurnUncounted(sess, target) ==
  [HandOver(sess, target) EXCEPT !.tenant = target]

TakeTurn(sess, target) ==
  [HandOver(sess, target) EXCEPT !.tenant = target, !.turn = @ + 1]

Settle(sess, reply) ==
  [sess EXCEPT !.state = IF reply.clear THEN NoState
                         ELSE IF reply.state # NoState THEN reply.state
                         ELSE @]

\* What the serving tenant can answer: its state, if it sends one, is its own.
Answers(ev, turn) ==
  [end: BOOLEAN, clear: BOOLEAN,
   state: {NoState, [owner |-> Serving(ev), msisdn |-> ev.msisdn,
                     turn |-> turn]}]

At(h, point) == handler[h].pc = point

Goto(h, state) == handler' = [handler EXCEPT ![h] = state]

Respond(h, screen) ==
  Goto(h, [pc |-> "respond", ev |-> handler[h].ev, screen |-> screen])

Put(k, s) == store' = [store EXCEPT ![k] = s]

\* A Redis operation that returns an error may have been applied or not.
Faulty(k, s) == StoreFaults /\ (Put(k, s) \/ UNCHANGED store)

\* sessions.Load: an error is read as a new dialogue, like ErrNotFound.
Load(h) ==
  /\ At(h, "load")
  /\ LET ev == handler[h].ev
     IN \E found \in {store[ev.key]} \cup {s \in {NoSession} : StoreFaults} :
          Goto(h, [pc |-> "loaded", ev |-> ev, found |-> found,
                   sess |-> Resume(found, ev)])
  /\ UNCHANGED <<store, dialogue, sent>>

\* A terminal phase releases the session; a failed Delete is only logged.
Release(h) ==
  /\ At(h, "loaded")
  /\ handler[h].ev.terminal
  /\ LET k == handler[h].ev.key IN Put(k, NoSession) \/ Faulty(k, NoSession)
  /\ Respond(h, "none")
  /\ UNCHANGED <<dialogue, sent>>

RouteFails(h) ==
  /\ At(h, "loaded")
  /\ ~handler[h].ev.terminal
  /\ Target(handler[h].ev) = NoRoute
  /\ Respond(h, "error")
  /\ UNCHANGED <<store, dialogue, sent>>

\* Router.Route, the handover, and the webhook request on its way.
Deliver(h) ==
  /\ At(h, "loaded")
  /\ ~handler[h].ev.terminal
  /\ Target(handler[h].ev) # NoRoute
  /\ Goto(h, [handler[h] EXCEPT !.pc = "deliver",
                                !.sess = TakeTurn(@, Target(handler[h].ev))])
  /\ UNCHANGED <<store, dialogue, sent>>

\* The tenant answers 200 with a reply inside every limit of Dispatcher.Deliver.
TenantReplies(h) ==
  /\ At(h, "deliver")
  /\ \E reply \in Answers(handler[h].ev, handler[h].sess.turn) :
       Goto(h, [pc |-> "replied", ev |-> handler[h].ev, reply |-> reply,
                found |-> handler[h].found, sess |-> handler[h].sess])
  /\ UNCHANGED <<store, dialogue, sent>>

\* Mutant: no deadline on the tenant's answer.
DeliverWaits(h) == FALSE

\* Deliver errs: the tenant's timeout, a cancelled request context, a status
\* other than 200, or a reply that is too long, malformed or over budget.
DeliverFails(h) ==
  /\ At(h, "deliver")
  /\ Respond(h, "error")
  /\ UNCHANGED <<store, dialogue, sent>>

\* Mutant: the session of an ended dialogue is kept.
FinishKeeps(h) ==
  /\ At(h, "replied")
  /\ handler[h].reply.end
  /\ Respond(h, "end")
  /\ UNCHANGED <<store, dialogue, sent>>

\* The reply ends the dialogue; a failed Delete is only logged.
Finish(h) ==
  /\ At(h, "replied")
  /\ handler[h].reply.end
  /\ LET k == handler[h].ev.key IN Put(k, NoSession) \/ Faulty(k, NoSession)
  /\ Respond(h, "end")
  /\ UNCHANGED <<dialogue, sent>>

Save(h) ==
  /\ At(h, "replied")
  /\ ~handler[h].reply.end
  /\ Put(handler[h].ev.key, Settle(handler[h].sess, handler[h].reply))
  /\ Respond(h, "menu")
  /\ UNCHANGED <<dialogue, sent>>

\* Mutant: the screen is served although Save has failed.
SaveFailsSilently(h) ==
  /\ At(h, "replied")
  /\ ~handler[h].reply.end
  /\ Faulty(handler[h].ev.key, Settle(handler[h].sess, handler[h].reply))
  /\ Respond(h, "menu")
  /\ UNCHANGED <<dialogue, sent>>

\* Save errs: the screen is withheld and the subscriber sees the error screen.
SaveFails(h) ==
  /\ At(h, "replied")
  /\ ~handler[h].reply.end
  /\ Faulty(handler[h].ev.key, Settle(handler[h].sess, handler[h].reply))
  /\ Respond(h, "error")
  /\ UNCHANGED <<dialogue, sent>>

\* The response reaches the network, which shows it if it still waits for it.
Render(h) ==
  /\ At(h, "respond")
  /\ LET ev == handler[h].ev
     IN dialogue' = [dialogue EXCEPT ![ev.key] =
                       IF @ = [at |-> "waiting", ev |-> ev]
                       THEN [@ EXCEPT !.at = handler[h].screen]
                       ELSE @]
  /\ Goto(h, Idle)
  /\ UNCHANGED <<store, sent>>

\* The response is lost, or the network stopped listening for it.
ResponseLost(h) ==
  /\ Lossy
  /\ At(h, "respond")
  /\ Goto(h, Idle)
  /\ UNCHANGED <<store, dialogue, sent>>

----------------------------------------------------------------------------
(* The store's expiry, and restarts *)

Expire(k) ==
  /\ Expiry
  /\ store[k] # NoSession
  /\ Put(k, NoSession)
  /\ UNCHANGED <<handler, dialogue, sent>>

Restart ==
  /\ Crashes
  /\ handler' = [h \in Handlers |-> Idle]
  /\ store' = IF Durable THEN store ELSE [k \in Keys |-> NoSession]
  /\ UNCHANGED <<dialogue, sent>>

----------------------------------------------------------------------------
NetworkStep(h) ==
  \E k \in Keys : Dial(h, k) \/ Type(h, k) \/ Abandon(h, k) \/ Retry(h, k)

HandlerStep(h) ==
  \/ Load(h) \/ Release(h) \/ RouteFails(h) \/ Deliver(h) \/ DeliverFails(h)
  \/ Finish(h) \/ Save(h) \/ SaveFails(h) \/ Render(h)

Next ==
  \/ \E h \in Handlers :
       NetworkStep(h) \/ HandlerStep(h) \/ TenantReplies(h) \/ ResponseLost(h)
  \/ \E k \in Keys : Expire(k)
  \/ Restart

Spec == Init /\ [][Next]_vars

(***************************************************************************)
(* The Go scheduler runs every goroutine that can run, and each wait in    *)
(* the handler is bounded: the tenant's by context.WithTimeout (which is   *)
(* DeliverFails), Redis's by its client's timeouts.  Nothing is assumed of *)
(* the tenants, the network or the subscribers.                            *)
(***************************************************************************)
Fairness == \A h \in Handlers : WF_vars(HandlerStep(h))

FairSpec == Spec /\ Fairness

----------------------------------------------------------------------------
(* Properties *)

\* Every variable has its type; what is stored was saved by a routed turn.
TypeOK ==
  /\ store \in [Keys -> SavedSession \cup {NoSession}]
  /\ handler \in [Handlers -> HandlerState]
  /\ dialogue \in [Keys -> DialogueState]
  /\ sent \in Nat

InTurn(h) == handler[h].pc \in {"deliver", "replied"}

(***************************************************************************)
(* No tenant ever reads what another stored (store.go:62-66), nor what it  *)
(* stored for another subscriber (inbound.go:124-131): the state a webhook *)
(* request carries was written by the tenant it goes to (that entry of the *)
(* configuration, not merely one of its name, tenant.go:136-139), for the  *)
(* subscriber it is about, whatever handlers interleave, sessions expire,  *)
(* ids are reused or operations fail.                                      *)
(***************************************************************************)
StateStaysWithItsTenant ==
  \A h \in Handlers :
    InTurn(h) /\ handler[h].sess.state # NoState =>
      /\ handler[h].sess.state.owner = Serving(handler[h].ev)
      /\ handler[h].sess.state.msisdn = handler[h].ev.msisdn

(***************************************************************************)
(* The state a request carries was written in an earlier turn than the one *)
(* it announces; on turn 1 there is none (webhook/envelope.go:31-34).      *)
(***************************************************************************)
StateIsFromAnEarlierTurn ==
  \A h \in Handlers :
    InTurn(h) /\ handler[h].sess.state # NoState =>
      handler[h].sess.state.turn < handler[h].sess.turn

(***************************************************************************)
(* Why the two hold: every session, stored or in a goroutine's hands,      *)
(* carries only a state of its own tenant and subscriber and from no later *)
(* turn, and a turn changes tenant, state and count together               *)
(* (inbound.go:149-163, 174-178).                                          *)
(***************************************************************************)
OwnState(s) ==
  s.state # NoState =>
    /\ Config[s.state.owner].name = s.tenant
    /\ s.state.msisdn = s.msisdn
    /\ s.state.turn <= s.turn

StoredStateIsOwn ==
  \A k \in Keys : store[k] # NoSession => OwnState(store[k])

LoadedStateIsOwn ==
  \A h \in Handlers :
    At(h, "loaded") => /\ OwnState(handler[h].sess)
                       /\ handler[h].sess.msisdn = handler[h].ev.msisdn

TurnIsOwn ==
  \A h \in Handlers :
    InTurn(h) =>
      /\ OwnState(handler[h].sess)
      /\ handler[h].sess.msisdn = handler[h].ev.msisdn
      /\ handler[h].sess.tenant = Target(handler[h].ev)

ReplyIsOwn ==
  \A h \in Handlers :
    At(h, "replied") => handler[h].reply \in Answers(handler[h].ev, handler[h].sess.turn)

Ownership ==
  /\ TypeOK
  /\ StoredStateIsOwn
  /\ LoadedStateIsOwn
  /\ TurnIsOwn
  /\ StateIsFromAnEarlierTurn
  /\ ReplyIsOwn

(***************************************************************************)
(* Once the network has heard that a dialogue is over, by the tenant's END *)
(* or by a terminal phase, no session is left behind (inbound.go:135-143,  *)
(* 180-184), whatever expires, is lost or restarts on the way.             *)
(***************************************************************************)
OverLeavesNothing ==
  \A k \in Keys : dialogue[k].at \in {"end", "none"} => store[k] = NoSession

(***************************************************************************)
(* A subscriber looking at a menu is remembered: the store holds that      *)
(* subscriber's session with the tenant that served it, even when store    *)
(* operations fail (inbound.go:187-192: fail the dialogue rather than      *)
(* dropping the user into a menu that has forgotten them).                 *)
(***************************************************************************)
MenuIsRemembered ==
  \A k \in Keys :
    dialogue[k].at = "menu" =>
      /\ store[k] # NoSession
      /\ store[k].msisdn = dialogue[k].ev.msisdn
      /\ store[k].tenant = Target(dialogue[k].ev)

(***************************************************************************)
(* The session the abstract Dialogue sees: while a turn is in progress,    *)
(* the one it loaded, so that an expiry in mid-turn counts only if the     *)
(* turn fails.                                                             *)
(***************************************************************************)
MidTurn(k) == {h \in InFlight(k) : handler[h].pc \in {"loaded", "deliver", "replied"}}

\* Dialogue knows tenants by name.
ByName(s) ==
  IF s = NoSession \/ s.state = NoState THEN s
  ELSE [s EXCEPT !.state.owner = Config[@].name]

\* ErrNotFound is no session, of the store or of Dialogue.
ASSUME AbsenceAssumption ==
  /\ NoSession \notin SavedSession
  /\ NoSession \notin [tenant: Tenants, msisdn: Subscribers, turn: Nat \ {0},
                       state: [owner: Tenants, msisdn: Subscribers, turn: Nat \ {0}]
                              \cup {NoState}]

PromisedSession ==
  [k \in Keys |-> ByName(IF MidTurn(k) = {} THEN store[k]
                         ELSE handler[CHOOSE h \in MidTurn(k) : TRUE].found)]

Promise == INSTANCE Dialogue WITH session <- PromisedSession

(***************************************************************************)
(* On an orderly network with a sound store the handler's many steps       *)
(* implement the atomic turns of Dialogue: no update is lost, no turn      *)
(* number is skipped or repeated, a handover starts clean.                 *)
(***************************************************************************)
TurnsAreAtomic == Promise!Spec

(***************************************************************************)
(* A callback the network waits on is answered, whatever the tenants do    *)
(* and the store fails at (inbound.go:85-90: a dialogue that returns       *)
(* nothing tells the user less than an error screen), unless the answer is *)
(* lost on its way or the process restarts under it.                       *)
(***************************************************************************)
InService(k) ==
  /\ dialogue[k].at = "waiting"
  /\ \E h \in InFlight(k) : handler[h].ev = dialogue[k].ev

EveryCallbackIsAnswered == \A k \in Keys : InService(k) ~> ~InService(k)

(***************************************************************************)
(* inbound_test.go:312-313: a cancelled or timed-out dialogue "must not    *)
(* leave state behind".  Overlapping callbacks refute it.                  *)
(***************************************************************************)
AbandonedLeavesNothing ==
  \A k \in Keys : dialogue[k].at = "none" => store[k] = NoSession
=============================================================================
