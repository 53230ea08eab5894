# A verification of OpenUSSD in TLA+

OpenUSSD is a gateway between mobile networks' USSD callbacks and web
applications (Go, `gateway/`), an SDK for those applications (`sdk/go/`), and a
reference application for the fediverse (`adapters/fediverse/`). This directory
models the parts of it that keep state or do arithmetic that is hard to test,
checks them with TLC on small instances, and proves the most important results
with TLAPS for every instance. All paths below are relative to the repository.

## 1. Inventory

| Part | State | Operations | Status |
|---|---|---|---|
| Inbound handler, `gateway/internal/httpx/inbound.go` | local to each goroutine | `ServeHTTP`, `handle`: load, route, hand over, deliver, settle, save or delete, render | modelled |
| Session store, `session/store.go` | the live session of each (MNO, session id) | Load, Save, Delete | modelled (contract) |
| In-process store, `session/memory.go` | map, deadlines, sweeper | Load, Save, Delete, Close, sweep | modelled |
| Redis store, `session/redis.go` | in Redis | the same | partly: its errors, TTL, durability, opening and closing |
| Router, `tenant/tenant.go` | routing table | NewRouter, Route | modelled |
| Dispatcher, `tenant/dispatch.go` | connection pool | Deliver | partly: what it may answer, and when |
| Events, responses, envelope, `canonical/event.go`, `webhook/envelope.go` | none | validation, NormaliseState | partly: the fields the control reads |
| Screen encodings, `canonical/encoding.go` | none | ScreenCost, Budget, FitsScreen | modelled |
| Signatures, `webhook/sign.go` | none | Sign, Verify | not modelled (one verdict on one request and one clock) |
| Adapters, `gateway/internal/adapter/africastalking`, `simulator` | none | Parse, Render | modelled (Render is a prefix) |
| Registry and trusted proxies, `adapter/adapter.go`, `trustedproxy.go` | the allowlists | Register, ParsePrefixes, ClientAddr, Verify | modelled |
| Configuration, `config/config.go` | none | Load, defaults, Validate | partly: YAML is a library's |
| Process, `cmd/gateway/main.go` | configuration, registry, store, turns in service | start, serve, shut down | modelled |
| SDK application, `sdk/go/app.go`, `handler.go` | none between turns: the blob in the gateway's session | NewApp, Turn, render | modelled |
| SDK screens, `sdk/go/render.go`, `gsm.go` | none | Shrink, Truncate, Paginate, Menu, MenuFit, Label, ToGSM, OneLine | modelled |
| Translations, `sdk/go/i18n.go` | dictionary | T | not modelled (a lookup) |
| Fediverse application, `adapters/fediverse/main.go` | posts, cursor, page and count in the blob | four screens | modelled |
| Mastodon client, `adapters/fediverse/mastodon.go` | none | fetch, toPost, capBytes | partly: HTML and HTTP are what they may yield |
| Handset simulator, `cmd/ussdsim` | the answers typed | dial, reply, hang up | partly: its loop |
| Site | | | not modelled (pages) |

How they interact: a network POSTs a callback; the adapter makes an `Event` of
it (session id, subscriber, and *all* inputs so far as a path); the handler
loads the session, routes by shortcode and path, POSTs the event, the turn
number and the tenant's opaque state to the tenant; the SDK decodes the state,
runs the `Handle` of the stored screen on the last input and the `Prompt` of
the next one, and replies with a screen and the state to store; the handler
saves or deletes the session and answers the network.

What is hard here:

* **Concurrency.** No lock spans Load to Save. Networks repeat callbacks, cancel
  dialogues and reuse ids, so handlers with one key overlap.
* **Failure.** Store operations may fail with or without effect; tenants time
  out; the process restarts; sessions expire at any moment.
* **Ordering.** A handover between tenants is decided anew every turn from the
  path, and the state must never cross it.
* **Place.** The application is stateless: the screen on the handset and the
  screen in the stored blob must stay one and the same.
* **Arithmetic.** One rune changes the encoding, and so the cost of all before
  it; binary searches, page breaks and menus are built on that measure.
* **Keys.** The keys on the screen are a text that is cut to size; the keys the
  next turn takes are decided elsewhere, from state stored one turn earlier.
* **Start and stop.** A signal may come between any two steps of a start, and a
  shutdown meets turns at every point.
* **Allowlists.** A range or an address has two notations, and the header that
  names the client is in part written by the client.

`PROJECT.json` lists these as hazards, each at its line with the properties that
cover it.

## 2. Modules

| Module | What it is | Code |
|---|---|---|
| `Routing` | which configurations `NewRouter` accepts; `Route` | `tenant.go` |
| `SharedShortcode` | routing over the life of a dialogue | `tenant.go`, `inbound.go:145-154` |
| `Gateway` (on `Routing`) | handlers, store, network | `inbound.go`, `dispatch.go`, `redis.go`, `main.go` |
| `Dialogue` | abstract: what a turn does to a session, atomically | |
| `SessionStore` | abstract: the store's contract for overlapping calls | `store.go` |
| `MemoryStore` | the in-process store at the grain of its mutex and clock reads | `memory.go` |
| `App` | an SDK application behind the gateway | `app.go`, `handler.go` |
| `ScreenWalk` | abstract: an application that keeps its place itself | |
| `ScreenBudget` | encodings, cutting, pages, labels, menus (operators) | `encoding.go`, `render.go`, `gsm.go` |
| `ScreenPromises` (on `ScreenBudget`) | what is promised of any text and any menu | |
| `Screens` (on `ScreenPromises`) | enumerates texts and menus, and keeps the promises for them | |
| `Adapters` (on `ScreenBudget`) | callbacks to events (operators) | `africastalking/`, `simulator/`, `event.go` |
| `Fediverse` (on `Adapters`) | the reference application on real screens, through either network | `adapters/fediverse/`, `app.go`, `ussdsim` |
| `TrustedProxy` | whom an allowlist admits (operators) | `trustedproxy.go` |
| `Process` (on `Routing`, `TrustedProxy`) | a process from its configuration to its exit | `cmd/gateway/main.go`, `config.go`, `adapter.go` |
| `MC*` | constants for TLC | |
| `ScreenLemmas` (on `ScreenPromises`) | the promises proved of any text, page and menu | |
| `SharedShortcodeProofs`, `GatewayProofs`, `MemoryStoreProofs`, `AppProofs`, `ProcessProofs`, `ScreenProofs` (on `Screens`, `ScreenLemmas`), `FediverseProofs` (on `Fediverse`, `ScreenLemmas`) | theorems | |

Definitions marked *Mutant* in a comment are plausible bugs. Nothing uses them:
`PROJECT.json` says which definition each one replaces and which property
notices.

### Gateway

`handler[h]` is a goroutine: its program counter and the local variables of
`handle` that are live there. A step runs from one point at which another
handler can interfere to the next:

| pc | next action | code |
|---|---|---|
| idle | `Callback` (from `Dial`, `Type`, `Abandon`, `Retry`) | `ServeHTTP` 56-83 |
| load | `Load` | 113-133 |
| loaded | `Release`, `RouteFails`, `Deliver` | 137-143, 145-148, 150-169 |
| deliver | `TenantReplies`, `DeliverFails` | `dispatch.go` 78-146 |
| replied | `Finish`, `Save`, `SaveFails` | 174-193 |
| respond | `Render`, `ResponseLost` | `ServeHTTP` 84-101 |

`store` is any `session.Store`; `MemoryStore` shows that the in-process one is
as atomic as `store` is taken to be, except for the late expiry of what a Load
has read, which to the handler is a Load that fails (`StoreFaults`). A state blob is labelled with the tenant, subscriber and turn
that wrote it: the labels are what the properties are about, and no action
reads them. `dialogue` is the network's view of each session id: the last event
sent and what it heard of it. The network is external; its switches (`Orderly`,
`Lossy`, `Abandons`) and the environment's (`StoreFaults`, `Expiry`, `Crashes`,
`Durable`) are constants, so that each run says what its property depends on.
A cancel or a timeout is one kind of event, as for the handler. The times
`CreatedAt` and `UpdatedAt` and the session's `Shortcode` are left out: nothing
reads them back.

### Session stores

In `MemoryStore` a call is up to three steps: `Load` reads the map, then the
clock; `Save` reads the clock, then writes. The sweeper does the same in two.
One assumption is made of the scheduler, in `Tick`: a goroutine is not stopped
for a whole TTL (180 s) between reading the clock in `Save` and taking the
mutex. Without it a Save could store a session that has already expired. The
clock is Go's monotonic one and may stand still between any two reads.

Redis executes one command at a time, so its store is the atomic one with
errors: `Faulty` in `Gateway`.

### App

One subscriber, one application, and one gateway turn as one step:
`TurnsAreAtomic` justifies this for a network that waits for its answers. An
application is data: its screens, those with a Handle, and for each of them a
set of outcomes (the Action returned, the language left behind, and whether the
data changed). A rendered screen is the name of the screen with the language and
data it was rendered from, below the notice if there is one. `Deploy` replaces the
application in mid-dialogue; a version has a schema, and a blob of another
schema does not decode. A blob is labelled with the version that wrote it, of
which the code stores the schema alone. Two things are left out: the size of screens (that is
`ScreenBudget`) and Prompts that change `State` or `Lang`, so what a Prompt
writes is outside these results.

### ScreenBudget

A text is a sequence of runes, and a rune stands for its kind: basic, extended,
astral, a space, a line break, something with a transliteration. `ScreenPromises`
states each promise of the SDK as a predicate of what an application may hand to
it; `Screens` is a state machine only in that it enumerates such inputs: a text
grows by one rune, or a menu by an item or a rune of its last label. `Search` is the binary search the
three callers share, kept as a search because whether its predicate is monotone
is the question. Capacities are parameters, because what matters is their order
and the texts around them.

### Adapters and Fediverse

`Adapters` translates `Parse` of both adapters. Subscribers' answers are texts
without a star, which `Event.Validate` rejects and which Africa's Talking could
not tell from its own separator.

`Fediverse` puts the four screens of the application on screens of a size: what
the handset shows is a text, and a subscriber reads keys off it. A gateway turn
is one step, as in `App`, which covers the failures; here the session can only
be there or have expired. `network` is the adapter the subscriber dials
through, and `Events` are all the events it may make of a callback: Africa's
Talking may send the number with its plus, with the blank an unescaped plus
decodes to, or without, another way each turn, and the simulator may leave the
phase out. `Prompt` returns the state as well as the text, because the prompts
of the timeline and of a post write to it (`Listed`, `Page`). A post is what
`toPost` makes of a status: boosts, media, the display name or the account, the
byte limit; what `stripHTML` and `humaniseTime` make of a status is a parameter
(`content`, `age`). `Number` is `strconv.Atoi` as the timeline uses it, with a
sign and leading zeros, so ` +01` chooses the first post; `Decimal` writes a number
of any width. `KeysIn` is what a subscriber takes for a key: some digits before a dot
and a blank, after a blank or a line break. What an author writes may read like
that too (a post that says `5. a`), and no screen could prevent it: `PlainPosts`
names the dialogues where it does not, and the instance holds both kinds.

### TrustedProxy and Process

An address is a sequence of bits and its length is its family; the longer
family holds the shorter one in a mapped range. `ParsePrefixes` rebases mapped
ranges, `ClientAddr` walks the header from its end. What a range is meant to
hold is stated apart (`InRanges`), in the longer family alone.

In `Process` the variable `pc` is the point `run` has reached, and each of its
steps either goes on or returns with a reason; `CloseStore` is the deferred
call, and runs only where it was reached. `turns[t]` is a request in service:
being read, or at its tenant, and how much time is left of either. `Tick` is
the only action that takes time; it takes it from every request and from the
grace. A request that is being read has `ReadTime`, the tenant its own timeout or
the default, a shutdown `ShutdownGrace`. `Signal` may come at any point; before
`NotifyContext` it kills the process. `Gateway` models the turns of a running
process and a restart as one step; `Process` says when a restart may cut turns.

## 3. Runs

All bounds are constants of the `.cfg` files.

| Run | Property | Bounds | Shows |
|---|---|---|---|
| `GatewayRaces` | `TypeOK`, `Ownership`, `StateStaysWithItsTenant`, `StateIsFromAnEarlierTurn` | 2 handlers, 1 key, 2 subscribers, 4 callbacks, depth 2; everything may go wrong | no state crosses tenants or subscribers |
| `GatewayOrderly` | `OverLeavesNothing`, `TurnsAreAtomic` | 5 callbacks, depth 3; orderly network, sound store that restarts lose | the handler implements `Dialogue` |
| `GatewayMenu` | `MenuIsRemembered`, `EveryCallbackIsAnswered` | 5 callbacks, depth 3; orderly network, failing durable store; fairness of the handlers | a menu on a handset has its session, and no callback waits for ever |
| `RoutingTables` | `EveryPathIsRouted`, `MostSpecificWins`, `EveryTenantIsReachable`, `HandoversOnlyDeepen` | up to 3 tenants, 2 shortcodes, prefixes of 2, depth 3 | routing is total, independent of the file's order, shadows no tenant, and only deepens |
| `MemoryStore` | `TypeOK`, `MeetsContract`, `ExpiredIsSwept` | 2 callers, 1 key, 2 sessions, TTL 2, time to 5; fairness of the sweeper | every call is atomic, and the map does not keep the expired |
| `AppFaults` | `TypeOK`, `StoredScreenAsks`, `ShownIsStored` | 3 versions of 4 screens, 2 languages; every fault, expiry and redeployment | no dialogue reaches a dead screen, and the handset shows the stored one |
| `AppWalk` | `WalksTheScreens` | one version, no repeats; data to 8 | the application implements `ScreenWalk` |
| `Screens` | `ShrinkFits`, `SearchFindsTheLongest`, `PagesFit`, `PagesLoseNothing`, `LabelIsOneGSMLine`, `MenuOffersItsFirstItems`, `LabelsAreLongest`, `FooterStays` | 21 septets, 12 units; texts that start empty, with words of 7 or with words of 16 runes and go on for 7 of 4 kinds or 4 of 7; reserves 1, 6 and 10; menus of 3 items with 6 runes of 4 kinds in all labels; 310600 states | what is cut fits, and no more is cut than must be; menus lose options only from the end, and never their footer |
| `Fediverse` | `TypeOK`, `ShownKeysAreTaken`, `TakenKeysAreShown`, `PostsAreShownWhole`, `EventIsTheDialogue`, `KeysDoWhatTheySay` | dialogues of 5 answers, 6 inputs (empty, a key of two digits, one with a sign and zeros), 5 timelines of up to ten posts, both networks; 72 septets, 32 units; 91972 states | the keys on the handset are the keys the next turn takes, each does what its text says, and a page that the reserve measures is on the screen whole |
| `Process` | `TypeOK`, `ExitReleasesTheStore`, `OnlySlowTurnsAreCut`, `AllowlistIsExact`, `ServingAnswersSomeone`, `StopsInTime` | 22 files and an unreadable one, 2 requests in service, grace 3, default timeout 1, reading 1; addresses of 2 and 4 bits; fairness | whatever fails or interrupts it, a process releases its store, admits exactly whom it should, lets reasonable turns finish, and exits |

Why these bounds are enough to meet the cases: two handlers are what a race
needs, since the handler compares its session with one store entry only. Four
callbacks allow a dial, a handover, a repeat of the dial and one more; two
subscribers on one key are an id reused. Two inputs pass the handover in the
configuration (a menu, and a service behind `1`) and go beyond it. Three
tenants with prefixes of two segments nest twice, in any order of the file. In
the store a TTL of two ticks leaves room for a Save, an expiry and a sweep to
fall between the two steps of a call. Texts are longer than a screen in both
encodings, so that every branch of `Truncate` and `Shrink` runs, and long enough
for two or more pages; one character outside GSM 03.38 fits beside a footer, and
two do not. The capacities keep
one relation of the code's 182 septets and 70 units: what comes before the
rune that forces UCS-2 fits in septets if the whole fits in units, even if all
of it is extended. `SearchFindsTheLongest` rests on it: with 7 septets and 6
units, `^^^` leaves no room for a reserve of 2 and the same text with a curly
quote after it does. Five answers reach the third page of a post, or a second post
after a page of the first. The screens of `Fediverse` and their words are cut
down (182 septets to 72, 70 units to 32, a post of 900 bytes to 90, an author
line of 28 runes to 6, a page counter of 99 to 9), so that a list of ten posts
shown to the last and one cut before it, a post of three pages, a page that fills
its screen to the last rune, a notice above it, a post without a text and one
whose words read as a key all occur.
In `Process` a tenant of 3 ticks does not fit into the grace and one of 1 does,
so both sides of `Quick` occur; each file has one thing that is wrong or worth
meeting, and the ranges are one of the shorter family, the same one mapped, one
inside the mapped range, one around it and one beside it. The runs without
deadlock checking are those that stop at a bound or, as `Process`, with an
exit.

Fairness is assumed in three runs. `GatewayMenu` assumes it of the handlers'
steps alone (`Fairness`): Go runs every runnable goroutine, and each wait in
the handler is bounded, the tenant's by `context.WithTimeout`
(`dispatch.go:100`), Redis's by its client. `TenantReplies` is not in it: a
tenant may never answer. `MemoryStore` assumes that the ticker keeps firing and
the sweeper's goroutine runs. `Process` assumes that `run` goes on when it can,
that time passes, and that a request whose deadline has come ends (`Expired`);
nothing is assumed of tenants, of networks, which may keep calling, or of the
signal. A sender that stops in the middle of a request is ended by the server's
read timeout (`main.go:93`).

## 4. Where code and documents disagree

Each of these runs has one property, which TLC refutes.

| Run | Property | Says | The code |
|---|---|---|---|
| `GatewayCancelRace` | `AbandonedLeavesNothing` | a cancelled dialogue "must not leave state behind" (`inbound_test.go:312-313`) | a turn in flight saves after the cancel's Delete |
| `FediverseBack` | `NamesLeaveTheControls` | the author line is "Bounded so a long display name cannot push the navigation controls off the bottom of the screen" (`adapters/fediverse/main.go:315-316`) | the reserve counts its runes (`main.go:279`), and those of the GSM extension table cost two septets each: `0. Back` is cut off |

The first is one consequence of a known gap: `TODOS.md`, "Per-session
concurrency control".

Others were met while reading and have no run:

* `store.go:71`: "Turn counts screens served". Overlapping callbacks load one
  turn and both save the next: two screens, counted once
  (`docs/webhook-protocol.md:149-155` warns of it).
* `docs/webhook-protocol.md:51`: `event.path` is "empty on the first turn".
  After an expiry turn 1 comes with the whole path.
* `tenant.go:56-57`: a misconfiguration surfaces on startup "rather than as a
  dead shortcode in production". `Validate` accepts a prefix segment with a `*`
  in it (`tenant.go:80`), which no adapter delivers. `EveryTenantIsReachable`
  holds without such segments.
* `store.go:87-88`: ErrNotFound "if no live session exists". A Load whose copy
  expires in its hands misses a Save that has refreshed the session
  (`memory.go:74`). `SessionStore` allows it: what a Load has read may expire
  before it returns.
* `render.go:204-205`: a break "in its final third". The floor is `len/3`.
* `gsm.go:97`: "Control characters are removed outright." Only five are.
* `app.go:179-181`: on unreadable state "the user gets the opening menu". Line
  189 gives the input of that turn to the start screen's Handle, which may
  move on at once.
* `app.go:249-258`: a notice is put above a screen that may have been full, and
  Shrink then cuts from its end. `Invalid choice.` above a full page of a post
  cuts `0. Back`; `MeasuredByReserve` names it. A timeline is safe: its prompt
  measures the notice with its title.
* A post that is empty shows `Nothing to show here.` without `0. Back`, which the
  screen does take.
* `africastalking/adapter.go:154-158`: "empties are kept rather than filtered
  out". An empty first answer makes the whole field empty, and reads as a
  dialogue that begins: `EventIsTheDialogue` names it.
* `main.go:27-30` of the gateway: "anything still running after this has already
  lost its handset". A request may take the 10 s of `ReadTimeout` to arrive and
  the tenant 5 s more, against a grace of 10 s. `OnlySlowTurnsAreCut` therefore
  says `Quick`. Also, a tenant's timeout has no upper bound, and one beyond the
  15 s of `WriteTimeout` produces answers nobody receives.
* An error of `ListenAndServe` after the start (`main.go:106-108`) returns from
  `run` and closes the store without waiting for the turns in service.
* `config.go:134`: Validate "rejects configurations that would start but not
  work". It accepts a negative TTL, and a list of blank entries for an
  allowlist, which admits nobody (`ServingAnswersSomeone` names the latter).
* `mastodon.go:25-34` derives the byte limit of a post from the 16 KB of a reply.
  Display names have no limit, and JSON escapes `<`, `>` and `&` to six
  bytes each, so a timeline of such posts can exceed it.

## 5. Proofs

Assumptions are those the modules declare, and TLC evaluates them in every run.
`Gateway` assumes that the configuration is one `NewRouter` accepts, that
sentinels are not tenants and that the absence of a session is none; `App` that
each version passed `NewApp` and that its sentinels are neither states nor
prompts; `MemoryStore` a positive TTL and sentinels that are no sessions;
`TrustedProxy` that there is a mapped range and that a malformed entry is no
range; `Process` that a file has the types YAML decodes to, that delays are
natural numbers and that no tenant is called what means no route. `ScreenBudget`
assumes of capacities and alphabets what the code's have (`ScreenAssumption`): a
screen has room for any rune beside the marker; there are at least as many
septets as twice the units, less three (182 and 70); the marker's dot, a blank and
a line break are basic runes, and no rune has two kinds; transliterations are
within GSM 03.38. `Fediverse` assumes that its texts are made of its runes, that
a number is a plus and digits and that no answer holds a star
(`FediverseAssumption`); of its constants that the reserve of a post at its widest
leaves a screen room for a rune (`ReserveAssumption`: an author line of 28, a
counter of 8 and controls of 23 beside 70 units); and of its words what those of the
language every session has ("en") satisfy (`WordsAssumption`): a control says its
key, and no other, and costs a septet a rune; no other word reads as a key; the two
errors differ; and the menu, and a timeline without posts, fit a
screen below every notice they may have. The code measures neither of the two with
its notice, so this is a promise of whoever translates: the words of "sw" keep it,
those of "fr" do not (an accented capital makes the menu UCS-2, which leaves no room
for a notice), and nothing sets a session to "fr".

* `GatewayProofs`: `TypeCorrect`, then `OwnershipHolds`. The properties
  `StateStaysWithItsTenant` and `StateIsFromAnEarlierTurn` speak of turns in
  flight and are not inductive: a turn's state comes from the store, and the
  store's from another handler's reply. `Ownership` closes the circle: what is
  stored, loaded, in a turn and replied carries only a state of its own tenant
  and subscriber and of no later turn. It is preserved because `Resume` drops
  another subscriber's session, `HandOver` clears the state with the turn, and
  `Settle` only takes the reply of the tenant the turn went to. `Isolation`
  also needs `UniqueNames`: the handler compares names, and names identify
  tenants. The theorems hold for any number of handlers, keys and callbacks and
  any combination of faults.
  The module's second part is what a network that waits for its answers may rely
  on. A callback in flight is then the only one of its dialogue, and the one the
  network waits for (`OneAtATime`), so no other goroutine's step can touch its
  session. On that rest what a screen says of the store, on the handset and
  already on its way there (`ScreensAreKept`), and what a turn carries from its
  Load to its Save: the session it found is still stored unless it expired
  (`TurnsCarry`). `MenusAreRemembered` needs that sessions neither expire nor are
  lost in a restart, but no sound store; `OverIsReleased` the opposite.
  `TurnsImplementDialogue` is the refinement: the session `Dialogue` sees is what
  the turn in progress found, so every step but Save leaves it or lets it vanish
  (`UnsavedTurn`, `TurnGoesOn`, `LoadSees`, `SessionsAreLost`), and Save is a
  `Continue` or a `Start` (`SaveIsATurn`).
* `AppProofs`: every reply of the SDK is *sound*: it failed, it ends, or it is a
  menu whose last part is the prompt of the screen in its own state, a screen
  with a Handle (`TurnIsSound`). `AppTypeCorrect`, `StoredScreensAsk` and
  `ShownScreensAreStored` follow for every application, redeployment and fault.
  `ApplicationWalks` is the refinement of `ScreenWalk`, where nothing is repeated,
  redeployed or expired and loads do not fail: then a menu always has its session
  (`OwnSession`), by `ShownScreensAreStored` it is the screen shown, and what a
  turn answers is what that screen decides (`TurnDecides`), with a notice once.
* `SharedShortcodeProofs`: for every accepted configuration and path, Route answers
  with a tenant (`RouteIsTotal`) whose prefix is strictly the longest that
  matches (`RouteIsLongestMatch`). The step that carries it: the matching
  tenants, ordered by what a prefix leaves of the path and then by position, have
  a least one, the first in the sorted order; two with prefixes of one length
  that match one path have the same prefix, hence the same joined route, which
  `NewRouter` refuses. On this rest the four properties of `RoutingTables`, for
  dialogues of any length: the invariant is only that
  the configuration stays accepted and the shortcode one of its own.
  `NoWayBack` adds that what matches a path
  matches every longer one. Two theorems assume what the configuration must not
  do: name a tenant as the sentinel, and hold a segment that cannot be typed.
* `MemoryStoreProofs`: `StoreTypeCorrect` and `StoreMeetsContract`, the refinement
  itself. The mapping reads a call's effect off the points of its goroutine: a
  Load takes effect when it reads the map, though its answer may still expire in
  its hands; a Save when it writes. The invariant it needs (`Readings`) is
  that a clock reading in some goroutine's hands is not ahead of the clock, and
  a deadline about to be written still is; then the sweeper removes only what no
  Load would have answered with, and a tick is a step of the contract's expiry.
* `ProcessProofs`: `ProcessTypeCorrect`, `StoreIsReleased`, `ShutdownIsGraceful`,
  `ServingIsUseful`, `AllowlistHolds`. That a shutdown cuts off no turn is not
  inductive: the invariant says what each request may still take, in service no
  more than its part of a turn, and while the server drains less than what is left
  of the grace, the tenant still to be asked included (`Timely`). On ranges: after
  it is rebased a range holds an address exactly if it does in the longer family
  (`RangeIsExact`), and a request through our forwarders is judged by the last hop
  before them (`LastForeignHopIsJudged`), for addresses of every width.
  `AllowlistHolds` combines what is mounted (`Mounted`) with the two.
  `ServingIsUseful` rests on the configuration the process started from having
  passed its checks, on `Mounted`, and on routing: a shortcode that NewRouter
  accepts has a tenant for the empty path. Some address is in a range because a
  range's bits can always be prolonged to an address.
* `ScreenLemmas`: the promises of `ScreenPromises` for every text over any
  alphabet, every menu and all capacities that `ScreenAssumption` allows. What
  carries the first two is that what fits is closed under prefixes
  (`PrefixFits`), although the rune that forces UCS-2 changes the cost of all
  before it: a prefix is cheaper in the same encoding, and one that ends before that
  rune fits in septets, by the relation of the two capacities, even if all of it
  is extended. On a
  predicate closed in this way the binary search finds the greatest that holds
  (`EverySearchIsExact`), and `Shrink` a text that fits with its marker
  (`EveryTextShrinks`). A page starts where the last one ended or
  further on, past space only, so the pages end and, put together from the last
  page back to the first, lose nothing but space (`EveryPageFits`,
  `PagesKeepTheText`). A label is one line because `JoinFields` keeps the text so
  far a line that ends in no break, and truncation and trimming take a line to a
  line (`EveryLabelIsOneGSMLine`). The text of a menu after `n` items
  fits, starts with the title, ends inside a line, and offers the first `n` keys
  or, once one item did not fit, fewer for good (`EveryMenuOffersItsFirstItems`);
  a list above a footer holds as many items as the least count that would not
  fit, less one (`EveryFooterStays`). A label that does not fit is shortened least
  (`EveryLabelIsLongest`): what `Truncate` keeps never shrinks as its limit grows,
  wherever the words end (`KeptGrows`), what a line shows of more runes starts with
  what it shows of fewer (`MarkedLines`), so by `PrefixFits` again what fits is
  closed downwards. The theorems on menus take for granted what
  an application's own title and keys are: the title one line that
  fits, with the footer if there is one, and each key one rune, no space.
  The provers cannot use an induction theorem that takes an operator, so induction
  is over sets (`Induction`, `BackwardInduction`), and that a recursive function has
  the values its definition gives it is proved once (`RecursionIsSound`,
  `PrimitiveRecursion`).
* `ScreenProofs`: of everything `Screens` reaches, for every choice of its constants,
  the promises hold (`TextsShrink`, `SearchIsAlwaysExact`, `PagesAlwaysFit`,
  `PagesKeepEveryText`, `LabelsAreGSMLines`, `MenusOfferTheirFirstItems`,
  `LabelsAreShortenedLeast`, `FootersStay`); the invariant is that texts and items have the types the
  theorems of `ScreenLemmas` ask for.
* `FediverseProofs`: `FediverseTypeCorrect`, `EventsAreTheDialogue`,
  `TakenKeysAlwaysShown`, `PostsAlwaysShownWhole`, `ShownKeysAlwaysTaken` and
  `KeysAlwaysDoWhatTheySay`, for every timeline, with numbers of any width. The type
  of the session is not inductive as it stands: a Handle may leave a count that is
  stale (the timeline's, before its Prompt has counted) or a page that is not yet
  clipped. So two predicates alternate: what a Handle leaves is `Ready` for its
  Prompt (`HandleGoes`), and a Prompt makes what is ready `Steady` (`PromptIs`)
  and changes nothing the second time. `Typed` says that a stored dialogue is
  steady and that the handset shows its prompt, below a notice or none.
  `EventsAreTheDialogue` is the inverse of `Joined`: segment by segment, `Segments`
  takes a text of answers without stars back to the answers
  (`SegmentsOfJoined`), empty ones included, and all three notations of a number
  are normalised to one (`NumbersAreOne`).
  `TakenKeysAlwaysShown` goes by the three screens. What a text *holds* between two
  others, in whatever place, can be read of it (`HeldIsRead`), also when more is put
  around it (`HeldFurther`). The menu is whole because a menu whose lines all fit
  with the title shortens nothing (`MenuIsWhole`), and Shrink leaves what fits as it
  is. Of the timeline what is counted is what `MenuFit` put on the screen, and the
  count on the handset is the one stored, since the Prompt changes nothing the
  second time (`TimelineIsRead`). A page of a post fits with its header and
  controls (`BesideFits`): `EveryPageFits` leaves it the reserve, no header is wider
  than the one measured (`HeaderIs`), no page offers more than all three controls
  (`PageOffers`), and what a name without runes of two septets, a counter and the
  controls cost is their length. So Shrink finds nothing to cut, which is
  `PostsAlwaysShownWhole`; that there is a page at all rests on `PagesKeepTheText`:
  a post's text ends in no space, since `toPost` trims it, so its pages hold some ink
  (`InkIsKept`, `TextHasPages`). On the other side, an input that is not called
  invalid is one of these keys (`MenuTakes`, `TimelineTakes`, `PostTakes`).
  `ShownKeysAlwaysTaken` is the converse. A key of two texts put together is a key
  of one of them or lies across the seam (`KeysOfBoth`), where a blank or a line
  break between them leaves only what starts there (`KeysByBlank`,
  `KeysOfTwoLines`); and what Shrink keeps of a text has no key the text had not,
  although it puts a marker at its end (`KeysShrunk`). From this follows what each screen
  shows at most: the menu its three keys (`MenuKeys`), the timeline Quit and the
  entries counted (`TimelineKeys`), a post its controls, since a header that
  reads as no key with one counter reads as none with another (`HeaderKeys`, `NavKeys`, `PostKeys`). Each
  of these is taken (`ShownAreOffered`, `OfferedIsTaken`), and different numbers have
  different names because reading a number undoes writing it (`NumberOfDecimal`).
  `KeysAlwaysDoWhatTheySay` follows an answer from the network to the next screen:
  by `EventsCarry` the event ends in what was typed, and the one dialogue that an
  event does not carry ends in an empty answer, which is no key; the session is
  resumed, as its number is the subscriber's in every notation (`AnswerIsHandled`);
  what is shown is offered, and every key offered leaves what it says, because the
  Prompt after the Handle keeps a post's page (`PageIsKept`, `KeysLeave`).

Only model-checked is liveness (`EveryCallbackIsAnswered`, `ExpiredIsSwept`,
`StopsInTime`), since fairness is beyond the prover. Every other property of a
passing run is stated by a theorem.

## 6. Not modelled

Signatures: `Verify` is a function of one request, one key and one clock; a
repeat within the tolerance is accepted again by design (`TODOS.md`), so there
is no state a property could relate. Translations are a lookup with a fallback;
in the application as it stands no screen sets a language, so the French and
Swahili bundles are never used. HTTP, the connection pool, JSON, YAML, HTML, the
spelling of addresses and Redis are libraries, present as the results they may
have. Render of the adapters puts `CON` or `END` before a text. Logs, request
ids, health endpoints, the drawing of the simulator's handset and the site keep
no state that a property is about.

## 7. Plan

Done: `Routing`, `Gateway` with `Dialogue`, the stores, `App` with `ScreenWalk`,
`ScreenBudget`, `Adapters` and `Fediverse`, `TrustedProxy` and `Process`, and the
theorems of section 5.

Left:

1. A gateway with a lock or a version per session, once the code has one
   (`TODOS.md`): `TurnsAreAtomic` for any network, and no more `GatewayCancelRace`.
2. The Events URL callback of Africa's Talking, once it is handled.
