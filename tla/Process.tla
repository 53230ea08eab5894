------------------------------ MODULE Process ------------------------------
(***************************************************************************)
(* The life of a gateway process (cmd/gateway/main.go): what it loads      *)
(* (config/config.go), the store it opens, the adapters it mounts          *)
(* (adapter.go, trustedproxy.go), the turns it serves, and how it stops.   *)
(*                                                                         *)
(* Time is what is left of a delay: each Tick takes one from every turn in *)
(* service and from the grace of a shutdown.  Everything else takes none.  *)
(***************************************************************************)
EXTENDS Integers, Routing, TrustedProxy

CONSTANTS
  Files,          \* what the configuration file may hold
  Unreadable,     \* a file that cannot be read or parsed
  Environment,    \* the variables that are set
  NeedsAllowlist, \* for each adapter compiled in, whether it needs a list
  NoGuard,        \* an adapter that is mounted as it is
  NotLoaded,      \* no configuration yet
  Turns,          \* bound: requests in service at once
  ShutdownGrace, DefaultTimeout,
  ReadTime        \* the longest a network takes to send a request

ASSUME ProcessAssumption ==
  ShutdownGrace \in Nat /\ DefaultTimeout \in Nat /\ ReadTime \in Nat

\* What YAML decodes to: a timeout may be negative, a name may be anything.
TenantConfig ==
  [name: STRING, shortcode: STRING, prefix: Seq(STRING), timeout: Int]

AdapterConfig ==
  [enabled: BOOLEAN, allowed: Seq(Entries), forwarders: Seq(Entries)]

ASSUME FilesAssumption ==
  \A f \in Files : /\ DOMAIN f = {"refs", "backend", "redisURL", "tenants", "adapters"}
                   /\ f.tenants \in Seq(TenantConfig)
                   /\ \A name \in DOMAIN f.adapters : f.adapters[name] \in AdapterConfig

Prefixes == [addr: Seq({0, 1}), bits: Int]

\* No tenant's name is the answer that there is no route.
ASSUME NamesAssumption == NoRoute \notin STRING

ASSUME GuardAssumption ==
  NoGuard \notin [allowed: SUBSET Prefixes, forwarders: SUBSET Prefixes]

VARIABLES
  file, pc,
  cfg,        \* the configuration in force
  registry,   \* for each adapter mounted, its guard
  store,      \* the session store
  turns,      \* where each request in service is, and how long it may take
  grace,      \* what is left of the grace of the shutdown
  signalled,  \* an interrupt or a SIGTERM has arrived
  result      \* why run returns

vars == <<file, pc, cfg, registry, store, turns, grace, signalled, result>>

Idle == [at |-> "idle", left |-> 0]

Init ==
  /\ file \in Files \cup {Unreadable}
  /\ pc = "load"
  /\ cfg = NotLoaded
  /\ registry = <<>>
  /\ store = "none"
  /\ turns = [t \in Turns |-> Idle]
  /\ grace = ShutdownGrace
  /\ signalled = FALSE
  /\ result = "none"

----------------------------------------------------------------------------
(* config.Load *)

ApplyDefaults(c) == [c EXCEPT !.backend = IF @ = "" THEN "memory" ELSE @]

Enabled(c) == {name \in DOMAIN c.adapters : c.adapters[name].enabled}

\* Mutant: that something is enabled is not checked.
ValidatesMute(c) ==
  /\ c.backend \in {"memory", "redis"}
  /\ c.backend = "redis" => c.redisURL
  /\ c.tenants # <<>>

Validates(c) ==
  /\ c.backend \in {"memory", "redis"}
  /\ c.backend = "redis" => c.redisURL
  /\ c.tenants # <<>>
  /\ Enabled(c) # {}

Loads ==
  /\ file # Unreadable
  /\ file.refs \subseteq Environment
  /\ Validates(ApplyDefaults(file))

----------------------------------------------------------------------------
(* newRegistry *)

\* Mutant: an adapter that needs a list is mounted without.
RegistersBare(c) ==
  \A name \in Enabled(c) :
    LET a == c.adapters[name]
    IN /\ name \in DOMAIN NeedsAllowlist
       /\ a.allowed # <<>> => ~ParseErrs(a.allowed) /\ ~ParseErrs(a.forwarders)

Registers(c) ==
  \A name \in Enabled(c) :
    LET a == c.adapters[name]
    IN /\ name \in DOMAIN NeedsAllowlist
       /\ NeedsAllowlist[name] => a.allowed # <<>>
       /\ a.allowed # <<>> => ~ParseErrs(a.allowed) /\ ~ParseErrs(a.forwarders)

Guard(a) ==
  IF a.allowed = <<>> THEN NoGuard
  ELSE [allowed |-> ParsePrefixes(a.allowed),
        forwarders |-> ParsePrefixes(a.forwarders)]

Registered(c) == [name \in Enabled(c) |-> Guard(c.adapters[name])]

Admits(name, request) ==
  registry[name] = NoGuard \/ Verify(registry[name], request)

----------------------------------------------------------------------------
(* run *)

At(point) == pc = point

Step(ok, next, why) ==
  IF ok THEN pc' = next /\ UNCHANGED result
  ELSE pc' = "returning" /\ result' = why

LoadConfig ==
  /\ At("load")
  /\ Step(Loads, "store", "config")
  /\ cfg' = IF Loads THEN ApplyDefaults(file) ELSE cfg
  /\ UNCHANGED <<file, registry, store, turns, grace, signalled>>

\* Redis is asked before anything is served; a signal cancels the question.
OpenStore ==
  /\ At("store")
  /\ \E ok \in BOOLEAN :
       /\ cfg.backend = "memory" => ok
       /\ cfg.backend = "redis" /\ signalled => ~ok
       /\ Step(ok, "router", "store")
       /\ store' = IF ok THEN "open" ELSE store
  /\ UNCHANGED <<file, cfg, registry, turns, grace, signalled>>

BuildRouter ==
  /\ At("router")
  /\ Step(NewRouterAccepts(cfg.tenants), "registry", "router")
  /\ UNCHANGED <<file, cfg, registry, store, turns, grace, signalled>>

\* Mutant: the error ends the process at once, and no deferred call runs.
BuildRegistryExits ==
  /\ At("registry")
  /\ IF Registers(cfg) THEN pc' = "serving" ELSE pc' = "exited"
  /\ registry' = IF Registers(cfg) THEN Registered(cfg) ELSE registry
  /\ UNCHANGED <<file, cfg, store, turns, grace, signalled, result>>

BuildRegistry ==
  /\ At("registry")
  /\ Step(Registers(cfg), "serving", "registry")
  /\ registry' = IF Registers(cfg) THEN Registered(cfg) ELSE registry
  /\ UNCHANGED <<file, cfg, store, turns, grace, signalled>>

\* The address is taken, or accepting fails later.
ListenFails ==
  /\ At("serving")
  /\ Step(FALSE, "", "listen")
  /\ UNCHANGED <<file, cfg, registry, store, turns, grace, signalled>>

\* Mutants: the signal is not watched; the grace hangs on the context that the
\* signal has cancelled.
StopUnwatched == FALSE

StopAtOnce ==
  /\ At("serving")
  /\ signalled
  /\ Step(TRUE, "draining", "")
  /\ grace' = 0
  /\ UNCHANGED <<file, cfg, registry, store, turns, signalled>>

Stop ==
  /\ At("serving")
  /\ signalled
  /\ Step(TRUE, "draining", "")
  /\ grace' = ShutdownGrace
  /\ UNCHANGED <<file, cfg, registry, store, turns, signalled>>

\* Shutdown returns once no request is in service, or at the end of its grace.
Drained ==
  /\ At("draining")
  /\ \A t \in Turns : turns[t] = Idle
  /\ Step(FALSE, "", "drained")
  /\ UNCHANGED <<file, cfg, registry, store, turns, grace, signalled>>

GraceEnds ==
  /\ At("draining")
  /\ grace = 0
  /\ Step(FALSE, "", "cutoff")
  /\ UNCHANGED <<file, cfg, registry, store, turns, grace, signalled>>

\* The deferred store.Close, if it was reached.
CloseStore ==
  /\ At("returning")
  /\ pc' = "closed"
  /\ store' = IF store = "open" THEN "closed" ELSE store
  /\ UNCHANGED <<file, cfg, registry, turns, grace, signalled, result>>

Exit ==
  /\ At("closed")
  /\ pc' = "exited"
  /\ UNCHANGED <<file, cfg, registry, store, turns, grace, signalled, result>>

\* Before NotifyContext a signal ends the process.
Signal ==
  /\ ~signalled
  /\ pc # "exited"
  /\ signalled' = TRUE
  /\ IF At("load") THEN pc' = "exited" /\ result' = "killed"
     ELSE UNCHANGED <<pc, result>>
  /\ UNCHANGED <<file, cfg, registry, store, turns, grace>>

----------------------------------------------------------------------------
(* Requests in service *)

EffectiveTimeout(tenant) ==
  IF tenant.timeout > 0 THEN tenant.timeout ELSE DefaultTimeout

\* Handlers run until the process has exited.
Running == pc \in {"serving", "draining", "returning", "closed"}

Accept(t) ==
  /\ At("serving")
  /\ turns[t] = Idle
  /\ turns' = [turns EXCEPT ![t] = [at |-> "reading", left |-> ReadTime]]
  /\ UNCHANGED <<file, pc, cfg, registry, store, grace, signalled, result>>

\* The request is read and its session loaded: the turn is at its tenant.
Take(t) ==
  /\ Running
  /\ turns[t].at = "reading"
  /\ \E i \in DOMAIN cfg.tenants :
       turns' = [turns EXCEPT ![t] =
                   [at |-> "tenant", left |-> EffectiveTimeout(cfg.tenants[i])]]
  /\ UNCHANGED <<file, pc, cfg, registry, store, grace, signalled, result>>

\* The request is refused, or the turn saved and answered.
Finish(t) ==
  /\ Running
  /\ turns[t] # Idle
  /\ turns' = [turns EXCEPT ![t] = Idle]
  /\ UNCHANGED <<file, pc, cfg, registry, store, grace, signalled, result>>

Overdue(t) == turns[t] # Idle /\ turns[t].left = 0

\* Mutant: time passes over a deadline.
TickLate ==
  /\ pc \in {"serving", "draining"}
  /\ At("draining") => grace > 0
  /\ \E t \in Turns : turns[t] # Idle
  /\ turns' = [t \in Turns |-> IF turns[t] = Idle THEN Idle
                               ELSE [turns[t] EXCEPT !.left = @ - 1]]
  /\ grace' = IF At("draining") THEN grace - 1 ELSE grace
  /\ UNCHANGED <<file, pc, cfg, registry, store, signalled, result>>

Tick ==
  /\ pc \in {"serving", "draining"}
  /\ At("draining") => grace > 0
  /\ \E t \in Turns : turns[t] # Idle
  /\ \A t \in Turns : ~Overdue(t)
  /\ turns' = [t \in Turns |-> IF turns[t] = Idle THEN Idle
                               ELSE [turns[t] EXCEPT !.left = @ - 1]]
  /\ grace' = IF At("draining") THEN grace - 1 ELSE grace
  /\ UNCHANGED <<file, pc, cfg, registry, store, signalled, result>>

----------------------------------------------------------------------------
RunStep ==
  \/ LoadConfig \/ OpenStore \/ BuildRouter \/ BuildRegistry \/ Stop
  \/ Drained \/ GraceEnds \/ CloseStore \/ Exit

Next ==
  \/ RunStep \/ ListenFails \/ Signal \/ Tick
  \/ \E t \in Turns : Accept(t) \/ Take(t) \/ Finish(t)

Spec == Init /\ [][Next]_vars

(***************************************************************************)
(* The goroutine of run goes on when it can, time passes, and a request    *)
(* whose deadline has come ends: Go's timers fire and its goroutines run.  *)
(* Nothing is assumed of tenants, networks and signals.                    *)
(***************************************************************************)
Expired(t) == Overdue(t) /\ Finish(t)

Fairness ==
  /\ WF_vars(RunStep)
  /\ WF_vars(Tick)
  /\ \A t \in Turns : WF_vars(Expired(t))

FairSpec == Spec /\ Fairness

----------------------------------------------------------------------------
(* Properties *)

\* Every variable has its type, and no delay is ever overdrawn.
TypeOK ==
  /\ file \in Files \cup {Unreadable}
  /\ pc \in {"load", "store", "router", "registry", "serving", "draining",
             "returning", "closed", "exited"}
  /\ store \in {"none", "open", "closed"}
  /\ grace \in 0 .. ShutdownGrace
  /\ signalled \in BOOLEAN
  /\ result \in {"none", "config", "store", "router", "registry", "listen",
                 "drained", "cutoff", "killed"}
  /\ turns \in [Turns -> [at: {"idle", "reading", "tenant"}, left: Nat]]

(***************************************************************************)
(* The store is released on every way out, whichever step of run fails or  *)
(* is interrupted, and is open as long as the gateway serves               *)
(* (main.go:52-66).                                                        *)
(***************************************************************************)
ExitReleasesTheStore ==
  /\ pc \in {"closed", "exited"} => store # "open"
  /\ pc \in {"router", "registry", "serving", "draining"} => store = "open"

(***************************************************************************)
(* A shutdown cuts off no turn between its Load and its Save if a request  *)
(* and a tenant together take less than the grace (main.go:27-30, 114-116: *)
(* "anything still running after this has already lost its handset").      *)
(***************************************************************************)
Quick ==
  \A i \in DOMAIN cfg.tenants :
    ReadTime + EffectiveTimeout(cfg.tenants[i]) < ShutdownGrace

OnlySlowTurnsAreCut ==
  /\ result \in {"drained", "cutoff"}
  /\ Quick
  => \A t \in Turns : turns[t] = Idle

Direct(a) == [peer |-> a, hops |-> <<>>]

AllBlank(entries) == \A i \in DOMAIN entries : entries[i] = Blank

\* What the header holds behind our forwarders: what the client has put there,
\* then each hop as the next one saw it.
Chains(client, forwarders, claims) ==
  {claim \o seen : claim \in claims,
                   seen \in {<<client>>} \cup {<<client, f>> : f \in forwarders}}

\* A client reaches the gateway itself or through our forwarders.
Requests(client, forwarders, claims) ==
  {Direct(client)} \cup
  {[peer |-> f, hops |-> hops] :
     f \in forwarders, hops \in Chains(client, forwarders, claims)}

(***************************************************************************)
(* What run starts can answer: some client passes some adapter, and every  *)
(* dialogue on a configured shortcode has a tenant (config.go:134: rejects *)
(* "configurations that would start but not work").  A list of blanks is   *)
(* the exception: it counts as a list and admits nobody.                   *)
(***************************************************************************)
ServingAnswersSomeone ==
  pc = "serving" =>
    /\ \E name \in DOMAIN registry :
         \/ \E a \in Addresses : Admits(name, Direct(a))
         \/ AllBlank(cfg.adapters[name].allowed)
    /\ \A i \in DOMAIN cfg.tenants :
         Route(cfg.tenants, cfg.tenants[i].shortcode, <<>>) # NoRoute

(***************************************************************************)
(* An adapter that authenticates nothing serves the clients in its ranges  *)
(* and no others, however their ranges and addresses are written, whatever *)
(* a client has put into the header before, and through whichever of our   *)
(* forwarders it comes (trustedproxy.go:107-155).  A range that is wider   *)
(* than the mapped one holds none of the shorter family.                   *)
(***************************************************************************)
AllowlistIsExact ==
  pc = "serving" /\ (\A t \in Turns : turns[t] = Idle) =>
    \A name \in DOMAIN registry :
      LET a == cfg.adapters[name]
          ours == {f \in Addresses : InRanges(a.forwarders, f)}
          claims == {<<>>, <<Unparseable>>} \cup {<<b>> : b \in Addresses}
      IN /\ NeedsAllowlist[name] => registry[name] # NoGuard
         /\ registry[name] # NoGuard =>
              \A client \in Addresses \ ours :
                \A request \in Requests(client, ours, claims) :
                  Admits(name, request) <=> InRanges(a.allowed, client)

(***************************************************************************)
(* Once signalled the process exits, at whatever point of its start or     *)
(* service, although tenants may not answer and networks may keep calling  *)
(* (main.go:107-116).                                                      *)
(***************************************************************************)
StopsInTime == signalled ~> pc = "exited"
=============================================================================
