----------------------------- MODULE MCProcess -----------------------------
(***************************************************************************)
(* A gateway process for TLC.  The shorter family of addresses has two     *)
(* bits and the longer one four, the mapped range is 11/2: wide enough for *)
(* a range on either side of the mapped one, in it, and around it.         *)
(***************************************************************************)
EXTENDS Process

TwoBits == 2
OneOne == <<1, 1>>

\* africastalking.go answers to RequiresAllowlist, the simulator does not.
Adapters == [africastalking |-> TRUE, simulator |-> FALSE]

Set == {"AT_SECRET"}

----------------------------------------------------------------------------
(* Files, each with one thing that matters about it *)

Tenant(name, prefix, timeout) ==
  [name |-> name, shortcode |-> "*384#", prefix |-> prefix, timeout |-> timeout]

Shared == <<Tenant("root", <<>>, 0), Tenant("health", <<"1">>, 0)>>

Range(addr, bits) == [addr |-> addr, bits |-> bits]

Adapter(allowed, forwarders) ==
  [enabled |-> TRUE, allowed |-> allowed, forwarders |-> forwarders]

Simulator == [simulator |-> Adapter(<<>>, <<>>)]

Guarded(allowed, forwarders) == [africastalking |-> Adapter(allowed, forwarders)]

File(adapters) ==
  [refs |-> {}, backend |-> "", redisURL |-> FALSE, tenants |-> Shared,
   adapters |-> adapters]

Plain == File(Simulator)

\* One host of the shorter family, and a range of it.
Host == Range(<<0, 1>>, 2)
Half == Range(<<1, 0>>, 1)
\* The same, written in the longer family.
MappedHost == Range(<<1, 1, 0, 1>>, 4)
MappedHalf == Range(<<1, 1, 1, 0>>, 3)
\* Wider than the mapped range, and beside it.
Around == Range(<<1, 1, 0, 0>>, 1)
Beside == Range(<<0, 1, 1, 0>>, 2)

Bad ==
  {[Plain EXCEPT !.refs = {"UNSET"}],
   [Plain EXCEPT !.backend = "redis"],
   [Plain EXCEPT !.backend = "etcd", !.redisURL = TRUE],
   [Plain EXCEPT !.tenants = <<>>],
   [Plain EXCEPT !.tenants = <<Tenant("health", <<"1">>, 0)>>],
   [Plain EXCEPT !.adapters.simulator.enabled = FALSE],
   File(<<>>),
   File([safaricom |-> Adapter(<<Host>>, <<>>)]),
   File(Guarded(<<>>, <<>>)),
   File(Guarded(<<Host, Malformed>>, <<>>)),
   File(Guarded(<<Host>>, <<Malformed>>))}

Good ==
  {Plain,
   [Plain EXCEPT !.refs = {"AT_SECRET"}, !.backend = "redis", !.redisURL = TRUE],
   [Plain EXCEPT !.tenants = <<Tenant("slow", <<>>, 3)>>],
   [Plain EXCEPT !.tenants = <<Tenant("mixed", <<>>, 3), Tenant("health", <<"1">>, -1)>>,
                 !.backend = "redis", !.redisURL = TRUE],
   File(Guarded(<<Host, Blank>>, <<>>)),
   File(Guarded(<<Blank>>, <<>>)),
   File(Guarded(<<Host>>, <<Half>>)),
   File(Guarded(<<MappedHost>>, <<MappedHalf>>)),
   File(Guarded(<<MappedHalf, Beside>>, <<Host>>)),
   File(Guarded(<<Around>>, <<Host, Beside>>)),
   File([africastalking |-> Adapter(<<Half>>, <<>>),
         simulator |-> Adapter(<<Host>>, <<Beside>>)])}

Written == Bad \cup Good
=============================================================================
