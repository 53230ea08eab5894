--------------------------- MODULE ProcessProofs ---------------------------
(***************************************************************************)
(* The life of a gateway process, for every configuration, every number of *)
(* requests in service and every length of their delays.                   *)
(*                                                                         *)
(* That a shutdown cuts off no turn is not inductive as it stands.  The    *)
(* invariant below says what each request may still take: in service no    *)
(* more than its part of a turn, and while the server drains less than     *)
(* what is left of the grace, the tenant still to be asked included.       *)
(***************************************************************************)
EXTENDS Process, SequenceTheorems, TLAPS

----------------------------------------------------------------------------
(* Ranges and forwarders: for families of every width, every list and every *)
(* chain of forwarders                                                     *)

Bits == {0, 1}

LongBits == ShortBits + Len(Mapped)

LEMMA Widths ==
  /\ ShortBits \in Nat /\ Len(Mapped) \in Nat \ {0} /\ LongBits \in Nat
  /\ Len(Mapped) <= LongBits /\ ShortBits # LongBits
  /\ Mapped \in Seq(Bits)
<1>1. ShortBits \in Nat /\ Mapped \in Seq(Bits) /\ Mapped # <<>>
  BY AddressAssumption DEF Bits
<1>2. Len(Mapped) \in Nat \ {0}
  BY <1>1, EmptySeq
<1> QED
  BY <1>1, <1>2 DEF LongBits

LEMMA AddressBits ==
  ASSUME NEW a \in Addresses
  PROVE  /\ a \in Seq(Bits)
         /\ Long(a) <=> Len(a) = LongBits
         /\ ~Long(a) => Len(a) = ShortBits
<1>1. CASE a \in [1 .. ShortBits -> Bits]
  BY <1>1, Widths DEF Long, LongBits
<1>2. CASE a \in [1 .. LongBits -> Bits]
  BY <1>2, Widths DEF Long, LongBits
<1> QED
  BY <1>1, <1>2 DEF Addresses, Bits, LongBits

\* To start with the first n bits of b is to agree with b on them.
LEMMA StartsWithFirst ==
  ASSUME NEW a \in Seq(Bits), NEW b \in Seq(Bits), NEW n \in 0 .. Len(b)
  PROVE  StartsWith(a, SubSeq(b, 1, n)) <=>
           n <= Len(a) /\ \A i \in 1 .. n : a[i] = b[i]
<1> DEFINE s == SubSeq(b, 1, n)
<1>1. s \in Seq(Bits) /\ Len(s) = n /\ \A i \in 1 .. n : s[i] = b[i]
  BY SubSeqProperties
<1>2. DOMAIN s = 1 .. n
  BY <1>1
<1> QED
  BY <1>1, <1>2 DEF StartsWith

LEMMA IsMapped ==
  ASSUME NEW l \in Seq(Bits), Len(l) = LongBits
  PROVE  Is4In6(l) <=> \A i \in 1 .. Len(Mapped) : l[i] = Mapped[i]
<1>1. DOMAIN Mapped = 1 .. Len(Mapped)
  BY Widths
<1> QED
  BY <1>1, Widths DEF Is4In6, Long, LongBits, StartsWith

LEMMA LongForm ==
  ASSUME NEW a \in Addresses
  PROVE  /\ AsLong(a) \in Seq(Bits) /\ Len(AsLong(a)) = LongBits
         /\ Long(a) => AsLong(a) = a
         /\ ~Long(a) => /\ Is4In6(AsLong(a))
                        /\ \A i \in 1 .. ShortBits : AsLong(a)[i + Len(Mapped)] = a[i]
<1>1. CASE Long(a)
  BY <1>1, AddressBits DEF AsLong
<1>2. CASE ~Long(a)
  <2>1. AsLong(a) = Mapped \o a /\ a \in Seq(Bits) /\ Len(a) = ShortBits
    BY <1>2, AddressBits DEF AsLong
  <2>2. /\ Mapped \o a \in Seq(Bits)
        /\ Len(Mapped \o a) = LongBits
        /\ \A i \in 1 .. LongBits :
             (Mapped \o a)[i] = IF i <= Len(Mapped) THEN Mapped[i] ELSE a[i - Len(Mapped)]
    <3>1. /\ Mapped \o a \in Seq(Bits)
          /\ Len(Mapped \o a) = Len(Mapped) + Len(a)
          /\ \A i \in 1 .. Len(Mapped) + Len(a) :
               (Mapped \o a)[i] = IF i <= Len(Mapped) THEN Mapped[i] ELSE a[i - Len(Mapped)]
      BY <2>1, Widths, ConcatProperties
    <3>2. Len(Mapped) + Len(a) = LongBits
      BY <2>1, Widths DEF LongBits
    <3> QED
      BY <3>1, <3>2
  <2>3. Is4In6(AsLong(a))
    <3>1. \A i \in 1 .. Len(Mapped) : i \in 1 .. LongBits /\ i <= Len(Mapped)
      BY Widths
    <3>2. \A i \in 1 .. Len(Mapped) : (Mapped \o a)[i] = Mapped[i]
      BY <2>2, <3>1
    <3> QED
      BY <2>1, <2>2, <3>2, IsMapped
  <2>4. ASSUME NEW i \in 1 .. ShortBits
        PROVE  (Mapped \o a)[i + Len(Mapped)] = a[i]
    <3>1. /\ i + Len(Mapped) \in 1 .. LongBits /\ ~(i + Len(Mapped) <= Len(Mapped))
          /\ (i + Len(Mapped)) - Len(Mapped) = i
      BY Widths DEF LongBits
    <3> QED
      BY <2>2, <3>1
  <2> QED
    BY <1>2, <2>1, <2>2, <2>3, <2>4
<1> QED
  BY <1>1, <1>2

LEMMA UnmapForm ==
  ASSUME NEW a \in Addresses
  PROVE  /\ Unmap(a) \in Seq(Bits)
         /\ Is4In6(AsLong(a)) =>
              /\ Len(Unmap(a)) = ShortBits
              /\ \A i \in 1 .. ShortBits : Unmap(a)[i] = AsLong(a)[i + Len(Mapped)]
         /\ ~Is4In6(AsLong(a)) => Unmap(a) = AsLong(a)
<1>1. CASE ~Long(a)
  <2>1. Unmap(a) = a
    BY <1>1 DEF Unmap, Is4In6
  <2> QED
    BY <1>1, <2>1, AddressBits, LongForm
<1>2. CASE Long(a)
  <2>1. AsLong(a) = a /\ a \in Seq(Bits) /\ Len(a) = LongBits
    BY <1>2, LongForm, AddressBits
  <2>2. CASE Is4In6(a)
    <3> DEFINE s == SubSeq(a, Len(Mapped) + 1, Len(a))
    <3>1. /\ s \in Seq(Bits)
          /\ Len(s) = IF Len(Mapped) + 1 <= Len(a) THEN Len(a) - (Len(Mapped) + 1) + 1 ELSE 0
          /\ \A i \in 1 .. Len(a) - (Len(Mapped) + 1) + 1 : s[i] = a[(Len(Mapped) + 1) + i - 1]
      BY <2>1, Widths, SubSeqProperties
    <3>2. Len(s) = ShortBits /\ Len(a) - (Len(Mapped) + 1) + 1 = ShortBits
      BY <2>1, <3>1, Widths DEF LongBits
    <3>3. \A i \in 1 .. ShortBits : (Len(Mapped) + 1) + i - 1 = i + Len(Mapped)
      BY Widths
    <3> QED
      BY <2>1, <2>2, <3>1, <3>2, <3>3 DEF Unmap
  <2>3. CASE ~Is4In6(a)
    BY <2>1, <2>3 DEF Unmap
  <2> QED
    BY <2>2, <2>3
<1> QED
  BY <1>1, <1>2

----------------------------------------------------------------------------
(***************************************************************************)
(* A range holds an address in the code exactly if it does in the longer   *)
(* family, however either is written.                                      *)
(***************************************************************************)
THEOREM RangeIsExact ==
  ASSUME NEW p \in Ranges, NEW a \in Addresses
  PROVE  Contains(UnmapPrefix(p), Unmap(a)) <=> InRange(p, a)
<1> DEFINE e == AsLong(p.addr)
           l == AsLong(a)
           u == Unmap(a)
           q == UnmapPrefix(p)
           M == Len(Mapped)
           n == IF Long(p.addr) THEN p.bits ELSE p.bits + M
           narrow == Is4In6(e) /\ n >= M
<1>0. /\ p.addr \in Addresses /\ p.bits \in Nat /\ p.bits <= Len(p.addr)
      /\ M \in Nat \ {0} /\ LongBits = ShortBits + M /\ ShortBits \in Nat
  BY Widths DEF Ranges, LongBits
<1>1. n \in 0 .. LongBits
  BY <1>0, AddressBits
<1>2. e \in Seq(Bits) /\ l \in Seq(Bits) /\ Len(e) = LongBits /\ Len(l) = LongBits
  BY <1>0, LongForm
<1>3. InRange(p, a) <=> (\A i \in 1 .. n : l[i] = e[i]) /\ (Is4In6(l) => n >= M)
  <2>1. StartsWith(l, SubSeq(e, 1, n)) <=> \A i \in 1 .. n : l[i] = e[i]
    BY <1>1, <1>2, StartsWithFirst
  <2> QED
    BY <2>1 DEF InRange
<1>4. /\ Is4In6(e) <=> \A i \in 1 .. M : e[i] = Mapped[i]
      /\ Is4In6(l) <=> \A i \in 1 .. M : l[i] = Mapped[i]
  BY <1>2, IsMapped
<1>5. /\ u \in Seq(Bits)
      /\ Is4In6(l) => Len(u) = ShortBits /\ \A i \in 1 .. ShortBits : u[i] = l[i + M]
      /\ ~Is4In6(l) => u = l
  BY UnmapForm
<1>6. ASSUME narrow
      PROVE  /\ q.addr \in Seq(Bits) /\ Len(q.addr) = ShortBits /\ q.bits = n - M
             /\ \A i \in 1 .. ShortBits : q.addr[i] = e[i + M]
  <2>1. CASE Long(p.addr)
    <3>1. e = p.addr /\ n = p.bits
      BY <1>0, <2>1, LongForm
    <3>2. q = [addr |-> Unmap(p.addr), bits |-> p.bits - M]
      BY <1>0, <1>6, <3>1 DEF UnmapPrefix
    <3> QED
      BY <1>0, <1>6, <3>1, <3>2, UnmapForm
  <2>2. CASE ~Long(p.addr)
    <3>1. q = p
      BY <2>2 DEF UnmapPrefix, Is4In6
    <3>2. n - M = p.bits
      BY <1>0, <2>2
    <3> QED
      BY <1>0, <2>2, <3>1, <3>2, LongForm, AddressBits
  <2> QED
    BY <2>1, <2>2
<1>7. ASSUME ~narrow PROVE q = p /\ q.addr = e /\ q.bits = n
  <2>1. Long(p.addr)
    <3>1. SUFFICES ASSUME ~Long(p.addr) PROVE FALSE
      OBVIOUS
    <3>2. Is4In6(e)
      BY <1>0, <3>1, LongForm
    <3>3. n >= M
      BY <1>0, <3>1
    <3> QED
      BY <1>7, <3>2, <3>3
  <2>2. e = p.addr /\ n = p.bits
    BY <1>0, <2>1, LongForm
  <2>3. ~Is4In6(p.addr) \/ p.bits < M
    BY <1>0, <1>7, <2>2
  <2> QED
    BY <2>2, <2>3 DEF UnmapPrefix
<1> HIDE DEF e, l, u, q, n
<1>8. CASE narrow /\ Is4In6(l)
  <2>1. /\ n - M \in 0 .. Len(q.addr) /\ Len(q.addr) = Len(u) /\ n >= M
        /\ q.bits = n - M
    BY <1>0, <1>1, <1>5, <1>6, <1>8
  <2>2. Contains(q, u) <=> \A i \in 1 .. n - M : u[i] = q.addr[i]
    <3>1. StartsWith(u, SubSeq(q.addr, 1, n - M)) <=>
            n - M <= Len(u) /\ \A i \in 1 .. n - M : u[i] = q.addr[i]
      BY <1>5, <1>6, <1>8, <2>1, StartsWithFirst
    <3>2. n - M <= Len(u)
      BY <2>1
    <3> QED
      BY <2>1, <3>1, <3>2 DEF Contains
  <2>3. \A i \in 1 .. n - M : u[i] = l[i + M] /\ q.addr[i] = e[i + M]
    BY <1>0, <1>1, <1>5, <1>6, <1>8, <2>1
  <2>4. \A i \in 1 .. M : l[i] = e[i]
    BY <1>4, <1>8
  <2>5. ASSUME \A i \in 1 .. n - M : u[i] = q.addr[i], NEW j \in 1 .. n
        PROVE  l[j] = e[j]
    <3>1. CASE j <= M
      BY <1>0, <2>4, <3>1
    <3>2. CASE j > M
      <4>1. j - M \in 1 .. n - M /\ (j - M) + M = j
        BY <1>0, <1>1, <3>2
      <4> QED
        BY <2>3, <2>5, <4>1
    <3> QED
      BY <1>0, <3>1, <3>2
  <2>6. ASSUME \A j \in 1 .. n : l[j] = e[j], NEW i \in 1 .. n - M
        PROVE  u[i] = q.addr[i]
    <3>1. i + M \in 1 .. n
      BY <1>0, <1>1
    <3> QED
      BY <2>3, <2>6, <3>1
  <2>7. Contains(q, u) <=> InRange(p, a)
    BY <1>3, <2>1, <2>2, <2>5, <2>6
  <2> QED
    BY <2>7 DEF q, u
<1>9. CASE narrow /\ ~Is4In6(l)
  <2>1. Len(u) # Len(q.addr)
    BY <1>0, <1>2, <1>5, <1>6, <1>9
  <2>2. ~InRange(p, a)
    BY <1>0, <1>1, <1>3, <1>4, <1>9
  <2>3. Contains(q, u) <=> InRange(p, a)
    BY <2>1, <2>2 DEF Contains
  <2> QED
    BY <2>3 DEF q, u
<1>10. CASE ~narrow /\ Is4In6(l)
  <2>1. Len(u) # Len(q.addr)
    BY <1>0, <1>2, <1>5, <1>7, <1>10
  <2>2. ~InRange(p, a)
    BY <1>0, <1>1, <1>3, <1>4, <1>10
  <2>3. Contains(q, u) <=> InRange(p, a)
    BY <2>1, <2>2 DEF Contains
  <2> QED
    BY <2>3 DEF q, u
<1>11. CASE ~narrow /\ ~Is4In6(l)
  <2>1. q.addr = e /\ q.bits = n /\ u = l
    BY <1>5, <1>7, <1>11
  <2>2. Contains(q, u) <=> \A i \in 1 .. n : l[i] = e[i]
    BY <1>1, <1>2, <2>1, StartsWithFirst DEF Contains
  <2>3. Contains(q, u) <=> InRange(p, a)
    BY <1>3, <1>11, <2>2
  <2> QED
    BY <2>3 DEF q, u
<1> QED
  BY <1>8, <1>9, <1>10, <1>11

\* A range stays one of bits when it moves to the other family.
LEMMA PrefixBits ==
  ASSUME NEW p \in Ranges
  PROVE  UnmapPrefix(p) \in [addr: Seq(Bits), bits: Int]
<1>1. p.addr \in Addresses /\ p.bits \in Nat /\ p \in [addr: Addresses, bits: Nat]
  BY DEF Ranges
<1>2. p.addr \in Seq(Bits) /\ Unmap(p.addr) \in Seq(Bits) /\ Len(Mapped) \in Nat
  BY <1>1, AddressBits, UnmapForm, Widths
<1> QED
  BY <1>1, <1>2 DEF UnmapPrefix

LEMMA ListIsExact ==
  ASSUME NEW entries \in Seq(Entries), ~ParseErrs(entries), NEW a \in Addresses
  PROVE  ContainsAddr(ParsePrefixes(entries), Unmap(a)) <=> InRanges(entries, a)
<1>1. ASSUME NEW i \in DOMAIN entries, entries[i] # Blank
      PROVE  Contains(UnmapPrefix(entries[i]), Unmap(a)) <=> InRange(entries[i], a)
  <2>1. entries[i] \in Ranges
    BY <1>1 DEF Entries, ParseErrs
  <2> QED
    BY <2>1, RangeIsExact
<1>2. ContainsAddr(ParsePrefixes(entries), Unmap(a)) <=>
        \E i \in DOMAIN entries : /\ entries[i] # Blank
                                 /\ Contains(UnmapPrefix(entries[i]), Unmap(a))
  BY DEF ContainsAddr, ParsePrefixes
<1> QED
  BY <1>1, <1>2 DEF InRanges

(***************************************************************************)
(* A request that comes through our forwarders is judged by the last hop   *)
(* before them, whatever stands in the header before it.                   *)
(***************************************************************************)
THEOREM LastForeignHopIsJudged ==
  ASSUME NEW forwarders \in Seq(Entries), ~ParseErrs(forwarders),
         NEW peer \in Addresses, InRanges(forwarders, peer),
         NEW hops \in Seq(Addresses \cup {Unparseable}),
         NEW n \in DOMAIN hops, hops[n] \in Addresses, ~InRanges(forwarders, hops[n]),
         \A j \in DOMAIN hops : j > n => hops[j] \in Addresses /\ InRanges(forwarders, hops[j])
  PROVE  ClientAddr(ParsePrefixes(forwarders), [peer |-> peer, hops |-> hops])
           = Unmap(hops[n])
<1> DEFINE fw == ParsePrefixes(forwarders)
           others == {i \in DOMAIN hops : /\ hops[i] # Unparseable
                                          /\ ~ContainsAddr(fw, Unmap(hops[i]))}
           last == CHOOSE i \in others : \A j \in others : j <= i
<1>1. ContainsAddr(fw, Unmap(peer))
  BY ListIsExact
<1>2. n \in others
  BY ListIsExact, EntryAssumption
<1>3. others \subseteq Nat
  OBVIOUS
<1>4. ASSUME NEW j \in others PROVE j <= n
  <2>1. ~(j > n)
    <3>1. SUFFICES ASSUME j > n PROVE FALSE
      OBVIOUS
    <3>2. hops[j] \in Addresses /\ InRanges(forwarders, hops[j])
      BY <3>1
    <3>3. ContainsAddr(fw, Unmap(hops[j]))
      BY <3>2, ListIsExact
    <3> QED
      BY <3>3
  <2>2. j \in Nat /\ n \in Nat
    BY <1>3
  <2> HIDE DEF others
  <2> QED
    BY <2>1, <2>2
<1>5. last = n
  <2>1. last \in others /\ \A j \in others : j <= last
    BY <1>2, <1>4
  <2>2. last <= n /\ n <= last /\ last \in Nat /\ n \in Nat
    BY <1>2, <1>3, <1>4, <2>1
  <2> HIDE DEF last
  <2> QED
    BY <2>2
<1>6. others # {}
  BY <1>2
<1>7. ClientAddr(fw, [peer |-> peer, hops |-> hops]) =
        IF ~ContainsAddr(fw, Unmap(peer)) \/ others = {} THEN Unmap(peer)
        ELSE Unmap(hops[last])
  BY DEF ClientAddr
<1> QED
  BY <1>1, <1>5, <1>6, <1>7

\* A peer that is none of our forwarders speaks for itself.
LEMMA PeerIsJudged ==
  ASSUME NEW forwarders \in Seq(Entries), ~ParseErrs(forwarders),
         NEW peer \in Addresses, ~InRanges(forwarders, peer), NEW hops
  PROVE  ClientAddr(ParsePrefixes(forwarders), [peer |-> peer, hops |-> hops]) = Unmap(peer)
BY ListIsExact DEF ClientAddr

----------------------------------------------------------------------------
(* The life of the process *)

\* The configuration in force is one that was read, and has a tenant.
Configured ==
  /\ DOMAIN cfg.tenants # {}
  /\ \A i \in DOMAIN cfg.tenants : EffectiveTimeout(cfg.tenants[i]) \in Nat

Loaded == pc # "load" /\ result \notin {"config", "killed"} => Configured

\* Nothing is served before the server listens, nor without a configuration.
NotYetServing ==
  pc \in {"load", "store", "router", "registry"} \/ result \in {"config", "killed"}
    => \A t \in Turns : turns[t] = Idle

\* run gives a reason when it returns, and goes by one of its ways out.
Returns ==
  /\ result # "none" => pc \in {"returning", "closed", "exited"}
  /\ result = "killed" => pc = "exited"

Holds ==
  /\ pc \in {"load", "store"} => store = "none"
  /\ pc \in {"router", "registry", "serving", "draining"} => store = "open"
  /\ pc \in {"closed", "exited"} => store # "open"

Within(t) ==
  \/ turns[t] = Idle
  \/ turns[t].at = "reading" /\ turns[t].left <= ReadTime
  \/ /\ turns[t].at = "tenant"
     /\ \E i \in DOMAIN cfg.tenants :
          turns[t].left <= EffectiveTimeout(cfg.tenants[i])

InTime(t) ==
  \/ turns[t] = Idle
  \/ /\ turns[t].at \in {"reading", "tenant"}
     /\ turns[t].left < grace
     /\ turns[t].at = "reading" =>
          \A i \in DOMAIN cfg.tenants :
            turns[t].left + EffectiveTimeout(cfg.tenants[i]) < grace

Timely ==
  /\ pc = "serving" => \A t \in Turns : Within(t)
  /\ pc = "draining" /\ Quick => \A t \in Turns : InTime(t)

IInv ==
  TypeOK /\ Returns /\ Loaded /\ NotYetServing /\ Holds /\ Timely /\ OnlySlowTurnsAreCut

----------------------------------------------------------------------------
(* What a configuration that loads is worth *)

LEMMA EffectiveTimeoutIsNat ==
  ASSUME NEW tenant \in TenantConfig
  PROVE  EffectiveTimeout(tenant) \in Nat
BY ProcessAssumption DEF EffectiveTimeout, TenantConfig

LEMMA LoadsConfigured ==
  ASSUME file \in Files \cup {Unreadable}, Loads, cfg' = ApplyDefaults(file)
  PROVE  Configured'
<1>1. file \in Files /\ file.tenants \in Seq(TenantConfig)
  BY FilesAssumption DEF Loads
<1>2. cfg'.tenants = file.tenants
  BY <1>1, FilesAssumption DEF ApplyDefaults
<1>3. cfg'.tenants # <<>>
  BY DEF Loads, Validates
<1>4. DOMAIN cfg'.tenants # {}
  <2>1. \A tenants \in Seq(TenantConfig) : tenants # <<>> => 1 \in DOMAIN tenants
    OBVIOUS
  <2> QED
    BY <1>1, <1>2, <1>3, <2>1
<1>5. \A i \in DOMAIN cfg'.tenants : cfg'.tenants[i] \in TenantConfig
  BY <1>1, <1>2
<1>6. \A i \in DOMAIN cfg'.tenants : EffectiveTimeout(cfg'.tenants[i]) \in Nat
  BY <1>5, EffectiveTimeoutIsNat
<1> QED
  BY <1>4, <1>6 DEF Configured

----------------------------------------------------------------------------
(* Initially *)

LEMMA InitIInv == Init => IInv
<1> SUFFICES ASSUME Init PROVE IInv
  OBVIOUS
<1>1. TypeOK
  <2>1. Idle \in [at: {"idle", "reading", "tenant"}, left: Nat]
    BY DEF Idle
  <2>2. ShutdownGrace \in 0 .. ShutdownGrace
    BY ProcessAssumption
  <2> QED
    BY <2>1, <2>2 DEF Init, TypeOK
<1> QED
  BY <1>1
  DEF Init, IInv, Returns, Loaded, NotYetServing, Holds, Timely, OnlySlowTurnsAreCut

----------------------------------------------------------------------------
(* One step *)

LEMMA GraceIsNat ==
  ASSUME TypeOK PROVE grace \in Nat
<1>1. grace \in 0 .. ShutdownGrace
  BY DEF TypeOK
<1> QED
  BY <1>1, ProcessAssumption

\* A request in service is served with a configuration.
LEMMA ServedWithConfiguration ==
  ASSUME IInv, NEW t \in Turns, turns[t] # Idle
  PROVE  Configured
BY DEF IInv, NotYetServing, Loaded

LEMMA TypeStep == IInv /\ [Next]_vars => TypeOK'
<1> SUFFICES ASSUME IInv, [Next]_vars PROVE TypeOK'
  OBVIOUS
<1> USE DEF TypeOK
<1> DEFINE State == [at: {"idle", "reading", "tenant"}, left: Nat]
<1>0. TypeOK /\ ShutdownGrace \in Nat /\ ReadTime \in Nat
  BY ProcessAssumption DEF IInv
<1>1. CASE LoadConfig
  BY <1>0, <1>1 DEF LoadConfig, Step
<1>2. CASE OpenStore
  BY <1>0, <1>2 DEF OpenStore, Step
<1>3. CASE BuildRouter
  BY <1>0, <1>3 DEF BuildRouter, Step
<1>4. CASE BuildRegistry
  BY <1>0, <1>4 DEF BuildRegistry, Step
<1>5. CASE Stop
  <2>1. ShutdownGrace \in 0 .. ShutdownGrace
    BY ProcessAssumption
  <2> QED
    BY <1>0, <1>5, <2>1 DEF Stop, Step
<1>6. CASE Drained \/ GraceEnds \/ ListenFails
  BY <1>0, <1>6 DEF Drained, GraceEnds, ListenFails, Step
<1>7. CASE CloseStore
  BY <1>0, <1>7 DEF CloseStore
<1>8. CASE Exit
  BY <1>0, <1>8 DEF Exit
<1>9. CASE Signal
  BY <1>0, <1>9 DEF Signal
<1>10. CASE Tick
  <2>1. grace' \in 0 .. ShutdownGrace
    <3>1. grace' = grace \/ (grace > 0 /\ grace' = grace - 1)
      BY <1>10 DEF Tick
    <3>2. grace \in 0 .. ShutdownGrace
      BY <1>0
    <3>3. \A g \in 0 .. ShutdownGrace : g > 0 => g - 1 \in 0 .. ShutdownGrace
      BY ProcessAssumption
    <3> QED
      BY <3>1, <3>2, <3>3
  <2>2. ASSUME NEW t \in Turns PROVE turns'[t] \in State
    <3>1. CASE turns[t] = Idle
      BY <1>0, <1>10, <3>1 DEF Tick
    <3>2. CASE turns[t] # Idle
      <4>1. turns[t].left \in Nat \ {0}
        BY <1>0, <1>10, <3>2 DEF Tick, Overdue
      <4>2. turns'[t] = [turns[t] EXCEPT !.left = @ - 1]
        BY <1>10, <3>2 DEF Tick
      <4>3. turns[t].left - 1 \in Nat
        BY <4>1
      <4> QED
        BY <1>0, <4>2, <4>3
    <3> QED
      BY <3>1, <3>2
  <2>3. turns' \in [Turns -> State]
    BY <1>10, <2>2 DEF Tick
  <2> QED
    BY <1>0, <1>10, <2>1, <2>3 DEF Tick
<1>11. CASE \E t \in Turns : Accept(t)
  <2>1. PICK t \in Turns : Accept(t)
    BY <1>11
  <2>2. [at |-> "reading", left |-> ReadTime] \in State
    BY <1>0
  <2>3. turns' \in [Turns -> State]
    BY <1>0, <2>1, <2>2, Zenon DEF Accept
  <2> QED
    BY <1>0, <2>1, <2>3 DEF Accept
<1>12. CASE \E t \in Turns : Take(t)
  <2>1. PICK t \in Turns : Take(t)
    BY <1>12
  <2>2. turns[t] # Idle
    BY <2>1 DEF Take, Idle
  <2>3. PICK i \in DOMAIN cfg.tenants :
          turns' = [turns EXCEPT ![t] =
                      [at |-> "tenant", left |-> EffectiveTimeout(cfg.tenants[i])]]
    BY <2>1 DEF Take
  <2>4. EffectiveTimeout(cfg.tenants[i]) \in Nat
    BY <2>2, ServedWithConfiguration DEF Configured
  <2>5. turns' \in [Turns -> State]
    BY <1>0, <2>3, <2>4
  <2> QED
    BY <1>0, <2>1, <2>5 DEF Take
<1>13. CASE \E t \in Turns : Finish(t)
  <2>1. PICK t \in Turns : Finish(t)
    BY <1>13
  <2>2. Idle \in State
    BY DEF Idle
  <2>3. turns' \in [Turns -> State]
    BY <1>0, <2>1, <2>2, Zenon DEF Finish
  <2> QED
    BY <1>0, <2>1, <2>3 DEF Finish
<1>14. CASE UNCHANGED vars
  BY <1>0, <1>14 DEF vars
<1> QED
  BY <1>1, <1>2, <1>3, <1>4, <1>5, <1>6, <1>7, <1>8, <1>9, <1>10, <1>11, <1>12,
     <1>13, <1>14
  DEF Next, RunStep

LEMMA ControlStep == IInv /\ [Next]_vars => (Returns /\ Holds)'
<1> SUFFICES ASSUME IInv, [Next]_vars PROVE Returns' /\ Holds'
  OBVIOUS
<1> USE DEF Returns, Holds, At, Step
<1>0. Returns /\ Holds /\ TypeOK
  BY DEF IInv
<1>1. CASE LoadConfig
  BY <1>0, <1>1 DEF LoadConfig
<1>2. CASE OpenStore
  BY <1>0, <1>2 DEF OpenStore
<1>3. CASE BuildRouter
  BY <1>0, <1>3 DEF BuildRouter
<1>4. CASE BuildRegistry
  BY <1>0, <1>4 DEF BuildRegistry
<1>5. CASE Stop
  BY <1>0, <1>5 DEF Stop
<1>6. CASE Drained \/ GraceEnds \/ ListenFails
  BY <1>0, <1>6 DEF Drained, GraceEnds, ListenFails
<1>7. CASE CloseStore
  BY <1>0, <1>7 DEF CloseStore
<1>8. CASE Exit
  BY <1>0, <1>8 DEF Exit
<1>9. CASE Signal
  BY <1>0, <1>9 DEF Signal
<1>10. CASE Tick
  BY <1>0, <1>10 DEF Tick
<1>11. CASE \E t \in Turns : Accept(t) \/ Take(t) \/ Finish(t)
  BY <1>0, <1>11 DEF Accept, Take, Finish
<1>12. CASE UNCHANGED vars
  BY <1>0, <1>12 DEF vars
<1> QED
  BY <1>1, <1>2, <1>3, <1>4, <1>5, <1>6, <1>7, <1>8, <1>9, <1>10, <1>11, <1>12
  DEF Next, RunStep

LEMMA LoadedStep == IInv /\ [Next]_vars => (Loaded /\ NotYetServing)'
<1> SUFFICES ASSUME IInv, [Next]_vars PROVE Loaded' /\ NotYetServing'
  OBVIOUS
<1> USE DEF At, Step, Loaded, NotYetServing, Returns, Configured
<1>0. Returns /\ Loaded /\ NotYetServing /\ file \in Files \cup {Unreadable}
  BY DEF IInv, TypeOK
<1>1. CASE LoadConfig
  <2>1. CASE Loads
    BY <1>0, <1>1, <2>1, LoadsConfigured DEF LoadConfig
  <2>2. CASE ~Loads
    BY <1>0, <1>1, <2>2 DEF LoadConfig
  <2> QED
    BY <2>1, <2>2
<1>2. CASE OpenStore
  BY <1>0, <1>2 DEF OpenStore
<1>3. CASE BuildRouter
  BY <1>0, <1>3 DEF BuildRouter
<1>4. CASE BuildRegistry
  BY <1>0, <1>4 DEF BuildRegistry
<1>5. CASE Stop \/ Drained \/ GraceEnds \/ ListenFails
  BY <1>0, <1>5 DEF Stop, Drained, GraceEnds, ListenFails
<1>6. CASE CloseStore \/ Exit
  BY <1>0, <1>6 DEF CloseStore, Exit
<1>7. CASE Signal
  BY <1>0, <1>7 DEF Signal
<1>8. CASE Tick
  BY <1>0, <1>8 DEF Tick
<1>9. CASE \E t \in Turns : Accept(t)
  BY <1>0, <1>9 DEF Accept
<1>10. CASE \E t \in Turns : Take(t)
  BY <1>0, <1>10 DEF Take, Running, Idle
<1>11. CASE \E t \in Turns : Finish(t)
  BY <1>0, <1>11 DEF Finish, Running
<1>12. CASE UNCHANGED vars
  BY <1>0, <1>12 DEF vars
<1> QED
  BY <1>1, <1>2, <1>3, <1>4, <1>5, <1>6, <1>7, <1>8, <1>9, <1>10, <1>11, <1>12
  DEF Next, RunStep

\* A request keeps to its part of a turn while the server accepts more.
LEMMA ServingStep ==
  IInv /\ [Next]_vars /\ pc' = "serving" => \A t \in Turns : Within(t)'
<1> SUFFICES ASSUME IInv, [Next]_vars, pc' = "serving", NEW t \in Turns
             PROVE  Within(t)'
  OBVIOUS
<1> USE DEF Within
<1>0. /\ TypeOK /\ NotYetServing
      /\ pc = "serving" => Within(t)
  BY DEF IInv, Timely
<1>1. CASE BuildRegistry
  BY <1>0, <1>1 DEF BuildRegistry, NotYetServing, At
<1>2. CASE pc = "serving" /\ UNCHANGED <<cfg, turns>>
  BY <1>0, <1>2 DEF EffectiveTimeout
<1>3. ASSUME NEW u \in Turns, Accept(u) PROVE Within(t)'
  <2>1. CASE t = u
    <3>1. turns'[t] = [at |-> "reading", left |-> ReadTime]
      BY <1>0, <1>3, <2>1 DEF Accept, TypeOK
    <3> QED
      BY <3>1, ProcessAssumption
  <2>2. CASE t # u
    BY <1>0, <1>3, <2>2 DEF Accept, At, TypeOK, EffectiveTimeout
  <2> QED
    BY <2>1, <2>2
<1>4. ASSUME NEW u \in Turns, Take(u) PROVE Within(t)'
  <2>0. pc = "serving" /\ cfg' = cfg
    BY <1>4 DEF Take
  <2>1. CASE t = u
    <3>1. PICK i \in DOMAIN cfg.tenants :
            turns'[t] = [at |-> "tenant", left |-> EffectiveTimeout(cfg.tenants[i])]
      BY <1>0, <1>4, <2>1 DEF Take, TypeOK
    <3>2. EffectiveTimeout(cfg.tenants[i]) \in Nat
      BY <1>4, <2>1, ServedWithConfiguration DEF Configured, Take, Idle
    <3> QED
      BY <2>0, <3>1, <3>2 DEF EffectiveTimeout
  <2>2. CASE t # u
    BY <1>0, <1>4, <2>0, <2>2 DEF Take, TypeOK, EffectiveTimeout
  <2> QED
    BY <2>1, <2>2
<1>5. ASSUME NEW u \in Turns, Finish(u) PROVE Within(t)'
  BY <1>0, <1>5 DEF Finish, TypeOK, EffectiveTimeout
<1>6. CASE Tick
  <2>1. CASE turns[t] = Idle
    BY <1>6, <2>1 DEF Tick
  <2>2. CASE turns[t] # Idle
    <3>1. turns'[t] = [turns[t] EXCEPT !.left = @ - 1] /\ cfg' = cfg
      BY <1>6, <2>2 DEF Tick
    <3>2. turns[t] \in [at: {"idle", "reading", "tenant"}, left: Nat]
      BY <1>0 DEF TypeOK
    <3>3. turns'[t].at = turns[t].at /\ turns'[t].left = turns[t].left - 1
      BY <3>1, <3>2
    <3>4. Within(t)
      BY <1>0, <1>6 DEF Tick
    <3>5. CASE turns[t].at = "reading"
      BY <2>2, <3>2, <3>3, <3>4, <3>5, ProcessAssumption
    <3>6. CASE turns[t].at = "tenant"
      <4>1. PICK i \in DOMAIN cfg.tenants :
              turns[t].left <= EffectiveTimeout(cfg.tenants[i])
        BY <2>2, <3>4, <3>6
      <4>2. EffectiveTimeout(cfg.tenants[i]) \in Nat
        BY <2>2, ServedWithConfiguration DEF Configured
      <4>3. turns'[t].left <= EffectiveTimeout(cfg.tenants[i])
        BY <3>2, <3>3, <4>1, <4>2
      <4> QED
        BY <3>1, <3>3, <3>6, <4>3 DEF EffectiveTimeout
    <3> QED
      BY <2>2, <3>4, <3>5, <3>6
  <2> QED
    BY <2>1, <2>2
<1>7. ASSUME LoadConfig \/ OpenStore \/ BuildRouter \/ Stop \/ Drained \/ GraceEnds
             \/ ListenFails \/ CloseStore \/ Exit
      PROVE  FALSE
  BY <1>7
  DEF LoadConfig, OpenStore, BuildRouter, Stop, Drained, GraceEnds, ListenFails,
      CloseStore, Exit, Step
<1>8. CASE Signal \/ UNCHANGED vars
  BY <1>2, <1>8 DEF Signal, vars, At
<1> QED
  BY <1>1, <1>3, <1>4, <1>5, <1>6, <1>7, <1>8 DEF Next, RunStep

\* A shutdown that starts finds every request with less than the grace to go.
LEMMA StopInTime ==
  ASSUME IInv, Stop, Quick', NEW t \in Turns
  PROVE  InTime(t)'
<1> DEFINE timeout(i) == EffectiveTimeout(cfg.tenants[i])
<1>1. /\ turns' = turns /\ cfg' = cfg /\ grace' = ShutdownGrace
      /\ Within(t) /\ TypeOK
  BY DEF Stop, IInv, Timely, At
<1>2. \A i \in DOMAIN cfg.tenants : ReadTime + timeout(i) < ShutdownGrace
  BY <1>1 DEF Quick, EffectiveTimeout
<1>3. CASE turns[t] = Idle
  BY <1>1, <1>3 DEF InTime
<1>4. CASE turns[t] # Idle
  <2>1. Configured
    BY <1>4, ServedWithConfiguration
  <2>2. \A i \in DOMAIN cfg.tenants : timeout(i) \in Nat
    BY <2>1 DEF Configured
  <2>3. turns[t].left \in Nat
    BY <1>1 DEF TypeOK
  <2> HIDE DEF timeout
  <2>4. CASE turns[t].at = "reading" /\ turns[t].left <= ReadTime
    <3>1. \A i \in DOMAIN cfg.tenants : turns[t].left + timeout(i) < ShutdownGrace
      BY <1>2, <2>2, <2>3, <2>4, ProcessAssumption
    <3>2. PICK i \in DOMAIN cfg.tenants : TRUE
      BY <2>1 DEF Configured
    <3>3. turns[t].left < ShutdownGrace
      BY <2>2, <2>3, <3>1, <3>2, ProcessAssumption
    <3> QED
      BY <1>1, <2>4, <3>1, <3>3 DEF InTime, EffectiveTimeout, timeout
  <2>5. ASSUME turns[t].at = "tenant", NEW i \in DOMAIN cfg.tenants,
               turns[t].left <= timeout(i)
        PROVE  InTime(t)'
    <3>1. turns[t].left < ShutdownGrace
      BY <1>2, <2>2, <2>3, <2>5, ProcessAssumption
    <3> QED
      BY <1>1, <2>5, <3>1 DEF InTime
  <2> QED
    BY <1>1, <1>4, <2>4, <2>5 DEF Within, timeout
<1> QED
  BY <1>3, <1>4

\* From then on no request falls behind the grace.
LEMMA DrainingStep ==
  IInv /\ [Next]_vars /\ pc' = "draining" /\ Quick' => \A t \in Turns : InTime(t)'
<1> SUFFICES ASSUME IInv, [Next]_vars, pc' = "draining", Quick', NEW t \in Turns
             PROVE  InTime(t)'
  OBVIOUS
<1>0. TypeOK
  BY DEF IInv
<1>1. CASE Stop
  BY <1>1, StopInTime
<1>2. ASSUME pc = "draining", cfg' = cfg PROVE InTime(t)
  BY <1>2 DEF IInv, Timely, Quick, EffectiveTimeout
<1>3. CASE Signal \/ UNCHANGED vars
  BY <1>2, <1>3 DEF Signal, vars, At, InTime, EffectiveTimeout
<1>4. ASSUME NEW u \in Turns, Take(u) PROVE InTime(t)'
  <2>1. pc = "draining" /\ cfg' = cfg /\ grace' = grace
    BY <1>4 DEF Take
  <2>2. InTime(t)
    BY <1>2, <2>1
  <2>3. CASE t = u
    <3>1. PICK i \in DOMAIN cfg.tenants :
            turns'[t] = [at |-> "tenant", left |-> EffectiveTimeout(cfg.tenants[i])]
      BY <1>0, <1>4, <2>3 DEF Take, TypeOK
    <3>2. turns[t].at = "reading" /\ turns[t] # Idle
      BY <1>4, <2>3 DEF Take, Idle
    <3>3. turns[t].left + EffectiveTimeout(cfg.tenants[i]) < grace
      BY <2>2, <3>2 DEF InTime
    <3>4. EffectiveTimeout(cfg.tenants[i]) \in Nat
      BY <3>2, ServedWithConfiguration DEF Configured
    <3>5. turns[t].left \in Nat /\ grace \in Nat
      BY <1>0, GraceIsNat DEF TypeOK
    <3>6. EffectiveTimeout(cfg.tenants[i]) < grace
      BY <3>3, <3>4, <3>5
    <3> QED
      BY <2>1, <3>1, <3>6 DEF InTime
  <2>4. CASE t # u
    BY <1>0, <1>4, <2>1, <2>2, <2>4 DEF Take, TypeOK, InTime, EffectiveTimeout
  <2> QED
    BY <2>3, <2>4
<1>5. ASSUME NEW u \in Turns, Finish(u) PROVE InTime(t)'
  BY <1>0, <1>2, <1>5 DEF Finish, TypeOK, InTime, EffectiveTimeout
<1>6. CASE Tick
  <2>1. pc = "draining" /\ cfg' = cfg /\ grace' = grace - 1
    BY <1>6 DEF Tick, At
  <2>2. CASE turns[t] = Idle
    BY <1>6, <2>2 DEF Tick, InTime
  <2>3. CASE turns[t] # Idle
    <3>1. turns'[t] = [turns[t] EXCEPT !.left = @ - 1]
      BY <1>6, <2>3 DEF Tick
    <3>2. turns[t] \in [at: {"idle", "reading", "tenant"}, left: Nat] /\ grace \in Nat
      BY <1>0, GraceIsNat DEF TypeOK
    <3>3. turns'[t].at = turns[t].at /\ turns'[t].left = turns[t].left - 1
      BY <3>1, <3>2
    <3>4. InTime(t)
      BY <1>2, <2>1
    <3>5. turns'[t].at \in {"reading", "tenant"} /\ turns'[t].left < grace'
      BY <2>1, <2>3, <3>2, <3>3, <3>4 DEF InTime
    <3>6. ASSUME turns[t].at = "reading", NEW i \in DOMAIN cfg.tenants
          PROVE  turns'[t].left + EffectiveTimeout(cfg.tenants[i]) < grace'
      <4>1. turns[t].left + EffectiveTimeout(cfg.tenants[i]) < grace
        BY <2>3, <3>4, <3>6 DEF InTime
      <4>2. EffectiveTimeout(cfg.tenants[i]) \in Nat
        BY <2>3, ServedWithConfiguration DEF Configured
      <4> QED
        BY <2>1, <3>2, <3>3, <4>1, <4>2
    <3> QED
      BY <2>1, <3>3, <3>5, <3>6 DEF InTime, EffectiveTimeout
  <2> QED
    BY <2>2, <2>3
<1>7. ASSUME LoadConfig \/ OpenStore \/ BuildRouter \/ BuildRegistry \/ Drained
             \/ GraceEnds \/ ListenFails \/ CloseStore \/ Exit
             \/ \E u \in Turns : Accept(u)
      PROVE  FALSE
  BY <1>7
  DEF LoadConfig, OpenStore, BuildRouter, BuildRegistry, Drained, GraceEnds,
      ListenFails, CloseStore, Exit, Accept, Step, At
<1> QED
  BY <1>1, <1>3, <1>4, <1>5, <1>6, <1>7 DEF Next, RunStep

\* When the grace is over nothing is left that could be cut off.
LEMMA CutStep == IInv /\ [Next]_vars => OnlySlowTurnsAreCut'
<1> SUFFICES ASSUME IInv, [Next]_vars, result' \in {"drained", "cutoff"}, Quick',
                    NEW t \in Turns
             PROVE  turns'[t] = Idle
  BY DEF OnlySlowTurnsAreCut
<1>0. TypeOK /\ Returns /\ OnlySlowTurnsAreCut /\ Timely
  BY DEF IInv
<1>1. CASE Drained
  BY <1>1 DEF Drained
<1>2. CASE GraceEnds
  <2>1. InTime(t) /\ turns[t].left \in Nat /\ grace = 0 /\ turns' = turns
    BY <1>0, <1>2 DEF GraceEnds, Timely, TypeOK, At, Quick, EffectiveTimeout
  <2>2. ~(turns[t].left < grace)
    <3>1. \A n \in Nat : ~(n < 0)
      OBVIOUS
    <3> QED
      BY <2>1, <3>1, Zenon
  <2> QED
    BY <2>1, <2>2, Zenon DEF InTime
<1>3. ASSUME result' = result, cfg' = cfg PROVE \A u \in Turns : turns[u] = Idle
  BY <1>0, <1>3 DEF OnlySlowTurnsAreCut, Quick, EffectiveTimeout
<1>4. CASE CloseStore \/ Exit \/ UNCHANGED vars
  BY <1>3, <1>4 DEF CloseStore, Exit, vars
<1>5. CASE Signal
  BY <1>3, <1>5 DEF Signal
<1>6. CASE \E u \in Turns : Take(u)
  <2>1. PICK u \in Turns : Take(u)
    BY <1>6
  <2>2. turns[u] = Idle /\ turns[u].at = "reading"
    BY <1>3, <2>1 DEF Take
  <2> QED
    BY <2>2 DEF Idle
<1>7. CASE \E u \in Turns : Finish(u)
  BY <1>0, <1>3, <1>7 DEF Finish, TypeOK
<1>8. ASSUME LoadConfig \/ OpenStore \/ BuildRouter \/ BuildRegistry \/ Stop
             \/ ListenFails \/ Tick \/ \E u \in Turns : Accept(u)
      PROVE  FALSE
  BY <1>0, <1>8
  DEF LoadConfig, OpenStore, BuildRouter, BuildRegistry, Stop, ListenFails, Tick,
      Accept, Step, At, Returns
<1> QED
  BY <1>1, <1>2, <1>4, <1>5, <1>6, <1>7, <1>8 DEF Next, RunStep

LEMMA StepIInv == IInv /\ [Next]_vars => IInv'
BY TypeStep, ControlStep, LoadedStep, ServingStep, DrainingStep, CutStep
DEF IInv, Timely

LEMMA Invariant == Spec => []IInv
BY InitIInv, StepIInv, PTL DEF Spec

(***************************************************************************)
(* The variables keep their types: no turn and no shutdown outlives its    *)
(* deadline.                                                               *)
(***************************************************************************)
THEOREM ProcessTypeCorrect == Spec => []TypeOK
<1>1. IInv => TypeOK
  BY DEF IInv
<1> QED
  BY <1>1, Invariant, PTL

(***************************************************************************)
(* Whatever fails or interrupts run, the store is closed when it exits,    *)
(* and open as long as the gateway serves.                                 *)
(***************************************************************************)
THEOREM StoreIsReleased == Spec => []ExitReleasesTheStore
<1>1. IInv => ExitReleasesTheStore
  BY DEF IInv, Holds, ExitReleasesTheStore
<1> QED
  BY <1>1, Invariant, PTL

(***************************************************************************)
(* A shutdown whose grace exceeds the time a request and any tenant take   *)
(* leaves no turn between its Load and its Save, however many are in       *)
(* service and wherever they are when the signal comes.                    *)
(***************************************************************************)
THEOREM ShutdownIsGraceful == Spec => []OnlySlowTurnsAreCut
<1>1. IInv => OnlySlowTurnsAreCut
  BY DEF IInv
<1> QED
  BY <1>1, Invariant, PTL
----------------------------------------------------------------------------
(* Who is admitted *)

\* What is mounted is what the configuration asks for.
Mounted ==
  /\ pc \in {"store", "router", "registry", "serving"} =>
       \E f \in Files : cfg = ApplyDefaults(f)
  /\ pc = "serving" => Registers(cfg) /\ registry = Registered(cfg)

LEMMA MountedStep == Mounted /\ TypeOK /\ [Next]_vars => Mounted'
<1> SUFFICES ASSUME Mounted, TypeOK, [Next]_vars PROVE Mounted'
  OBVIOUS
<1> USE DEF Mounted, At, Step
<1>1. CASE LoadConfig
  BY <1>1 DEF LoadConfig, Loads, TypeOK
<1>2. ASSUME UNCHANGED <<cfg, registry>>,
             pc' = pc \/ pc' \in {"draining", "returning", "closed", "exited"}
                      \/ (pc = "store" /\ pc' = "router")
                      \/ (pc = "router" /\ pc' = "registry")
      PROVE  Mounted'
  <2>1. Registers(cfg)' <=> Registers(cfg)
    BY <1>2 DEF Registers, Enabled
  <2>2. Registered(cfg)' = Registered(cfg)
    BY <1>2 DEF Registered, Enabled, Guard
  <2>3. ApplyDefaults(cfg)' = ApplyDefaults(cfg)
    BY <1>2 DEF ApplyDefaults
  <2> QED
    BY <1>2, <2>1, <2>2
<1>3. CASE OpenStore \/ BuildRouter
  BY <1>2, <1>3 DEF OpenStore, BuildRouter
<1>4. CASE BuildRegistry
  <2>1. cfg' = cfg
    BY <1>4 DEF BuildRegistry
  <2>2. CASE Registers(cfg)
    <3>1. pc' = "serving" /\ registry' = Registered(cfg) /\ pc = "registry"
      BY <1>4, <2>2 DEF BuildRegistry
    <3>2. Registers(cfg)'
      BY <2>1, <2>2 DEF Registers, Enabled
    <3>3. Registered(cfg)' = Registered(cfg)
      BY <2>1 DEF Registered, Enabled, Guard
    <3> QED
      BY <2>1, <3>1, <3>2, <3>3
  <2>3. CASE ~Registers(cfg)
    BY <1>4, <2>3 DEF BuildRegistry
  <2> QED
    BY <2>2, <2>3
<1>5. CASE Stop \/ Drained \/ GraceEnds \/ ListenFails \/ CloseStore \/ Exit
  BY <1>2, <1>5 DEF Stop, Drained, GraceEnds, ListenFails, CloseStore, Exit
<1>6. CASE Signal \/ Tick \/ UNCHANGED vars
  BY <1>2, <1>6 DEF Signal, Tick, vars
<1>7. CASE \E t \in Turns : Accept(t) \/ Take(t) \/ Finish(t)
  BY <1>2, <1>7 DEF Accept, Take, Finish
<1> QED
  BY <1>1, <1>3, <1>4, <1>5, <1>6, <1>7 DEF Next, RunStep

\* A request of a foreign client is judged by its address, direct or forwarded.
LEMMA ClientIsJudged ==
  ASSUME NEW forwarders \in Seq(Entries), ~ParseErrs(forwarders),
         NEW client \in Addresses, ~InRanges(forwarders, client),
         NEW ours, ours \subseteq Addresses, \A f \in ours : InRanges(forwarders, f),
         NEW claims, claims \subseteq Seq(Addresses \cup {Unparseable}),
         NEW request \in Requests(client, ours, claims)
  PROVE  ClientAddr(ParsePrefixes(forwarders), request) = Unmap(client)
<1> DEFINE Hops == Addresses \cup {Unparseable}
<1>1. CASE request = Direct(client)
  BY <1>1, PeerIsJudged DEF Direct
<1>2. ASSUME NEW f \in ours, NEW hops \in Chains(client, ours, claims),
             request = [peer |-> f, hops |-> hops]
      PROVE  ClientAddr(ParsePrefixes(forwarders), request) = Unmap(client)
  <2>1. PICK claim \in claims, seen \in {<<client>>} \cup {<<client, g>> : g \in ours} :
          hops = claim \o seen
    BY DEF Chains
  <2>2. /\ seen \in Seq(Hops) /\ Len(seen) >= 1 /\ seen[1] = client
        /\ \A j \in DOMAIN seen : j > 1 => seen[j] \in ours
    <3>1. CASE seen = <<client>>
      BY <3>1
    <3>2. ASSUME NEW g \in ours, seen = <<client, g>>
          PROVE  /\ seen \in Seq(Hops) /\ Len(seen) >= 1 /\ seen[1] = client
                 /\ \A j \in DOMAIN seen : j > 1 => seen[j] \in ours
      BY <3>2
    <3> QED
      BY <3>1, <3>2
  <2> DEFINE n == Len(claim) + 1
  <2>3. claim \in Seq(Hops)
    OBVIOUS
  <2>4. /\ hops \in Seq(Hops) /\ n \in DOMAIN hops /\ hops[n] = client
        /\ \A j \in DOMAIN hops : j > n => hops[j] \in ours
    BY <2>1, <2>2, <2>3
  <2> HIDE DEF n
  <2>5. \A j \in DOMAIN hops : j > n => hops[j] \in Addresses /\ InRanges(forwarders, hops[j])
    BY <2>4
  <2>6. f \in Addresses /\ InRanges(forwarders, f)
    OBVIOUS
  <2>7. ClientAddr(ParsePrefixes(forwarders), [peer |-> f, hops |-> hops]) = Unmap(hops[n])
    BY <2>4, <2>5, <2>6, LastForeignHopIsJudged
  <2> QED
    BY <1>2, <2>4, <2>7
<1>3. request = Direct(client) \/ \E f \in ours, hops \in Chains(client, ours, claims) :
        request = [peer |-> f, hops |-> hops]
  BY DEF Requests
<1> QED
  BY <1>1, <1>2, <1>3

\* The guard of an adapter's lists.
LEMMA GuardIsReal ==
  ASSUME NEW entries \in Seq(Entries), ~ParseErrs(entries)
  PROVE  ParsePrefixes(entries) \in SUBSET Prefixes
<1> SUFFICES ASSUME NEW i \in DOMAIN entries, entries[i] # Blank
             PROVE  UnmapPrefix(entries[i]) \in Prefixes
  BY DEF ParsePrefixes
<1>1. entries[i] \in Ranges
  BY DEF ParseErrs, Entries
<1> QED
  BY <1>1, PrefixBits DEF Prefixes, Bits

LEMMA MountedIsExact == Mounted => AllowlistIsExact
<1> SUFFICES ASSUME Mounted, pc = "serving", NEW name \in DOMAIN registry
             PROVE  LET a == cfg.adapters[name]
                        ours == {f \in Addresses : InRanges(a.forwarders, f)}
                        claims == {<<>>, <<Unparseable>>} \cup {<<b>> : b \in Addresses}
                    IN /\ NeedsAllowlist[name] => registry[name] # NoGuard
                       /\ registry[name] # NoGuard =>
                            \A client \in Addresses \ ours :
                              \A request \in Requests(client, ours, claims) :
                                Admits(name, request) <=> InRanges(a.allowed, client)
  BY DEF AllowlistIsExact
<1> DEFINE a == cfg.adapters[name]
           ours == {f \in Addresses : InRanges(a.forwarders, f)}
           claims == {<<>>, <<Unparseable>>} \cup {<<b>> : b \in Addresses}
           guard == [allowed |-> ParsePrefixes(a.allowed),
                     forwarders |-> ParsePrefixes(a.forwarders)]
<1>1. name \in Enabled(cfg) /\ Registers(cfg) /\ registry[name] = Guard(a)
  BY DEF Mounted, Registered
<1>2. a \in AdapterConfig
  <2>1. PICK f \in Files : cfg = ApplyDefaults(f)
    BY DEF Mounted
  <2>2. cfg.adapters = f.adapters
    BY <2>1, FilesAssumption DEF ApplyDefaults
  <2> QED
    BY <1>1, <2>2, FilesAssumption DEF Enabled
<1>3. a.allowed \in Seq(Entries) /\ a.forwarders \in Seq(Entries)
  BY <1>2 DEF AdapterConfig
<1>4. /\ NeedsAllowlist[name] => a.allowed # <<>>
      /\ a.allowed # <<>> => ~ParseErrs(a.allowed) /\ ~ParseErrs(a.forwarders)
  BY <1>1 DEF Registers
<1> HIDE DEF a
<1>5. ASSUME a.allowed # <<>> PROVE registry[name] = guard /\ guard # NoGuard
  <2>1. guard \in [allowed: SUBSET Prefixes, forwarders: SUBSET Prefixes]
    BY <1>3, <1>4, <1>5, GuardIsReal
  <2> QED
    BY <1>1, <1>5, <2>1, GuardAssumption DEF Guard
<1>6. a.allowed = <<>> => registry[name] = NoGuard
  BY <1>1 DEF Guard
<1>7. ASSUME registry[name] # NoGuard,
             NEW client \in Addresses \ ours, NEW request \in Requests(client, ours, claims)
      PROVE  Admits(name, request) <=> InRanges(a.allowed, client)
  <2>1. registry[name] = guard /\ ~ParseErrs(a.allowed) /\ ~ParseErrs(a.forwarders)
    BY <1>4, <1>5, <1>6, <1>7
  <2>2. claims \subseteq Seq(Addresses \cup {Unparseable})
    <3>1. <<>> \in Seq(Addresses \cup {Unparseable})
      OBVIOUS
    <3>2. \A b \in Addresses \cup {Unparseable} : <<b>> \in Seq(Addresses \cup {Unparseable})
      OBVIOUS
    <3> QED
      BY <3>1, <3>2
  <2>3. client \in Addresses /\ ~InRanges(a.forwarders, client)
    OBVIOUS
  <2>4. ours \subseteq Addresses /\ \A f \in ours : InRanges(a.forwarders, f)
    OBVIOUS
  <2> HIDE DEF ours, claims
  <2>5. ClientAddr(ParsePrefixes(a.forwarders), request) = Unmap(client)
    BY <1>3, <1>7, <2>1, <2>2, <2>3, <2>4, ClientIsJudged
  <2>6. Admits(name, request) <=> ContainsAddr(ParsePrefixes(a.allowed), Unmap(client))
    BY <1>7, <2>1, <2>5 DEF Admits, Verify
  <2> QED
    BY <1>3, <2>1, <2>3, <2>6, ListIsExact
<1> HIDE DEF ours, claims, guard
<1>8. NeedsAllowlist[name] => registry[name] # NoGuard
  BY <1>4, <1>5
<1> QED
  BY <1>7, <1>8 DEF a, ours, claims

(***************************************************************************)
(* An adapter that authenticates nothing serves the clients in its ranges  *)
(* and no others: for addresses of every width, every list of ranges, and  *)
(* every forwarder a client may come through.                              *)
(***************************************************************************)
THEOREM AllowlistHolds == Spec => []AllowlistIsExact
<1>1. Init => Mounted
  BY DEF Init, Mounted
<1> QED
  BY <1>1, MountedStep, MountedIsExact, ProcessTypeCorrect, PTL DEF Spec

----------------------------------------------------------------------------
(* Who is answered *)

\* What has passed run's checks stays in force.
Sound ==
  /\ pc \in {"store", "router", "registry", "serving"} => Validates(cfg)
  /\ pc \in {"registry", "serving"} => NewRouterAccepts(cfg.tenants)

LEMMA SoundStep == Sound /\ [Next]_vars => Sound'
<1> SUFFICES ASSUME Sound, [Next]_vars PROVE Sound'
  OBVIOUS
<1> USE DEF Sound, At, Step
<1>1. CASE LoadConfig
  <2>1. CASE Loads
    <3>1. cfg' = ApplyDefaults(file) /\ Validates(ApplyDefaults(file)) /\ pc' = "store"
      BY <1>1, <2>1 DEF LoadConfig, Loads
    <3>2. Validates(cfg')
      BY <3>1
    <3> QED
      BY <3>1, <3>2 DEF Validates, Enabled
  <2>2. CASE ~Loads
    BY <1>1, <2>2 DEF LoadConfig
  <2> QED
    BY <2>1, <2>2
<1>2. ASSUME cfg' = cfg,
             \/ pc' = pc
             \/ pc' \in {"draining", "returning", "closed", "exited"}
             \/ pc = "store" /\ pc' = "router"
             \/ pc = "router" /\ pc' = "registry" /\ NewRouterAccepts(cfg.tenants)
             \/ pc = "registry" /\ pc' = "serving"
      PROVE  Sound'
  <2>1. /\ Validates(cfg)' <=> Validates(cfg)
        /\ NewRouterAccepts(cfg.tenants)' <=> NewRouterAccepts(cfg.tenants)
    BY <1>2
    DEF Validates, Enabled, NewRouterAccepts, UniqueNames, UniqueRoutes, OneRootEach, Roots
  <2> QED
    BY <1>2, <2>1
<1>3. CASE OpenStore \/ BuildRouter \/ BuildRegistry
  BY <1>2, <1>3 DEF OpenStore, BuildRouter, BuildRegistry
<1>4. CASE Stop \/ Drained \/ GraceEnds \/ ListenFails \/ CloseStore \/ Exit
  BY <1>2, <1>4 DEF Stop, Drained, GraceEnds, ListenFails, CloseStore, Exit
<1>5. CASE Signal \/ Tick \/ UNCHANGED vars
  BY <1>2, <1>5 DEF Signal, Tick, vars
<1>6. CASE \E t \in Turns : Accept(t) \/ Take(t) \/ Finish(t)
  BY <1>2, <1>6 DEF Accept, Take, Finish
<1> QED
  BY <1>1, <1>3, <1>4, <1>5, <1>6 DEF Next, RunStep

\* Every range holds an address.  One that reaches beyond the mapped range does
\* not hold the shorter family: the address is taken from outside it.
LEMMA RangeAdmits ==
  ASSUME NEW p \in Ranges
  PROVE  \E a \in Addresses : InRange(p, a)
<1>1. p.addr \in Addresses /\ p.bits \in Nat /\ p.bits <= Len(p.addr)
  BY DEF Ranges
<1> DEFINE bits == IF Long(p.addr) THEN p.bits ELSE p.bits + Len(Mapped)
           l == AsLong(p.addr)
<1>2. /\ l \in Seq(Bits) /\ Len(l) = LongBits
      /\ Long(p.addr) => l = p.addr /\ Len(p.addr) = LongBits
      /\ ~Long(p.addr) => Len(p.addr) = ShortBits
  BY <1>1, LongForm, AddressBits
<1>3. bits \in Nat /\ bits \in 0 .. LongBits
  BY <1>1, <1>2, Widths DEF LongBits
<1>4. CASE bits >= Len(Mapped)
  <2>1. StartsWith(l, SubSeq(l, 1, bits))
    BY <1>2, <1>3, StartsWithFirst
  <2> QED
    BY <1>1, <1>4, <2>1 DEF InRange
<1>5. CASE bits < Len(Mapped)
  <2>1. Long(p.addr) /\ bits = p.bits
    BY <1>1, <1>5, Widths
  <2> DEFINE n == bits + 1
             a == [l EXCEPT ![n] = 1 - Mapped[n]]
  <2>2. n \in 1 .. Len(Mapped) /\ n \in 1 .. LongBits /\ n > bits
    BY <1>3, <1>5, Widths
  <2>3. Mapped[n] \in Bits /\ 1 - Mapped[n] \in Bits /\ 1 - Mapped[n] # Mapped[n]
    <3>1. Mapped[n] \in Bits
      BY <2>2, Widths
    <3> QED
      BY <3>1 DEF Bits
  <2> HIDE DEF l, n, bits
  <2>4. /\ a \in [1 .. LongBits -> Bits] /\ a \in Seq(Bits) /\ Len(a) = LongBits
        /\ a[n] # Mapped[n] /\ \A i \in 1 .. bits : a[i] = l[i]
    <3>1. l \in [1 .. LongBits -> Bits]
      BY <1>2
    <3>2. a \in [1 .. LongBits -> Bits]
      BY <2>3, <3>1
    <3>3. a \in Seq(Bits) /\ Len(a) = LongBits
      <4>1. \A k \in Nat : \A f \in [1 .. k -> Bits] : f \in Seq(Bits) /\ Len(f) = k
        OBVIOUS
      <4> QED
        BY <3>2, <4>1, Widths, Zenon
    <3>4. a[n] # Mapped[n]
      BY <2>2, <2>3, <3>1
    <3>5. \A i \in 1 .. bits : a[i] = l[i]
      BY <1>3, <2>2, <3>1
    <3> QED
      BY <3>2, <3>3, <3>4, <3>5
  <2>5. a \in Addresses
    BY <2>4 DEF Addresses, LongBits, Bits
  <2> HIDE DEF a
  <2>6. Long(a) /\ AsLong(a) = a
    BY <2>4 DEF Long, AsLong, LongBits
  <2>7. ~Is4In6(a)
    BY <2>2, <2>4, IsMapped
  <2>8. StartsWith(a, SubSeq(l, 1, bits))
    BY <1>2, <1>3, <2>4, StartsWithFirst
  <2> QED
    BY <2>5, <2>6, <2>7, <2>8 DEF InRange, l, bits
<1>6. Len(Mapped) \in Nat
  BY Widths
<1> QED
  BY <1>3, <1>4, <1>5, <1>6

\* An adapter whose list is not of blanks alone admits someone.
LEMMA GuardAdmits ==
  ASSUME NEW a \in AdapterConfig, a.allowed # <<>>,
         ~ParseErrs(a.allowed), ~AllBlank(a.allowed)
  PROVE  \E client \in Addresses : Verify(Guard(a), Direct(client))
<1>1. a.allowed \in Seq(Entries)
  BY DEF AdapterConfig
<1>2. PICK i \in DOMAIN a.allowed : a.allowed[i] # Blank
  BY DEF AllBlank
<1>3. a.allowed[i] \in Ranges
  BY <1>1, <1>2 DEF Entries, ParseErrs
<1>4. PICK client \in Addresses : InRange(a.allowed[i], client)
  BY <1>3, RangeAdmits
<1>5. ContainsAddr(ParsePrefixes(a.allowed), Unmap(client))
  BY <1>1, <1>2, <1>4, ListIsExact DEF InRanges
<1>6. ClientAddr(ParsePrefixes(a.forwarders), Direct(client)) = Unmap(client)
  BY DEF ClientAddr, Direct
<1>7. Verify(Guard(a), Direct(client))
  BY <1>5, <1>6 DEF Verify, Guard
<1> QED
  BY <1>7

\* Every shortcode a configuration names has a tenant for a dialogue's start.
LEMMA EveryShortcodeAnswers ==
  ASSUME NEW tenants \in Seq(TenantConfig),
         NewRouterAccepts(tenants), NEW t \in DOMAIN tenants
  PROVE  Route(tenants, tenants[t].shortcode, <<>>) # NoRoute
<1> DEFINE sc == tenants[t].shortcode
           i == RouteIndex(tenants, sc, <<>>)
<1>1. \A j \in DOMAIN tenants : tenants[j].name \in STRING /\ tenants[j].prefix \in Seq(STRING)
  <2>1. \A j \in DOMAIN tenants : tenants[j] \in TenantConfig
    OBVIOUS
  <2> QED
    BY <2>1 DEF TenantConfig
<1>2. PICK r \in DOMAIN tenants : tenants[r].shortcode = sc /\ tenants[r].prefix = <<>>
  BY DEF NewRouterAccepts, OneRootEach, Roots
<1>3. r \in Matching(tenants, sc, <<>>)
  BY <1>2 DEF Matching, HasPrefix
<1>4. i \in Matching(tenants, sc, <<>>)
  <2>1. ASSUME NEW j \in Matching(tenants, sc, <<>>) PROVE j = r
    <3>1. j \in DOMAIN tenants /\ tenants[j].shortcode = sc /\ Len(tenants[j].prefix) <= 0
      BY DEF Matching, HasPrefix
    <3>2. tenants[j].prefix = <<>>
      BY <1>1, <3>1
    <3> QED
      BY <1>2, <3>1, <3>2 DEF NewRouterAccepts, UniqueRoutes
  <2>2. \A j \in Matching(tenants, sc, <<>>) \ {r} : SortedBefore(tenants, r, j)
    BY <2>1, Zenon
  <2> QED
    BY <1>3, <2>2, Zenon DEF RouteIndex
<1>5. tenants[i].name \in STRING
  BY <1>1, <1>4 DEF Matching
<1> QED
  BY <1>3, <1>5, NamesAssumption DEF Route

LEMMA SoundAnswers ==
  ASSUME Mounted, Sound
  PROVE  ServingAnswersSomeone
<1> SUFFICES ASSUME pc = "serving"
             PROVE  /\ \E name \in DOMAIN registry :
                         \/ \E a \in Addresses : Admits(name, Direct(a))
                         \/ AllBlank(cfg.adapters[name].allowed)
                    /\ \A i \in DOMAIN cfg.tenants :
                         Route(cfg.tenants, cfg.tenants[i].shortcode, <<>>) # NoRoute
  BY DEF ServingAnswersSomeone
<1>1. PICK f \in Files : cfg = ApplyDefaults(f)
  BY DEF Mounted
<1>2. cfg.tenants = f.tenants /\ cfg.adapters = f.adapters
  BY <1>1, FilesAssumption DEF ApplyDefaults
<1>3. cfg.tenants \in Seq(TenantConfig)
  BY <1>2, FilesAssumption
<1>4. \A i \in DOMAIN cfg.tenants :
        Route(cfg.tenants, cfg.tenants[i].shortcode, <<>>) # NoRoute
  BY <1>3, EveryShortcodeAnswers DEF Sound
<1>5. PICK name \in Enabled(cfg) : TRUE
  BY DEF Sound, Validates
<1> DEFINE a == cfg.adapters[name]
<1>6. a \in AdapterConfig
  BY <1>2, <1>5, FilesAssumption DEF Enabled
<1>7. /\ name \in DOMAIN registry /\ registry[name] = Guard(a)
      /\ a.allowed # <<>> => ~ParseErrs(a.allowed)
  BY <1>5 DEF Mounted, Registered, Registers
<1> HIDE DEF a
<1>8. CASE a.allowed = <<>>
  <2>1. registry[name] = NoGuard
    BY <1>7, <1>8 DEF Guard
  <2>2. Addresses # {}
    <3>1. [i \in 1 .. ShortBits |-> 0] \in Addresses
      BY DEF Addresses
    <3> QED
      BY <3>1
  <2> QED
    BY <1>4, <1>7, <2>1, <2>2 DEF Admits
<1>9. CASE a.allowed # <<>> /\ ~AllBlank(a.allowed)
  <2>1. PICK client \in Addresses : Verify(Guard(a), Direct(client))
    BY <1>6, <1>7, <1>9, GuardAdmits
  <2> QED
    BY <1>4, <1>7, <2>1 DEF Admits
<1>10. CASE AllBlank(a.allowed)
  BY <1>4, <1>7, <1>10 DEF a
<1> QED
  BY <1>8, <1>9, <1>10

(***************************************************************************)
(* What run starts can answer, whatever is configured: every dialogue on a *)
(* configured shortcode has a tenant, and some client passes some adapter  *)
(* unless every list holds but blanks.                                     *)
(***************************************************************************)
THEOREM ServingIsUseful == Spec => []ServingAnswersSomeone
<1>1. Init => Mounted /\ Sound
  BY DEF Init, Mounted, Sound
<1>2. Mounted /\ Sound => ServingAnswersSomeone
  BY SoundAnswers
<1> QED
  BY <1>1, <1>2, MountedStep, SoundStep, ProcessTypeCorrect, PTL DEF Spec
=============================================================================
