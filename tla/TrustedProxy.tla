---------------------------- MODULE TrustedProxy ----------------------------
(***************************************************************************)
(* Which clients an allowlist admits (adapter/trustedproxy.go).            *)
(*                                                                         *)
(* An address is a sequence of bits and its length says its family.  The   *)
(* longer family holds the shorter one in the range that starts with       *)
(* Mapped, as IPv6 holds IPv4 in ::ffff:0:0/96.                            *)
(***************************************************************************)
EXTENDS Naturals, Sequences

CONSTANTS
  Mapped,       \* the bits before a mapped address: 96 in the code
  ShortBits,    \* the length of the shorter family: 32 in the code
  Unparseable,  \* an entry of a header that is no address
  Blank,        \* an entry of a list that is empty
  Malformed     \* an entry of a list that is neither a range nor an address

ASSUME AddressAssumption ==
  ShortBits \in Nat /\ Mapped \in Seq({0, 1}) /\ Mapped # <<>>

Addresses == [1 .. ShortBits -> {0, 1}] \cup [1 .. ShortBits + Len(Mapped) -> {0, 1}]

Ranges == {r \in [addr: Addresses, bits: Nat] : r.bits <= Len(r.addr)}

ASSUME EntryAssumption ==
  /\ Unparseable \notin Addresses
  /\ Blank # Malformed /\ {Blank, Malformed} \cap Ranges = {}

\* What a list may hold.
Entries == Ranges \cup {Blank, Malformed}

Long(a) == Len(a) = ShortBits + Len(Mapped)

StartsWith(a, bits) ==
  Len(bits) <= Len(a) /\ \A i \in DOMAIN bits : a[i] = bits[i]

Is4In6(a) == Long(a) /\ StartsWith(a, Mapped)

Unmap(a) == IF Is4In6(a) THEN SubSeq(a, Len(Mapped) + 1, Len(a)) ELSE a

\* Mutant: a prefix in the mapped range stays in the longer family.
UnmapPrefixNot(p) == p

UnmapPrefix(p) ==
  IF ~Is4In6(p.addr) \/ p.bits < Len(Mapped) THEN p
  ELSE [addr |-> Unmap(p.addr), bits |-> p.bits - Len(Mapped)]

\* Any other entry of a list is a range; a bare address is the range of all its
\* bits.
ParseErrs(entries) == \E i \in DOMAIN entries : entries[i] = Malformed

ParsePrefixes(entries) ==
  {UnmapPrefix(entries[i]) : i \in {j \in DOMAIN entries : entries[j] # Blank}}

\* netip.Prefix.Contains: the bits beyond the prefix do not matter.
Contains(p, a) ==
  /\ Len(a) = Len(p.addr)
  /\ StartsWith(a, SubSeq(p.addr, 1, p.bits))

ContainsAddr(prefixes, a) == \E p \in prefixes : Contains(p, a)

\* Mutant: the first hop in the header is believed.
ClientAddrFirst(forwarders, request) ==
  LET peer == Unmap(request.peer)
      hops == request.hops
  IN IF ~ContainsAddr(forwarders, peer) \/ hops = <<>> \/ hops[1] = Unparseable
     THEN peer ELSE Unmap(hops[1])

\* The peer, unless it is one of our forwarders: then the last hop in the
\* header, its lines joined, that is not.
ClientAddr(forwarders, request) ==
  LET peer == Unmap(request.peer)
      hops == request.hops
      others == {i \in DOMAIN hops : /\ hops[i] # Unparseable
                                     /\ ~ContainsAddr(forwarders, Unmap(hops[i]))}
      last == CHOOSE i \in others : \A j \in others : j <= i
  IN IF ~ContainsAddr(forwarders, peer) \/ others = {} THEN peer
     ELSE Unmap(hops[last])

Verify(guard, request) ==
  ContainsAddr(guard.allowed, ClientAddr(guard.forwarders, request))

----------------------------------------------------------------------------
(***************************************************************************)
(* What a list says: an address written in either family stands for one of *)
(* the longer.  A range wider than the mapped one holds none of the        *)
(* shorter family.                                                         *)
(***************************************************************************)
AsLong(a) == IF Long(a) THEN a ELSE Mapped \o a

InRange(entry, a) ==
  LET bits == IF Long(entry.addr) THEN entry.bits ELSE entry.bits + Len(Mapped)
  IN /\ StartsWith(AsLong(a), SubSeq(AsLong(entry.addr), 1, bits))
     /\ Is4In6(AsLong(a)) => bits >= Len(Mapped)

InRanges(entries, a) ==
  \E i \in DOMAIN entries : entries[i] # Blank /\ InRange(entries[i], a)
=============================================================================
