------------------------------ MODULE SockAddr ------------------------------
(***************************************************************************)
(* The addresses of package winipcfg (types.go): RawSockaddrInet is one    *)
(* piece of memory that holds an IPv4 or an IPv6 socket address, and these *)
(* operators are the methods that write a netip value into it and read it  *)
(* back.  The fields are those of the IPv6 layout, of 2, 2, 4, 8, 8 and 4  *)
(* bytes; the IPv4 layout has the address in word and zeros in hi, and is  *)
(* shorter: what lo and scope held stays there.                            *)
(***************************************************************************)
EXTENDS Integers

CONSTANTS
  Words,      \* values of 4 or 8 bytes of an address, 0 among them
  MaxScope,   \* the largest scope id (2^32 - 1 in the code)
  Zones,      \* zones an IPv6 address may have (strings)
  NoZone,     \* the empty one
  ParseUint,  \* strconv.ParseUint(z, 10, 32) of a zone, 0 if it is an error
  FormatUint  \* strconv.FormatUint of a scope id

ASSUME ScopeAssumption ==
  /\ 0 \in Words /\ MaxScope \in Nat /\ NoZone \notin Zones
  /\ ParseUint \in [Zones -> 0 .. MaxScope]
  /\ FormatUint \in [1 .. MaxScope -> Zones]
  /\ \A n \in 1 .. MaxScope : ParseUint[FormatUint[n]] = n

Families == {"inet", "inet6"}

(* netip.Addr: is tells Is4, Is6 (also of an IPv4-mapped one) or neither.  *)
Invalid == [is |-> "neither"]
Addr4   == [is : {"inet"}, word : Words]
Addr6   == [is : {"inet6"}, hi : Words, lo : Words, zone : Zones \cup {NoZone}]
Addr    == Addr4 \cup Addr6 \cup {Invalid}
IsValid(a) == a.is \in Families

(* Port is kept as its two bytes in memory.                                *)
Byte  == 0 .. 255
Ports == 0 .. 65535
RawSockaddrInet ==
  [family : Families \cup {"unspec"}, port : Byte \X Byte, word : Words,
   hi : Words, lo : Words, scope : 0 .. MaxScope]
Zeroed == [family |-> "unspec", port |-> <<0, 0>>, word |-> 0, hi |-> 0,
           lo |-> 0, scope |-> 0]

htons(p) == <<p \div 256, p % 256>>
ntohs(b) == 256 * b[1] + b[2]

ScopeId(zone) == IF zone = NoZone THEN 0 ELSE ParseUint[zone]

SetAddr4(raw, a, p) ==
  [raw EXCEPT !.family = "inet", !.port = htons(p), !.word = a.word, !.hi = 0]

SetAddr6(raw, a, p) ==
  [family |-> "inet6", port |-> htons(p), word |-> 0, hi |-> a.hi, lo |-> a.lo,
   scope |-> ScopeId(a.zone)]

(* SetAddrPort fails, and writes nothing, when the address is not valid.   *)
SetAddrPort(raw, a, p) ==
  IF a.is = "inet" THEN SetAddr4(raw, a, p)
  ELSE IF a.is = "inet6" THEN SetAddr6(raw, a, p)
  ELSE raw

SetAddr(raw, a) == SetAddrPort(raw, a, 0)

(* The methods Addr and Port.                                              *)
AddrOf(raw) ==
  IF raw.family = "inet" THEN [is |-> "inet", word |-> raw.word]
  ELSE IF raw.family = "inet6"
  THEN [is |-> "inet6", hi |-> raw.hi, lo |-> raw.lo,
        zone |-> IF raw.scope = 0 THEN NoZone ELSE FormatUint[raw.scope]]
  ELSE Invalid

PortOf(raw) == IF raw.family \in Families THEN ntohs(raw.port) ELSE 0

-----------------------------------------------------------------------------
(* netip.Prefix: an address without a zone and a number of bits, -1 if     *)
(* PrefixFrom was given more than the address has.                         *)
BitLen(a) == CASE a.is = "inet" -> 32 [] a.is = "inet6" -> 128 [] OTHER -> 0
WithoutZone(a) == IF a.is = "inet6" THEN [a EXCEPT !.zone = NoZone] ELSE a
PrefixFrom(a, bits) ==
  [addr |-> WithoutZone(a), bits |-> IF bits <= BitLen(a) THEN bits ELSE -1]

(* IPAddressPrefix, with SetPrefix and the method Prefix.                  *)
SetPrefix(prefix, p) ==
  IF IsValid(p.addr)
  THEN [raw |-> SetAddr(prefix.raw, p.addr), len |-> p.bits % 256]
  ELSE prefix

PrefixOf(prefix) ==
  IF prefix.raw.family \in Families
  THEN PrefixFrom(WithoutZone(AddrOf(prefix.raw)), prefix.len)
  ELSE [addr |-> Invalid, bits |-> -1]

-----------------------------------------------------------------------------
(* What a socket address can keep of an address: a zone that is no number  *)
(* is lost, and one that is comes back in its shortest form.               *)
Kept(a) ==
  IF a.is = "inet6" /\ a.zone # NoZone
  THEN [a EXCEPT !.zone = IF ParseUint[a.zone] = 0 THEN NoZone
                          ELSE FormatUint[ParseUint[a.zone]]]
  ELSE a
=============================================================================
