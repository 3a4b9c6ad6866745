------------------------ MODULE InterfaceTableProofs ------------------------
(***************************************************************************)
(* What the conversions of SockAddr keep, for every content the memory had *)
(* before, and what the calls of InterfaceTable may change and leave, for  *)
(* any rows, any length of their arguments and any meddling by others.     *)
(***************************************************************************)
EXTENDS InterfaceTable, TLAPS

-----------------------------------------------------------------------------
(* Socket addresses.                                                       *)

(* A number is the quotient and the rest of its division by 256.           *)
LEMMA TwoBytes ==
  ASSUME NEW n \in Nat
  PROVE  256 * (n \div 256) + (n % 256) = n
OBVIOUS

(* htons and ntohs are inverses on ports of 16 bits.                       *)
LEMMA PortBytes ==
  ASSUME NEW p \in Ports
  PROVE  ntohs(htons(p)) = p
<1>1. p \in Nat
  BY SMTT(60) DEF Ports
<1>2. 256 * (p \div 256) + (p % 256) = p
  BY <1>1, TwoBytes
<1> QED
  BY <1>2 DEF htons, ntohs

(* Whatever the memory held, an IPv6 address with a port before an IPv4    *)
(* one for instance, SetAddrPort makes Addr and Port return what was set,  *)
(* but for the zone that no scope id can stand for.                        *)
THEOREM ReadBack ==
  ASSUME NEW raw \in RawSockaddrInet, NEW a \in Addr, IsValid(a),
         NEW p \in Ports
  PROVE  /\ AddrOf(SetAddrPort(raw, a, p)) = Kept(a)
         /\ PortOf(SetAddrPort(raw, a, p)) = p
<1>. DEFINE raw1 == SetAddrPort(raw, a, p)
<1>0. ntohs(htons(p)) = p
  BY PortBytes
<1>1. CASE a \in Addr4
  <2>1. a.is = "inet" /\ a = [is |-> "inet", word |-> a.word]
    BY <1>1 DEF Addr4
  <2>2. raw1.family = "inet" /\ raw1.port = htons(p) /\ raw1.word = a.word
    BY <2>1 DEF SetAddrPort, SetAddr4, RawSockaddrInet
  <2>. HIDE DEF raw1
  <2>3. AddrOf(raw1) = a /\ Kept(a) = a
    BY <2>1, <2>2 DEF AddrOf, Kept
  <2>4. PortOf(raw1) = p
    BY <1>0, <2>2 DEF PortOf, Families
  <2>. QED  BY <2>3, <2>4 DEF raw1
<1>2. CASE a \in Addr6
  <2>1. a.is = "inet6" /\ DOMAIN a = {"is", "hi", "lo", "zone"}
    BY <1>2 DEF Addr6
  <2>2. /\ raw1.family = "inet6" /\ raw1.port = htons(p)
        /\ raw1.hi = a.hi /\ raw1.lo = a.lo /\ raw1.scope = ScopeId(a.zone)
    BY <2>1 DEF SetAddrPort, SetAddr6
  <2>. HIDE DEF raw1
  <2>. DEFINE z == IF ScopeId(a.zone) = 0 THEN NoZone
                   ELSE FormatUint[ScopeId(a.zone)]
  <2>3. AddrOf(raw1) = [is |-> "inet6", hi |-> a.hi, lo |-> a.lo, zone |-> z]
    BY <2>2 DEF AddrOf
  <2>4. Kept(a) = [is |-> "inet6", hi |-> a.hi, lo |-> a.lo, zone |-> z]
    <3>1. a = [is |-> a.is, hi |-> a.hi, lo |-> a.lo, zone |-> a.zone]
      BY <1>2 DEF Addr6
    <3>2. CASE a.zone = NoZone
      <4>1. Kept(a) = a /\ z = NoZone
        BY <3>2 DEF Kept, ScopeId
      <4>. HIDE DEF z
      <4>. QED  BY <2>1, <3>1, <3>2, <4>1
    <3>3. CASE a.zone # NoZone
      BY <2>1, <3>1, <3>3 DEF Kept, ScopeId
    <3>. QED  BY <3>2, <3>3
  <2>5. PortOf(raw1) = p
    BY <1>0, <2>2 DEF PortOf, Families
  <2>. QED  BY <2>3, <2>4, <2>5 DEF raw1
<1>. QED  BY <1>1, <1>2 DEF Addr, IsValid, Invalid, Families

(* A socket address copied through Addr and SetAddr, as the next hop of    *)
(* the physical default route is into the exception route, keeps its       *)
(* address and scope id: what was read from one row finds the other.       *)
THEOREM CopyKeepsAddr ==
  ASSUME NEW raw \in RawSockaddrInet, raw.family \in Families,
         NEW to \in RawSockaddrInet
  PROVE  AddrOf(SetAddr(to, AddrOf(raw))) = AddrOf(raw)
<1>1. CASE raw.family = "inet"
  BY <1>1 DEF SetAddr, SetAddrPort, SetAddr4, AddrOf, RawSockaddrInet
<1>2. CASE raw.family = "inet6"
  <2>1. raw.scope \in 0 .. MaxScope
    BY DEF RawSockaddrInet
  <2>2. ScopeId(AddrOf(raw).zone) = raw.scope
    BY <1>2, <2>1, ScopeAssumption DEF ScopeId, AddrOf
  <2>. QED  BY <1>2, <2>2 DEF SetAddr, SetAddrPort, SetAddr6, AddrOf
<1>. QED  BY <1>1, <1>2 DEF Families

(* SetAddr of a valid address makes a socket address of its family.        *)
LEMMA SetAddrTyped ==
  ASSUME NEW raw \in RawSockaddrInet, NEW a \in Addr, IsValid(a)
  PROVE  /\ SetAddr(raw, a) \in RawSockaddrInet
         /\ SetAddr(raw, a).family = a.is
<1>0. htons(0) \in Byte \X Byte
  BY DEF htons, Byte
<1>1. CASE a \in Addr4
  BY <1>0, <1>1, ScopeAssumption
  DEF Addr4, SetAddr, SetAddrPort, SetAddr4, RawSockaddrInet, Families
<1>2. CASE a \in Addr6
  <2>1. ScopeId(a.zone) \in 0 .. MaxScope
    BY <1>2, ScopeAssumption DEF Addr6, ScopeId
  <2>. QED
    BY <1>0, <1>2, <2>1, ScopeAssumption
    DEF Addr6, SetAddr, SetAddrPort, SetAddr6, RawSockaddrInet, Families
<1>. QED  BY <1>1, <1>2 DEF Addr, IsValid, Invalid, Families

(* Two addresses that a socket address cannot tell apart are written       *)
(* alike.                                                                  *)
LEMMA KeptWritten ==
  ASSUME NEW raw, NEW a \in Addr, NEW b \in Addr, IsValid(a), IsValid(b),
         Kept(a) = Kept(b)
  PROVE  SetAddr(raw, a) = SetAddr(raw, b)
<1>1. a.is = b.is
  BY DEF Kept, Addr, Addr4, Addr6, Invalid
<1>2. CASE a.is = "inet"
  BY <1>1, <1>2 DEF Kept, SetAddr, SetAddrPort
<1>3. CASE a.is = "inet6"
  <2>1. a \in Addr6 /\ b \in Addr6
    <3>1. \A c \in Addr4 : c.is = "inet"
      BY DEF Addr4
    <3>2. Invalid.is = "neither"
      BY DEF Invalid
    <3>. QED  BY <1>1, <1>3, <3>1, <3>2 DEF Addr
  <2>2. \A c \in Addr6 : /\ Kept(c).hi = c.hi /\ Kept(c).lo = c.lo
                         /\ ScopeId(Kept(c).zone) = ScopeId(c.zone)
    <3> SUFFICES ASSUME NEW c \in Addr6
                 PROVE  /\ Kept(c).hi = c.hi /\ Kept(c).lo = c.lo
                        /\ ScopeId(Kept(c).zone) = ScopeId(c.zone)
      OBVIOUS
    <3>1. CASE c.zone = NoZone
      BY <3>1 DEF Kept
    <3>2. CASE c.zone # NoZone
      <4>1. c.is = "inet6" /\ c.zone \in Zones
        BY <3>2 DEF Addr6
      <4>2. Kept(c) = [is |-> "inet6", hi |-> c.hi, lo |-> c.lo,
                       zone |-> IF ParseUint[c.zone] = 0 THEN NoZone
                                ELSE FormatUint[ParseUint[c.zone]]]
        BY <3>2, <4>1 DEF Kept, Addr6
      <4>3. ParseUint[c.zone] \in 0 .. MaxScope
        BY <4>1, ScopeAssumption
      <4>. QED  BY <3>2, <4>2, <4>3, ScopeAssumption DEF ScopeId
    <3>. QED  BY <3>1, <3>2
  <2>3. a.hi = b.hi /\ a.lo = b.lo /\ ScopeId(a.zone) = ScopeId(b.zone)
    BY <2>1, <2>2
  <2>. QED  BY <1>1, <1>3, <2>3 DEF SetAddr, SetAddrPort, SetAddr6
<1>. QED  BY <1>2, <1>3 DEF IsValid, Families

(* A prefix written into zeroed memory is read back as it was, also one    *)
(* whose length was not valid and wrapped around to 255.                   *)
LEMMA PrefixBack ==
  ASSUME NEW p, p = PrefixFrom(p.addr, p.bits), p.addr \in Addr,
         IsValid(p.addr), p.bits \in -1 .. 128
  PROVE  LET q == SetPrefix([raw |-> Zeroed, len |-> 0], p)
         IN  /\ PrefixOf(q) = p
             /\ AddrOf(q.raw) = p.addr
             /\ q.raw = SetAddr(Zeroed, p.addr) /\ q.raw \in RawSockaddrInet
             /\ q.len \in Byte
             /\ q.raw.family = p.addr.is
<1>. DEFINE q == SetPrefix([raw |-> Zeroed, len |-> 0], p)
<1>1. Zeroed \in RawSockaddrInet /\ 0 \in Ports
  BY ScopeAssumption DEF Zeroed, RawSockaddrInet, Byte, Ports
<1>2. q = [raw |-> SetAddr(Zeroed, p.addr), len |-> p.bits % 256]
  BY DEF SetPrefix
<1>3. p.addr = WithoutZone(p.addr) /\ p.bits <= BitLen(p.addr)
      /\ p = [addr |-> p.addr, bits |-> p.bits]
  <2>1. /\ p.addr = WithoutZone(p.addr)
        /\ p.bits = IF p.bits <= BitLen(p.addr) THEN p.bits ELSE -1
    BY DEF PrefixFrom
  <2>2. BitLen(p.addr) \in {32, 128}
    BY DEF BitLen, IsValid, Families
  <2>3. p = [addr |-> p.addr, bits |-> p.bits]
    BY <2>1 DEF PrefixFrom
  <2>. QED  BY <2>1, <2>2, <2>3
<1>4. Kept(p.addr) = p.addr
  BY <1>3 DEF Kept, WithoutZone, Addr, Addr4, Addr6, Invalid
<1>5. AddrOf(q.raw) = p.addr
  BY <1>1, <1>2, <1>4, ReadBack DEF SetAddr
<1>6. q.raw.family = p.addr.is /\ q.raw \in RawSockaddrInet
  BY <1>1, <1>2, SetAddrTyped
<1>7. q.len \in Byte
  BY <1>2 DEF Byte
<1>8. PrefixOf(q) = p
  <2>1. PrefixOf(q) = PrefixFrom(p.addr, q.len)
    BY <1>3, <1>5, <1>6 DEF PrefixOf, IsValid
  <2>2. q.len = IF p.bits = -1 THEN 255 ELSE p.bits
    BY <1>2
  <2>3. BitLen(p.addr) \in {32, 128}
    BY DEF BitLen, IsValid, Families
  <2>4. PrefixFrom(p.addr, q.len).bits = p.bits
    BY <1>3, <2>2, <2>3 DEF PrefixFrom
  <2>. QED  BY <1>3, <2>1, <2>4 DEF PrefixFrom
<1>. QED  BY <1>2, <1>5, <1>6, <1>7, <1>8

-----------------------------------------------------------------------------
(* Build, Valid, Read and so on depend on the state by kind alone: here    *)
(* with kind as a parameter.                                               *)
BuildOf(k, luid, i) ==
  [luid |-> luid,
   dst  |-> SetPrefix([raw |-> Zeroed, len |-> 0], i.dst),
   hop  |-> IF k = "route" THEN SetAddr(Zeroed, i.hop) ELSE Zeroed]
ValidOf(k, i) == IsValid(i.dst.addr) /\ (k = "route" => IsValid(i.hop))
ReadOf(k, r)  == [dst |-> PrefixOf(r.dst),
                  hop |-> IF k = "route" THEN AddrOf(r.hop) ELSE Invalid]
AskedOf(k, i) == [dst |-> i.dst,
                  hop |-> IF k = "route" THEN Kept(i.hop) ELSE Invalid]
Same(k, q, r) ==
  /\ q.luid = r.luid /\ q.dst.raw = r.dst.raw
  /\ k = "route" => q.dst.len = r.dst.len /\ q.hop = r.hop
NamesOf(k, w, r) ==
  ReadOf(k, r).dst.addr = w.dst.addr /\ (k = "route" => ReadOf(k, r) = w)

InScope(f, r) == r.luid = Self /\ InFamily(f, r.dst.raw.family)
Built(k, r) ==
  \E i \in Items, l \in {Self, Other} : ValidOf(k, i) /\ r = BuildOf(k, l, i)

(* The call o of family f, asked for W, may change row r.                  *)
MayTouch(k, o, f, W, r) ==
  IF o \in Sets THEN InScope(f, r)
  ELSE r.luid = Self /\ IF o = "delete" THEN \E w \in W : NamesOf(k, w, r)
                        ELSE ReadOf(k, r) \in W

(* Every row was built by some caller, and no two are one to Windows.      *)
BuiltInv ==
  \A r \in table \cup before \cup added \cup removed : Built(kind, r)
KeyInv == \A q, r \in table : Same(kind, q, r) => q = r

(* Which calls get where, and with what.                                   *)
CallInv ==
  /\ pc = "idle" => added = {} /\ removed = {}
  /\ pc \in {"idle", "snapshot", "add"} => ~err
  /\ pc # "delete" => snap = {}
  /\ pc # "returned" <=> result = "none"
  /\ pc \in {"snapshot", "delete"} => op \in Sets
  /\ pc = "add" => op \in {"set", "setForFamily", "add"}
  /\ pc \in {"get", "remove"} =>
       /\ op = "delete" /\ family = "unspec"
       /\ data # <<>> /\ wanted = {AskedOf(kind, Head(data))}
  /\ op = "flush" => data = <<>>
  /\ result = "ok" /\ op # "delete" => data = <<>>

(* OutOfScopeKept, row by row.                                             *)
KeptInv ==
  pc # "idle" =>
    \A r \in table \cup before \cup added \cup removed :
      MayTouch(kind, op, family, wanted, r)
        \/ (r \in table <=> r \in (before \cup added) \ removed)

(* What is left to add was asked for; what was asked for is left to add,   *)
(* or is a row of the interface, or was one until others removed it.       *)
DataInv ==
  \A i \in 1 .. Len(data) :
    pc \notin {"idle", "returned"} /\ InFamily(family, data[i].dst.addr.is)
      => AskedOf(kind, data[i]) \in wanted
WantedInv ==
  op # "delete" =>
    \A w \in wanted :
      \/ \E i \in 1 .. Len(data) :
           InFamily(family, data[i].dst.addr.is) /\ w = AskedOf(kind, data[i])
      \/ /\ pc \in {"add", "returned"}
         /\ \E r \in table \cup removed :
              InScope(family, r) /\ ReadOf(kind, r) = w

(* The routes of the interface: those of the copy, then those asked for,   *)
(* and what others added.  Until the flush has succeeded there is no new   *)
(* one, and afterwards no old one.                                         *)
RestInv ==
  kind = "route" /\ op \in Sets =>
    /\ \A r \in table \ added : InScope(family, r) =>
         /\ pc = "delete" /\ ~err => r \in snap
         /\ pc = "add" \/ result = "ok" => ReadOf(kind, r) \in wanted
    /\ pc \in {"snapshot", "delete"} => table \subseteq before \cup added
    /\ result = "err" =>
         \/ \A r \in table \ added :
              InScope(family, r) => ReadOf(kind, r) \in wanted
         \/ table \subseteq before \cup added

(* A Delete that succeeded has left no row with its key.                   *)
DeletedInv ==
  op = "delete" /\ result = "ok" =>
    \A r \in table \ added :
      r.luid = Self => \A w \in wanted : ~NamesOf(kind, w, r)

Inv ==
  /\ TypeOK /\ BuiltInv /\ KeyInv /\ CallInv /\ KeptInv
  /\ DataInv /\ WantedInv /\ RestInv /\ DeletedInv

-----------------------------------------------------------------------------
(* A row reads as what it was built for, and is of its family.             *)
LEMMA BuiltRow ==
  ASSUME NEW k \in {"address", "route"}, NEW i \in Items, ValidOf(k, i),
         NEW l \in {Self, Other}
  PROVE  LET r == BuildOf(k, l, i)
         IN  /\ r \in Row /\ r.luid = l /\ r.dst.raw.family = i.dst.addr.is
             /\ ReadOf(k, r) = AskedOf(k, i)
             /\ r.dst.raw = SetAddr(Zeroed, i.dst.addr)
<1>. DEFINE r == BuildOf(k, l, i)
<1>1. /\ i.dst = PrefixFrom(i.dst.addr, i.dst.bits)
      /\ i.dst.addr \in Addr /\ i.dst.bits \in -1 .. 128 /\ i.hop \in Addr
      /\ IsValid(i.dst.addr)
  BY TableAssumption DEF ValidOf
<1>2. Zeroed \in RawSockaddrInet /\ 0 \in Ports
  BY ScopeAssumption DEF Zeroed, RawSockaddrInet, Byte, Ports
<1>3. /\ PrefixOf(r.dst) = i.dst /\ r.dst.raw.family = i.dst.addr.is
      /\ r.dst.raw = SetAddr(Zeroed, i.dst.addr)
      /\ r.dst.raw \in RawSockaddrInet /\ r.dst.len \in Byte
  BY <1>1, PrefixBack DEF BuildOf
<1>4. /\ k = "route" => AddrOf(r.hop) = Kept(i.hop)
      /\ r.hop \in RawSockaddrInet
  BY <1>1, <1>2, ReadBack, SetAddrTyped DEF ValidOf, BuildOf, SetAddr
<1>5. r.dst = [raw |-> r.dst.raw, len |-> r.dst.len]
  BY <1>1 DEF BuildOf, SetPrefix
<1>6. r = [luid |-> l, dst |-> r.dst, hop |-> r.hop]
  BY DEF BuildOf
<1>. HIDE DEF r
<1>7. r \in Row
  BY <1>3, <1>4, <1>5, <1>6 DEF Row
<1>8. ReadOf(k, r) = AskedOf(k, i)
  BY <1>3, <1>4 DEF ReadOf, AskedOf
<1>. QED  BY <1>3, <1>6, <1>7, <1>8 DEF r

(* Windows takes a row for the one a Delete builds exactly if the Delete   *)
(* names it.                                                               *)
LEMMA KeyIsName ==
  ASSUME NEW k \in {"address", "route"}, NEW i \in Items, ValidOf(k, i),
         NEW j \in Items, ValidOf(k, j)
  PROVE  Same(k, BuildOf(k, Self, j), BuildOf(k, Self, i))
           <=> NamesOf(k, AskedOf(k, i), BuildOf(k, Self, j))
<1>. DEFINE q == BuildOf(k, Self, j)
            r == BuildOf(k, Self, i)
<1>1. /\ ReadOf(k, q) = AskedOf(k, j) /\ ReadOf(k, r) = AskedOf(k, i)
      /\ q.dst.raw = SetAddr(Zeroed, j.dst.addr)
      /\ r.dst.raw = SetAddr(Zeroed, i.dst.addr)
  BY BuiltRow
<1>2. ASSUME Same(k, q, r) PROVE NamesOf(k, AskedOf(k, i), q)
  <2>1. ReadOf(k, q).dst.addr = ReadOf(k, r).dst.addr
    <3>1. \A x : PrefixOf(x).addr = IF x.raw.family \in Families
                                    THEN WithoutZone(WithoutZone(AddrOf(x.raw)))
                                    ELSE Invalid
      BY DEF PrefixOf, PrefixFrom
    <3>2. q.dst.raw = r.dst.raw
      BY <1>2 DEF Same
    <3>. QED  BY <3>1, <3>2 DEF ReadOf
  <2>2. k = "route" => ReadOf(k, q) = ReadOf(k, r)
    <3>1. \A x, y : /\ x.raw = y.raw /\ x.len = y.len
                    => PrefixOf(x) = PrefixOf(y)
      BY DEF PrefixOf
    <3>. QED  BY <1>2, <3>1 DEF Same, ReadOf
  <2>. QED  BY <1>1, <2>1, <2>2 DEF NamesOf
<1>3. ASSUME NamesOf(k, AskedOf(k, i), q) PROVE Same(k, q, r)
  <2>1. /\ j.dst.addr = i.dst.addr
        /\ (k = "route" => AskedOf(k, j) = AskedOf(k, i))
    BY <1>1, <1>3 DEF NamesOf, AskedOf
  <2>2. q.luid = r.luid /\ q.dst.raw = r.dst.raw
    BY <1>1, <2>1 DEF BuildOf
  <2>3. k = "route" => i.dst = j.dst /\ Kept(i.hop) = Kept(j.hop)
    BY <2>1 DEF AskedOf
  <2>4. k = "route" => SetAddr(Zeroed, i.hop) = SetAddr(Zeroed, j.hop)
    BY <2>3, KeptWritten, TableAssumption DEF ValidOf
  <2>5. k = "route" => q.dst = r.dst /\ q.hop = r.hop
    BY <2>3, <2>4 DEF BuildOf
  <2>. QED  BY <2>2, <2>5 DEF Same
<1>. QED  BY <1>2, <1>3

-----------------------------------------------------------------------------
(* The calls.                                                              *)

(* The operators of InterfaceTable are the ones above, at kind.            *)
LEMMA KindOnly ==
  /\ \A l, i : Build(l, i) = BuildOf(kind, l, i)
  /\ \A i : Valid(i) <=> ValidOf(kind, i)
  /\ \A i : Asked(i) = AskedOf(kind, i)
  /\ \A r : Read(r) = ReadOf(kind, r)
  /\ \A T, r : Matching(T, r) = {q \in T : Same(kind, q, r)}
BY DEF Build, BuildOf, Valid, ValidOf, Asked, AskedOf, Read, ReadOf, Matching,
       Same

(* The rows a caller gives are looked at from the first on.                *)
LEMMA FirstAndRest ==
  ASSUME NEW s \in Seq(Items), s # <<>>
  PROVE  /\ Head(s) \in Items /\ Head(s) = s[1] /\ 1 \in 1 .. Len(s)
         /\ Tail(s) \in Seq(Items) /\ Len(Tail(s)) = Len(s) - 1
         /\ \A i \in 1 .. Len(Tail(s)) :
              Tail(s)[i] = s[i + 1] /\ i + 1 \in 1 .. Len(s)
         /\ \A i \in 1 .. Len(s) :
              i = 1 \/ (i - 1 \in 1 .. Len(Tail(s)) /\ Tail(s)[i - 1] = s[i])
OBVIOUS

(* An interface whose rows callers have set satisfies Inv.                 *)
LEMMA InitInv == Init => Inv
<1> SUFFICES ASSUME Init PROVE Inv
  OBVIOUS
<1> USE DEF Init
<1>1. BuiltInv
  <2>1. \A r \in table : Built(kind, r)
    BY KindOnly, TableAssumption DEF Rows, Built
  <2> QED
    BY <2>1 DEF BuiltInv
<1>2. TypeOK
  <2>1. \A r \in table \cup before \cup added \cup removed : r \in Row
    BY <1>1, BuiltRow DEF BuiltInv, Built
  <2>2. data \in Seq(Items) /\ Len(data) <= MaxLen
    BY TableAssumption
  <2> QED
    BY <2>1, <2>2 DEF TypeOK, Scope
<1>3. KeyInv
  BY KindOnly DEF KeyInv, Keyed
<1>4. CallInv /\ KeptInv /\ DataInv /\ WantedInv
  BY DEF CallInv, KeptInv, DataInv, WantedInv, Sets
<1>5. RestInv /\ DeletedInv
  BY DEF RestInv, DeletedInv, Sets
<1> QED
  BY <1>1, <1>2, <1>3, <1>4, <1>5 DEF Inv

(* Every step of a call and of the others that change the table preserves  *)
(* Inv.                                                                    *)
LEMMA StepInv == Inv /\ [Next]_vars => Inv'
<1> SUFFICES ASSUME Inv, [Next]_vars PROVE Inv'
  OBVIOUS
<1> USE DEF Inv, call, others
<1>a. kind \in {"address", "route"} /\ data \in Seq(Items)
  BY DEF TypeOK
<1>b. \A r : Built(kind, r) => r \in Row
  BY <1>a, BuiltRow DEF Built
<1>c. data # <<>> => /\ Head(data) \in Items /\ Head(data) = data[1]
                     /\ 1 \in 1 .. Len(data)
  BY <1>a, FirstAndRest
<1>1. ASSUME NEW o \in Sets \cup {"add", "delete"},
             NEW f \in Families \cup {"unspec"}, NEW d \in Lists, Call(o, f, d)
      PROVE  Inv'
  <2>0. /\ d \in Seq(Items) /\ Len(d) <= MaxLen /\ DOMAIN d = 1 .. Len(d)
        /\ Len(d) \in Nat
    BY TableAssumption DEF Lists
  <2>q. wanted' = {AskedOf(kind, d[i]) :
                     i \in {j \in 1 .. Len(d) : InFamily(f, d[j].dst.addr.is)}}
    BY <1>1, <2>0, KindOnly DEF Call
  <2>r. o \notin Sets => f = "unspec"
    BY <1>1 DEF Call, Sets
  <2>1. BuiltInv'
    BY <1>1, <2>0, <2>q, <2>r DEF Call, BuiltInv
  <2>2. TypeOK'
    <3>1. err' \in BOOLEAN
      BY <1>1, Zenon DEF Call, TypeOK
    <3>2. \A x \in table' \cup before' \cup added' \cup removed' : x \in Row
      BY <1>1, <2>1, <1>b DEF Call, BuiltInv
    <3> QED
      BY <1>1, <2>0, <2>q, <2>r, <1>a, <3>1, <3>2
      DEF Call, TypeOK, Scope, CallInv, Sets
  <2>3. KeyInv'
    BY <1>1, <2>0, <2>q, <2>r DEF Call, KeyInv
  <2>4. CallInv'
    BY <1>1, <2>0, <2>q, <2>r DEF Call, CallInv, Sets, InFamily
  <2>5. KeptInv'
    BY <1>1, <2>0, <2>q, <2>r DEF Call, KeptInv, CallInv
  <2>6. DataInv'
    BY <1>1, <2>0, <2>q, <2>r DEF Call, DataInv, CallInv
  <2>7. WantedInv'
    BY <1>1, <2>0, <2>q, <2>r, ZenonT(30) DEF Call, WantedInv, CallInv, Sets
  <2>8. RestInv'
    BY <1>1, <2>0, <2>q, <2>r DEF Call, RestInv, CallInv, Sets
  <2>9. DeletedInv'
    BY <1>1, <2>0, <2>q, <2>r DEF Call, DeletedInv, CallInv
  <2> QED
    BY <2>1, <2>2, <2>3, <2>4, <2>5, <2>6, <2>7, <2>8, <2>9
<1>2. ASSUME Snapshot
      PROVE  Inv'
  <2>0. snap' = {r \in table : InScope(family, r)}
    BY <1>2 DEF Snapshot, Scope, InScope
  <2>1. BuiltInv'
    BY <1>2, <2>0 DEF Snapshot, Goes, BuiltInv
  <2>2. TypeOK'
    <3>1. err' \in BOOLEAN
      BY <1>2, Zenon DEF Snapshot, Goes, TypeOK
    <3>2. \A x \in table' \cup before' \cup added' \cup removed' : x \in Row
      BY <1>2, <2>1, <1>b DEF Snapshot, Goes, BuiltInv
    <3> QED
      BY <1>2, <2>0, <1>a, <3>1, <3>2
      DEF Snapshot, Goes, TypeOK, Scope, InFamily, InScope
  <2>3. KeyInv'
    BY <1>2, <2>0 DEF Snapshot, Goes, KeyInv
  <2>4. CallInv'
    BY <1>2, <2>0 DEF Snapshot, Goes, CallInv, Sets
  <2>5. KeptInv'
    BY <1>2, <2>0 DEF Snapshot, Goes, KeptInv, CallInv
  <2>6. DataInv'
    BY <1>2, <2>0 DEF Snapshot, Goes, DataInv, CallInv
  <2>7. WantedInv'
    BY <1>2, <2>0 DEF Snapshot, Goes, WantedInv, CallInv, Sets
  <2>8. RestInv'
    BY <1>2, <2>0 DEF Snapshot, Goes, RestInv, CallInv
  <2>9. DeletedInv'
    BY <1>2, <2>0 DEF Snapshot, Goes, DeletedInv, CallInv
  <2> QED
    BY <2>1, <2>2, <2>3, <2>4, <2>5, <2>6, <2>7, <2>8, <2>9
<1>3. ASSUME SnapshotFails
      PROVE  Inv'
  <2>1. BuiltInv'
    BY <1>3 DEF SnapshotFails, Returns, BuiltInv
  <2>2. TypeOK'
    <3>1. err' \in BOOLEAN
      BY <1>3, Zenon DEF SnapshotFails, Returns, TypeOK
    <3>2. \A x \in table' \cup before' \cup added' \cup removed' : x \in Row
      BY <1>3, <2>1, <1>b DEF SnapshotFails, Returns, BuiltInv
    <3> QED
      BY <1>3, <1>a, <3>1, <3>2 DEF SnapshotFails, Returns, TypeOK, Scope
  <2>3. KeyInv'
    BY <1>3 DEF SnapshotFails, Returns, KeyInv
  <2>4. CallInv'
    BY <1>3 DEF SnapshotFails, Returns, CallInv, Sets
  <2>5. KeptInv'
    BY <1>3 DEF SnapshotFails, Returns, KeptInv, CallInv
  <2>6. DataInv'
    BY <1>3 DEF SnapshotFails, Returns, DataInv, CallInv
  <2>7. WantedInv'
    BY <1>3 DEF SnapshotFails, Returns, WantedInv, CallInv, Sets
  <2>8. RestInv'
    BY <1>3 DEF SnapshotFails, Returns, RestInv, CallInv
  <2>9. DeletedInv'
    BY <1>3 DEF SnapshotFails, Returns, DeletedInv, CallInv
  <2> QED
    BY <2>1, <2>2, <2>3, <2>4, <2>5, <2>6, <2>7, <2>8, <2>9
<1>4. ASSUME NEW r \in snap, Delete(r)
      PROVE  Inv'
  <2>0. r \in snap /\ InScope(family, r) /\ op \in Sets
    BY <1>4 DEF Delete, DeleteFails, CallInv, TypeOK, Scope, InScope
  <2>1. BuiltInv'
    BY <1>4, <2>0 DEF Delete, Goes, BuiltInv
  <2>2. TypeOK'
    <3>1. err' \in BOOLEAN
      BY <1>4, Zenon DEF Delete, Goes, TypeOK
    <3>2. \A x \in table' \cup before' \cup added' \cup removed' : x \in Row
      BY <1>4, <2>1, <1>b DEF Delete, Goes, BuiltInv
    <3> QED
      BY <1>4, <2>0, <1>a, <3>1, <3>2 DEF Delete, Goes, TypeOK, Scope
  <2>3. KeyInv'
    BY <1>4, <2>0 DEF Delete, Goes, KeyInv
  <2>4. CallInv'
    BY <1>4, <2>0 DEF Delete, Goes, CallInv, Sets
  <2>5. KeptInv'
    BY <1>4, <2>0 DEF Delete, Goes, KeptInv, CallInv, MayTouch
  <2>6. DataInv'
    BY <1>4, <2>0 DEF Delete, Goes, DataInv, CallInv
  <2>7. WantedInv'
    BY <1>4, <2>0 DEF Delete, Goes, WantedInv, CallInv, Sets
  <2>8. RestInv'
    BY <1>4, <2>0 DEF Delete, Goes, RestInv, CallInv
  <2>9. DeletedInv'
    BY <1>4, <2>0 DEF Delete, Goes, DeletedInv, CallInv
  <2> QED
    BY <2>1, <2>2, <2>3, <2>4, <2>5, <2>6, <2>7, <2>8, <2>9
<1>5. ASSUME NEW r \in snap, DeleteFails(r)
      PROVE  Inv'
  <2>0. r \in snap /\ InScope(family, r) /\ op \in Sets
    BY <1>5 DEF Delete, DeleteFails, CallInv, TypeOK, Scope, InScope
  <2>1. BuiltInv'
    BY <1>5, <2>0 DEF DeleteFails, Goes, BuiltInv
  <2>2. TypeOK'
    <3>1. err' \in BOOLEAN
      BY <1>5, Zenon DEF DeleteFails, Goes, TypeOK
    <3>2. \A x \in table' \cup before' \cup added' \cup removed' : x \in Row
      BY <1>5, <2>1, <1>b DEF DeleteFails, Goes, BuiltInv
    <3> QED
      BY <1>5, <2>0, <1>a, <3>1, <3>2 DEF DeleteFails, Goes, TypeOK, Scope
  <2>3. KeyInv'
    BY <1>5, <2>0 DEF DeleteFails, Goes, KeyInv
  <2>4. CallInv'
    BY <1>5, <2>0 DEF DeleteFails, Goes, CallInv, Sets
  <2>5. KeptInv'
    BY <1>5, <2>0 DEF DeleteFails, Goes, KeptInv, CallInv
  <2>6. DataInv'
    BY <1>5, <2>0 DEF DeleteFails, Goes, DataInv, CallInv
  <2>7. WantedInv'
    BY <1>5, <2>0 DEF DeleteFails, Goes, WantedInv, CallInv, Sets
  <2>8. RestInv'
    BY <1>5, <2>0 DEF DeleteFails, Goes, RestInv, CallInv, TypeOK
  <2>9. DeletedInv'
    BY <1>5, <2>0 DEF DeleteFails, Goes, DeletedInv, CallInv
  <2> QED
    BY <2>1, <2>2, <2>3, <2>4, <2>5, <2>6, <2>7, <2>8, <2>9
<1>6. ASSUME FlushDone
      PROVE  Inv'
  <2>1. BuiltInv'
    BY <1>6 DEF FlushDone, Goes, Returns, BuiltInv
  <2>2. TypeOK'
    <3>1. err' \in BOOLEAN
      BY <1>6, Zenon DEF FlushDone, Goes, Returns, TypeOK
    <3>2. \A x \in table' \cup before' \cup added' \cup removed' : x \in Row
      BY <1>6, <2>1, <1>b DEF FlushDone, Goes, Returns, BuiltInv
    <3> QED
      BY <1>6, <1>a, <3>1, <3>2 DEF FlushDone, Goes, Returns, TypeOK, Scope
  <2>3. KeyInv'
    BY <1>6 DEF FlushDone, Goes, Returns, KeyInv
  <2>4. CallInv'
    BY <1>6 DEF FlushDone, Goes, Returns, CallInv, Sets
  <2>5. KeptInv'
    BY <1>6 DEF FlushDone, Goes, Returns, KeptInv, CallInv
  <2>6. DataInv'
    BY <1>6 DEF FlushDone, Goes, Returns, DataInv, CallInv
  <2>7. WantedInv'
    BY <1>6 DEF FlushDone, Goes, Returns, WantedInv, CallInv, Sets, TypeOK
  <2>8. RestInv'
    BY <1>6 DEF FlushDone, Goes, Returns, RestInv, CallInv, TypeOK
  <2>9. DeletedInv'
    BY <1>6 DEF FlushDone, Goes, Returns, DeletedInv, CallInv
  <2> QED
    BY <2>1, <2>2, <2>3, <2>4, <2>5, <2>6, <2>7, <2>8, <2>9
<1>7. ASSUME AddSkip
      PROVE  Inv'
  <2>0. data # <<>> /\ ~InFamily(family, Head(data).dst.addr.is)
    BY <1>7 DEF AddSkip, Skips
  <2>s. /\ Tail(data) \in Seq(Items) /\ Len(Tail(data)) = Len(data) - 1
        /\ \A i \in 1 .. Len(Tail(data)) :
             Tail(data)[i] = data[i + 1] /\ i + 1 \in 1 .. Len(data)
        /\ \A i \in 1 .. Len(data) :
             \/ i = 1 /\ data[i] = Head(data)
             \/ i - 1 \in 1 .. Len(Tail(data)) /\ Tail(data)[i - 1] = data[i]
    BY <1>a, <2>0, FirstAndRest
  <2>1. BuiltInv'
    BY <1>7, <2>0, <2>s DEF AddSkip, Goes, BuiltInv
  <2>2. TypeOK'
    <3>1. err' \in BOOLEAN
      BY <1>7, Zenon DEF AddSkip, Goes, TypeOK
    <3>2. \A x \in table' \cup before' \cup added' \cup removed' : x \in Row
      BY <1>7, <2>1, <1>b DEF AddSkip, Goes, BuiltInv
    <3> QED
      BY <1>7, <2>0, <2>s, <1>a, <3>1, <3>2, TableAssumption
      DEF AddSkip, Goes, TypeOK, Scope
  <2>3. KeyInv'
    BY <1>7, <2>0, <2>s DEF AddSkip, Goes, KeyInv
  <2>4. CallInv'
    BY <1>7, <2>0, <2>s DEF AddSkip, Goes, CallInv, Sets
  <2>5. KeptInv'
    BY <1>7, <2>0, <2>s DEF AddSkip, Goes, KeptInv, CallInv
  <2>6. DataInv'
    BY <1>7, <2>0, <2>s DEF AddSkip, Goes, DataInv, CallInv
  <2>7. WantedInv'
    BY <1>7, <2>0, <2>s DEF AddSkip, Goes, WantedInv, CallInv, Sets
  <2>8. RestInv'
    BY <1>7, <2>0, <2>s DEF AddSkip, Goes, RestInv, CallInv
  <2>9. DeletedInv'
    BY <1>7, <2>0, <2>s DEF AddSkip, Goes, DeletedInv, CallInv
  <2> QED
    BY <2>1, <2>2, <2>3, <2>4, <2>5, <2>6, <2>7, <2>8, <2>9
<1>8. ASSUME Add
      PROVE  Inv'
  <2>0. PICK item \in Items : item = Head(data) /\ ValidOf(kind, item)
    BY <1>8, <1>c, KindOnly DEF Add
  <2>p. PICK new : new = BuildOf(kind, Self, item)
    OBVIOUS
  <2>q. /\ new \in Row /\ new.luid = Self
        /\ new.dst.raw.family = item.dst.addr.is
        /\ ReadOf(kind, new) = AskedOf(kind, item)
        /\ Built(kind, new)
    BY <2>0, <2>p, <1>a, BuiltRow DEF Built
  <2>r. /\ table' = table \cup {new}
        /\ \A r \in table : ~Same(kind, r, new) /\ ~Same(kind, new, r)
        /\ InFamily(family, item.dst.addr.is) /\ data # <<>>
    BY <1>8, <2>0, <2>p, KindOnly DEF Add, Skips, Same
  <2>s. /\ Tail(data) \in Seq(Items) /\ Len(Tail(data)) = Len(data) - 1
        /\ \A i \in 1 .. Len(Tail(data)) :
             Tail(data)[i] = data[i + 1] /\ i + 1 \in 1 .. Len(data)
        /\ \A i \in 1 .. Len(data) :
             \/ i = 1 /\ data[i] = item
             \/ i - 1 \in 1 .. Len(Tail(data)) /\ Tail(data)[i - 1] = data[i]
    BY <1>a, <2>0, <2>r, FirstAndRest
  <2>t. AskedOf(kind, item) \in wanted
    BY <1>8, <2>0, <2>r, <1>c DEF Add, DataInv
  <2>1. BuiltInv'
    BY <1>8, <2>0, <2>q, <2>r, <2>s, <2>t DEF Add, Goes, BuiltInv
  <2>2. TypeOK'
    <3>1. err' \in BOOLEAN
      BY <1>8, Zenon DEF Add, Goes, TypeOK
    <3>2. \A x \in table' \cup before' \cup added' \cup removed' : x \in Row
      BY <1>8, <2>1, <1>b DEF Add, Goes, BuiltInv
    <3> QED
      BY <1>8, <2>0, <2>q, <2>r, <2>s, <2>t, <1>a, <3>1, <3>2, TableAssumption
      DEF Add, Goes, TypeOK, Scope
  <2>3. KeyInv'
    BY <1>8, <2>0, <2>q, <2>r, <2>s, <2>t DEF Add, Goes, KeyInv
  <2>4. CallInv'
    BY <1>8, <2>0, <2>q, <2>r, <2>s, <2>t DEF Add, Goes, CallInv, Sets
  <2>5. KeptInv'
    BY <1>8, <2>0, <2>q, <2>r, <2>s, <2>t
    DEF Add, Goes, KeptInv, CallInv, MayTouch, Sets, InScope
  <2>6. DataInv'
    BY <1>8, <2>0, <2>q, <2>r, <2>s, <2>t DEF Add, Goes, DataInv, CallInv
  <2>7. WantedInv'
    <3> SUFFICES ASSUME NEW w \in wanted
                 PROVE  \/ \E i \in 1 .. Len(Tail(data)) :
                             /\ InFamily(family, Tail(data)[i].dst.addr.is)
                             /\ w = AskedOf(kind, Tail(data)[i])
                        \/ \E r \in table' \cup removed :
                             InScope(family, r) /\ ReadOf(kind, r) = w
      BY <1>8 DEF Add, Goes, WantedInv
    <3>1. op # "delete"
      BY <1>8 DEF Add, CallInv
    <3>2. CASE \E i \in 1 .. Len(data) :
                 /\ InFamily(family, data[i].dst.addr.is)
                 /\ w = AskedOf(kind, data[i])
      <4>1. PICK i \in 1 .. Len(data) :
              /\ InFamily(family, data[i].dst.addr.is)
              /\ w = AskedOf(kind, data[i])
        BY <3>2
      <4>2. CASE data[i] = item
        BY <4>1, <4>2, <2>q, <2>r DEF InScope
      <4> QED
        BY <4>1, <4>2, <2>s
    <3>3. CASE \E r \in table \cup removed :
                 InScope(family, r) /\ ReadOf(kind, r) = w
      BY <3>3, <2>r
    <3> QED
      BY <3>1, <3>2, <3>3 DEF WantedInv
  <2>8. RestInv'
    BY <1>8, <2>0, <2>q, <2>r, <2>s, <2>t
    DEF Add, Goes, RestInv, CallInv, InScope
  <2>9. DeletedInv'
    BY <1>8, <2>0, <2>q, <2>r, <2>s, <2>t DEF Add, Goes, DeletedInv, CallInv
  <2> QED
    BY <2>1, <2>2, <2>3, <2>4, <2>5, <2>6, <2>7, <2>8, <2>9
<1>9. ASSUME AddFails
      PROVE  Inv'
  <2>1. BuiltInv'
    BY <1>9 DEF AddFails, Returns, BuiltInv
  <2>2. TypeOK'
    <3>1. err' \in BOOLEAN
      BY <1>9, Zenon DEF AddFails, Returns, TypeOK
    <3>2. \A x \in table' \cup before' \cup added' \cup removed' : x \in Row
      BY <1>9, <2>1, <1>b DEF AddFails, Returns, BuiltInv
    <3> QED
      BY <1>9, <1>a, <3>1, <3>2 DEF AddFails, Returns, TypeOK, Scope
  <2>3. KeyInv'
    BY <1>9 DEF AddFails, Returns, KeyInv
  <2>4. CallInv'
    BY <1>9 DEF AddFails, Returns, CallInv, Sets
  <2>5. KeptInv'
    BY <1>9 DEF AddFails, Returns, KeptInv, CallInv
  <2>6. DataInv'
    BY <1>9 DEF AddFails, Returns, DataInv, CallInv
  <2>7. WantedInv'
    BY <1>9 DEF AddFails, Returns, WantedInv, CallInv, Sets
  <2>8. RestInv'
    BY <1>9 DEF AddFails, Returns, RestInv, CallInv
  <2>9. DeletedInv'
    BY <1>9 DEF AddFails, Returns, DeletedInv, CallInv
  <2> QED
    BY <2>1, <2>2, <2>3, <2>4, <2>5, <2>6, <2>7, <2>8, <2>9
<1>10. ASSUME AddDone
      PROVE  Inv'
  <2>1. BuiltInv'
    BY <1>10 DEF AddDone, Returns, BuiltInv
  <2>2. TypeOK'
    <3>1. err' \in BOOLEAN
      BY <1>10, Zenon DEF AddDone, Returns, TypeOK
    <3>2. \A x \in table' \cup before' \cup added' \cup removed' : x \in Row
      BY <1>10, <2>1, <1>b DEF AddDone, Returns, BuiltInv
    <3> QED
      BY <1>10, <1>a, <3>1, <3>2 DEF AddDone, Returns, TypeOK, Scope
  <2>3. KeyInv'
    BY <1>10 DEF AddDone, Returns, KeyInv
  <2>4. CallInv'
    BY <1>10 DEF AddDone, Returns, CallInv, Sets
  <2>5. KeptInv'
    BY <1>10 DEF AddDone, Returns, KeptInv, CallInv
  <2>6. DataInv'
    BY <1>10 DEF AddDone, Returns, DataInv, CallInv
  <2>7. WantedInv'
    BY <1>10 DEF AddDone, Returns, WantedInv, CallInv, Sets
  <2>8. RestInv'
    BY <1>10 DEF AddDone, Returns, RestInv, CallInv
  <2>9. DeletedInv'
    BY <1>10 DEF AddDone, Returns, DeletedInv, CallInv
  <2> QED
    BY <2>1, <2>2, <2>3, <2>4, <2>5, <2>6, <2>7, <2>8, <2>9
<1>11. ASSUME Get
      PROVE  Inv'
  <2>1. BuiltInv'
    BY <1>11 DEF Get, Goes, BuiltInv
  <2>2. TypeOK'
    <3>1. err' \in BOOLEAN
      BY <1>11, Zenon DEF Get, Goes, TypeOK
    <3>2. \A x \in table' \cup before' \cup added' \cup removed' : x \in Row
      BY <1>11, <2>1, <1>b DEF Get, Goes, BuiltInv
    <3> QED
      BY <1>11, <1>a, <3>1, <3>2 DEF Get, Goes, TypeOK, Scope
  <2>3. KeyInv'
    BY <1>11 DEF Get, Goes, KeyInv
  <2>4. CallInv'
    BY <1>11 DEF Get, Goes, CallInv, Sets
  <2>5. KeptInv'
    BY <1>11 DEF Get, Goes, KeptInv, CallInv
  <2>6. DataInv'
    BY <1>11 DEF Get, Goes, DataInv, CallInv
  <2>7. WantedInv'
    BY <1>11 DEF Get, Goes, WantedInv, CallInv, Sets
  <2>8. RestInv'
    BY <1>11 DEF Get, Goes, RestInv, CallInv
  <2>9. DeletedInv'
    BY <1>11 DEF Get, Goes, DeletedInv, CallInv
  <2> QED
    BY <2>1, <2>2, <2>3, <2>4, <2>5, <2>6, <2>7, <2>8, <2>9
<1>12. ASSUME Remove
      PROVE  Inv'
  <2>0. PICK item \in Items : item = Head(data) /\ ValidOf(kind, item)
    BY <1>12, <1>c, KindOnly DEF Remove, CallInv
  <2>p. PICK b : b = BuildOf(kind, Self, item)
    OBVIOUS
  <2>q. PICK r \in table : Same(kind, r, b) /\ table' = table \ {r}
    BY <1>12, <2>0, <2>p, KindOnly DEF Remove
  <2>r. /\ b.luid = Self /\ wanted = {AskedOf(kind, item)} /\ op = "delete"
    BY <1>12, <2>0, <2>p, <1>a, BuiltRow DEF Remove, CallInv
  <2>s. \A q \in table : q.luid = Self =>
          (Same(kind, q, b) <=> NamesOf(kind, AskedOf(kind, item), q))
    <3> SUFFICES ASSUME NEW q \in table, q.luid = Self
                 PROVE  Same(kind, q, b)
                          <=> NamesOf(kind, AskedOf(kind, item), q)
      OBVIOUS
    <3>1. PICK j \in Items, l \in {Self, Other} :
            ValidOf(kind, j) /\ q = BuildOf(kind, l, j)
      BY DEF BuiltInv, Built
    <3>2. l = Self
      BY <3>1 DEF BuildOf
    <3> QED
      BY <1>a, <2>0, <2>p, <3>1, <3>2, KeyIsName
  <2>t. /\ r.luid = Self /\ NamesOf(kind, AskedOf(kind, item), r)
        /\ \A q \in table \ {r} : ~Same(kind, q, b)
    <3>1. r.luid = Self
      BY <2>q, <2>r DEF Same
    <3>2. \A q \in table : Same(kind, q, b) => Same(kind, q, r)
      BY <2>q DEF Same
    <3> QED
      BY <2>q, <2>s, <3>1, <3>2 DEF KeyInv
  <2>1. BuiltInv'
    BY <1>12, <2>q, <2>r, <2>s, <2>t DEF Remove, Returns, BuiltInv
  <2>2. TypeOK'
    <3>1. err' \in BOOLEAN
      BY <1>12, Zenon DEF Remove, Returns, TypeOK
    <3>2. \A x \in table' \cup before' \cup added' \cup removed' : x \in Row
      BY <1>12, <2>1, <1>b DEF Remove, Returns, BuiltInv
    <3> QED
      BY <1>12, <2>q, <2>r, <2>s, <2>t, <1>a, <3>1, <3>2
      DEF Remove, Returns, TypeOK, Scope
  <2>3. KeyInv'
    BY <1>12, <2>q, <2>r, <2>s, <2>t DEF Remove, Returns, KeyInv
  <2>4. CallInv'
    BY <1>12, <2>q, <2>r, <2>s, <2>t DEF Remove, Returns, CallInv, Sets
  <2>5. KeptInv'
    BY <1>12, <2>q, <2>r, <2>s, <2>t
    DEF Remove, Returns, KeptInv, CallInv, MayTouch, Sets
  <2>6. DataInv'
    BY <1>12, <2>q, <2>r, <2>s, <2>t DEF Remove, Returns, DataInv, CallInv
  <2>7. WantedInv'
    BY <1>12, <2>q, <2>r, <2>s, <2>t
    DEF Remove, Returns, WantedInv, CallInv, Sets
  <2>8. RestInv'
    BY <1>12, <2>q, <2>r, <2>s, <2>t
    DEF Remove, Returns, RestInv, CallInv, Sets
  <2>9. DeletedInv'
    BY <1>12, <2>q, <2>r, <2>s, <2>t DEF Remove, Returns, DeletedInv, CallInv
  <2> QED
    BY <2>1, <2>2, <2>3, <2>4, <2>5, <2>6, <2>7, <2>8, <2>9
<1>13. ASSUME RemoveFails
      PROVE  Inv'
  <2>1. BuiltInv'
    BY <1>13 DEF RemoveFails, Returns, BuiltInv
  <2>2. TypeOK'
    <3>1. err' \in BOOLEAN
      BY <1>13, Zenon DEF RemoveFails, Returns, TypeOK
    <3>2. \A x \in table' \cup before' \cup added' \cup removed' : x \in Row
      BY <1>13, <2>1, <1>b DEF RemoveFails, Returns, BuiltInv
    <3> QED
      BY <1>13, <1>a, <3>1, <3>2 DEF RemoveFails, Returns, TypeOK, Scope
  <2>3. KeyInv'
    BY <1>13 DEF RemoveFails, Returns, KeyInv
  <2>4. CallInv'
    BY <1>13 DEF RemoveFails, Returns, CallInv, Sets
  <2>5. KeptInv'
    BY <1>13 DEF RemoveFails, Returns, KeptInv, CallInv
  <2>6. DataInv'
    BY <1>13 DEF RemoveFails, Returns, DataInv, CallInv
  <2>7. WantedInv'
    BY <1>13 DEF RemoveFails, Returns, WantedInv, CallInv, Sets
  <2>8. RestInv'
    BY <1>13 DEF RemoveFails, Returns, RestInv, CallInv, Sets
  <2>9. DeletedInv'
    BY <1>13 DEF RemoveFails, Returns, DeletedInv, CallInv
  <2> QED
    BY <2>1, <2>2, <2>3, <2>4, <2>5, <2>6, <2>7, <2>8, <2>9
<1>14. ASSUME NEW r \in Rows(Self, Items) \cup Rows(Other, Items), OthersAdd(r)
      PROVE  Inv'
  <2>0. Built(kind, r)
    BY <1>14, KindOnly DEF Rows, Built
  <2>q. \A q \in table : ~Same(kind, q, r) /\ ~Same(kind, r, q)
    BY <1>14, KindOnly DEF OthersAdd, Same
  <2>1. BuiltInv'
    BY <1>14, <2>0, <2>q DEF OthersAdd, Meddle, BuiltInv
  <2>2. TypeOK'
    <3>1. err' \in BOOLEAN
      BY <1>14, Zenon DEF OthersAdd, Meddle, TypeOK
    <3>2. \A x \in table' \cup before' \cup added' \cup removed' : x \in Row
      BY <1>14, <2>1, <1>b DEF OthersAdd, Meddle, BuiltInv
    <3> QED
      BY <1>14, <2>0, <2>q, <1>a, <3>1, <3>2
      DEF OthersAdd, Meddle, TypeOK, Scope
  <2>3. KeyInv'
    BY <1>14, <2>0, <2>q DEF OthersAdd, Meddle, KeyInv
  <2>4. CallInv'
    BY <1>14, <2>0, <2>q DEF OthersAdd, Meddle, CallInv, Sets
  <2>5. KeptInv'
    BY <1>14, <2>0, <2>q DEF OthersAdd, Meddle, KeptInv, CallInv
  <2>6. DataInv'
    BY <1>14, <2>0, <2>q DEF OthersAdd, Meddle, DataInv, CallInv
  <2>7. WantedInv'
    BY <1>14, <2>0, <2>q DEF OthersAdd, Meddle, WantedInv, CallInv, Sets
  <2>8. RestInv'
    BY <1>14, <2>0, <2>q DEF OthersAdd, Meddle, RestInv, CallInv
  <2>9. DeletedInv'
    BY <1>14, <2>0, <2>q DEF OthersAdd, Meddle, DeletedInv, CallInv
  <2> QED
    BY <2>1, <2>2, <2>3, <2>4, <2>5, <2>6, <2>7, <2>8, <2>9
<1>15. ASSUME NEW r \in table, OthersRemove(r)
      PROVE  Inv'
  <2>1. BuiltInv'
    BY <1>15 DEF OthersRemove, Meddle, BuiltInv
  <2>2. TypeOK'
    <3>1. err' \in BOOLEAN
      BY <1>15, Zenon DEF OthersRemove, Meddle, TypeOK
    <3>2. \A x \in table' \cup before' \cup added' \cup removed' : x \in Row
      BY <1>15, <2>1, <1>b DEF OthersRemove, Meddle, BuiltInv
    <3> QED
      BY <1>15, <1>a, <3>1, <3>2 DEF OthersRemove, Meddle, TypeOK, Scope
  <2>3. KeyInv'
    BY <1>15 DEF OthersRemove, Meddle, KeyInv
  <2>4. CallInv'
    BY <1>15 DEF OthersRemove, Meddle, CallInv, Sets
  <2>5. KeptInv'
    BY <1>15 DEF OthersRemove, Meddle, KeptInv, CallInv
  <2>6. DataInv'
    BY <1>15 DEF OthersRemove, Meddle, DataInv, CallInv
  <2>7. WantedInv'
    BY <1>15 DEF OthersRemove, Meddle, WantedInv, CallInv, Sets
  <2>8. RestInv'
    BY <1>15 DEF OthersRemove, Meddle, RestInv, CallInv
  <2>9. DeletedInv'
    BY <1>15 DEF OthersRemove, Meddle, DeletedInv, CallInv
  <2> QED
    BY <2>1, <2>2, <2>3, <2>4, <2>5, <2>6, <2>7, <2>8, <2>9
<1>16. ASSUME UNCHANGED vars
      PROVE  Inv'
  <2>1. BuiltInv'
    BY <1>16 DEF vars, BuiltInv
  <2>2. TypeOK'
    <3>1. err' \in BOOLEAN
      BY <1>16, Zenon DEF vars, TypeOK
    <3>2. \A x \in table' \cup before' \cup added' \cup removed' : x \in Row
      BY <1>16, <2>1, <1>b DEF vars, BuiltInv
    <3> QED
      BY <1>16, <1>a, <3>1, <3>2 DEF vars, TypeOK, Scope
  <2>3. KeyInv'
    BY <1>16 DEF vars, KeyInv
  <2>4. CallInv'
    BY <1>16 DEF vars, CallInv, Sets
  <2>5. KeptInv'
    BY <1>16 DEF vars, KeptInv, CallInv
  <2>6. DataInv'
    BY <1>16 DEF vars, DataInv, CallInv
  <2>7. WantedInv'
    BY <1>16 DEF vars, WantedInv, CallInv, Sets
  <2>8. RestInv'
    BY <1>16 DEF vars, RestInv, CallInv
  <2>9. DeletedInv'
    BY <1>16 DEF vars, DeletedInv, CallInv
  <2> QED
    BY <2>1, <2>2, <2>3, <2>4, <2>5, <2>6, <2>7, <2>8, <2>9
<1> HIDE DEF Inv
<1> QED
  BY <1>1, <1>2, <1>3, <1>4, <1>5, <1>6, <1>7, <1>8, <1>9, <1>10, <1>11,
     <1>12, <1>13, <1>14, <1>15, <1>16
  DEF Next

(* Inv holds of every state of a call.                                     *)
LEMMA InvAlways == Spec => []Inv
BY InitInv, StepInv, PTL DEF Spec

(* Type correctness of the calls on the table of addresses and of routes:  *)
(* a flush only ever holds rows of its interface and family to delete.     *)
THEOREM TypeCorrect == Spec => []TypeOK
<1>1. Inv => TypeOK
  BY DEF Inv
<1> QED
  BY <1>1, InvAlways, PTL

(* No Add, Delete, Flush or Set of winipcfg touches a row it was not asked *)
(* about, wherever it fails and whatever others do to the table meanwhile: *)
(* OutOfScopeKept.                                                         *)
THEOREM OthersRowsKept == Spec => []OutOfScopeKept
<1>1. Inv => OutOfScopeKept
  <2> SUFFICES ASSUME Inv, pc # "idle"
               PROVE  LET expected == (before \cup added) \ removed
                      IN  table \ Touches(table) = expected \ Touches(expected)
    BY DEF OutOfScopeKept
  <2>1. \A T : Touches(T) = {r \in T : MayTouch(kind, op, family, wanted, r)}
    BY DEF Touches, MayTouch, Scope, InScope, Names, NamesOf, Read, ReadOf
  <2> QED
    BY <2>1 DEF Inv, KeptInv
<1> QED
  BY <1>1, InvAlways, PTL

(* What a call of winipcfg returns tells what it did, half-done Sets       *)
(* included, but for what others did meanwhile: ResultIsExact.             *)
THEOREM ResultsTell == Spec => []ResultIsExact
<1>1. Inv => ResultIsExact
  <2> SUFFICES ASSUME Inv, pc = "returned" PROVE ResultIsExact
    BY DEF ResultIsExact
  <2>0. \A r : Read(r) = ReadOf(kind, r)
    BY KindOnly
  <2>a. /\ \A i : Asked(i) = AskedOf(kind, i)
        /\ data \in Seq(Items) /\ DOMAIN data = 1 .. Len(data)
    BY KindOnly DEF Inv, TypeOK
  <2>1. ASSUME op # "delete",
               NEW w \in wanted \ (IF result = "ok" THEN {} ELSE Pending)
        PROVE  w \in {Read(r) : r \in Scope(table, family) \cup removed}
    <3>1. CASE \E i \in 1 .. Len(data) :
                 /\ InFamily(family, data[i].dst.addr.is)
                 /\ w = AskedOf(kind, data[i])
      <4>1. w \in Pending /\ data # <<>>
        BY <2>a, <3>1 DEF Pending
      <4> QED
        BY <2>1, <4>1 DEF Inv, CallInv
    <3>2. CASE \E r \in table \cup removed :
                 InScope(family, r) /\ ReadOf(kind, r) = w
      BY <2>0, <3>2 DEF Scope, InScope
    <3> QED
      BY <2>1, <3>1, <3>2 DEF Inv, WantedInv
  <2>2. ASSUME kind = "route", op \in Sets
        PROVE  \/ {Read(r) : r \in Scope(table, family) \ added}
                    \subseteq wanted
               \/ /\ result = "err"
                  /\ Scope(table, family) \subseteq before \cup added
    <3>1. result \in {"ok", "err"}
      BY DEF Inv, CallInv, TypeOK
    <3> QED
      BY <2>0, <2>2, <3>1 DEF Inv, RestInv, Scope, InScope
  <2>3. ASSUME op = "delete", result = "ok", NEW r \in Touches(table)
        PROVE  r \in added
    BY <2>0, <2>3
    DEF Inv, DeletedInv, Touches, Names, NamesOf, Sets
  <2> QED
    BY <2>1, <2>2, <2>3 DEF ResultIsExact
<1> QED
  BY <1>1, InvAlways, PTL
=============================================================================
