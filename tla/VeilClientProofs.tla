-------------------------- MODULE VeilClientProofs --------------------------
(***************************************************************************)
(* Safety of VeilClient for addresses of any width, any set of physical    *)
(* interfaces, configurations and route tables, and any number of runs.    *)
(***************************************************************************)
EXTENDS VeilClient, FiniteSetTheorems, WellFoundedInduction, TLAPS

(* Where main is: not running, before the exception, and while the tunnel  *)
(* may have rows.                                                          *)
Down      == {"exited", "returned", "fatal", "killed"}
Early     == {"loaded", "adapter", "bound", "addressed", "resolved"}
Tunnelled == {"pinned", "configured", "started", "running", "stopping",
              "engClosed", "connClosed"}

(* No goroutine of the engine runs before Run, and each of the two leaves  *)
(* at most one error.                                                      *)
EngineInv ==
  /\ errs \in 0 .. 2 /\ loops \subseteq Loops
  /\ pc \in Down \cup Early \cup {"pinned", "configured"}
       => loops = {} /\ errs = 0
  /\ loops # {} => errs <= 1
  /\ loops = Loops => errs = 0

(* The machine's own rows are of physical interfaces, in the table, and    *)
(* none of them is the exception.                                          *)
UserInv ==
  /\ \A r \in user : r.luid \in Phys
  /\ user \subseteq table
  /\ user \cap exception = {}

(* There is one server at most; the exception is a host route to it by a   *)
(* physical interface, and there is none before it is added.               *)
ExceptionInv ==
  /\ \A a, b \in server : a = b
  /\ \A r \in exception : r.luid \in Phys /\ \E a \in server : r.dst = Host(a)
  /\ pc \in Early => exception = {} /\ mine = {}

(* What this run added is the tunnel's or the exception.                   *)
MineInv == \A r \in mine : r.luid = Tun \/ r \in exception

(* The tunnel has rows only between the exception and the adapter's Close, *)
(* and only for the prefixes of the configuration.                         *)
TunnelInv ==
  /\ \A r \in table :
       r.luid = Tun => pc \in Tunnelled /\ r.dst \in TunnelPrefixes(cfg)
  /\ pc = "pinned" => todo \subseteq TunnelPrefixes(cfg)

(* Without a warning every prefix addTunnelRoutes is done with has its     *)
(* row, and it is done with all of them from SetDNS on.                    *)
CapturedInv ==
  /\ pc \in Tunnelled /\ ~warned
       => \A p \in TunnelPrefixes(cfg) \ todo :
            Row(p, Tun, OnLink, 0) \in table
  /\ pc \in Tunnelled \ {"pinned"} => todo = {}

(* Without a warning and an interface going down the exception stands from *)
(* before the first row of the tunnel until after the last.                *)
PinnedInv ==
  pc \in Tunnelled \cup {"tunClosed", "waited"} /\ server # {}
  /\ ~warned /\ ~lost
    => exception # {} /\ exception \subseteq table

(* The deferred cleanup has deleted the exception.                         *)
CleanedInv == pc \in {"cleaned", "returned"} => table \cap exception = {}

(* The inductive invariant.                                                *)
Inv ==
  /\ TypeOK /\ EngineInv /\ UserInv /\ ExceptionInv /\ MineInv
  /\ TunnelInv /\ CapturedInv /\ PinnedInv /\ CleanedInv

-----------------------------------------------------------------------------
(* Prefixes as sets of addresses.                                          *)

(* Half of the number of addresses.                                        *)
Half == 2^(W - 1)

(* The least and the second address, and those of the upper half.          *)
LEMMA Sizes ==
  /\ Half \in Nat /\ Half >= 2 /\ 2^W = 2 * Half /\ 2^W \in Nat
  /\ Addrs = 0 .. (2 * Half - 1) /\ Addrs \subseteq Nat
  /\ {0, 1, Half, Half + 1} \subseteq Addrs
<1>1. Half \in Nat /\ Half >= 2 /\ 2^W = 2 * Half
  BY PowerAssumption DEF Half
<1> QED
  BY <1>1 DEF Addrs

(* A host prefix covers its address and no other.                          *)
LEMMA HostIsOne ==
  ASSUME NEW a \in Addrs
  PROVE  Host(a) = {a} /\ Host(a) \in Prefixes
<1>1. W - W = 0 /\ W \in 0 .. W
  BY RoutingAssumption
<1>2. 2^(W - W) = 1
  BY <1>1, PowerAssumption
<1>3. \A x \in Addrs : x \div 1 = x
  BY Sizes
<1>4. Prefix(a, W) = {x \in Addrs : x \div 1 = a \div 1}
  BY <1>2 DEF Prefix
<1>5. Prefix(a, W) = {a}
  BY <1>3, <1>4
<1> QED
  BY <1>1, <1>5 DEF Host, Prefixes

(* The default covers every address.                                       *)
LEMMA DefaultIsAll == Default = Addrs /\ Default \in Prefixes
<1>1. W - 0 = W /\ 0 \in 0 .. W /\ 0 \in Addrs
  BY RoutingAssumption, Sizes
<1>2. \A x \in 0 .. (2 * Half - 1) : x \div (2 * Half) = 0
  BY Sizes
<1>3. \A x \in Addrs : x \div 2^(W - 0) = 0
  BY <1>1, <1>2, Sizes
<1> QED
  BY <1>1, <1>3 DEF Default, Prefix, Prefixes

(* The two halves of the default are prefixes of more than one address.    *)
LEMMA Halves ==
  /\ Prefix(0, 1) \in Prefixes /\ Prefix(2^(W - 1), 1) \in Prefixes
  /\ {0, 1} \subseteq Prefix(0, 1)
  /\ {Half, Half + 1} \subseteq Prefix(2^(W - 1), 1)
<1>1. 1 \in 0 .. W
  BY RoutingAssumption
<1>2. 0 \div Half = 0 /\ 1 \div Half = 0
  BY Sizes
<1>3. Half \div Half = 1 /\ (Half + 1) \div Half = 1
  BY Sizes
<1>4. {0, 1} \subseteq {x \in Addrs : x \div Half = 0 \div Half}
  BY <1>2, Sizes
<1>5. {Half, Half + 1} \subseteq {x \in Addrs : x \div Half = Half \div Half}
  BY <1>3, Sizes
<1>6. Prefix(0, 1) \in Prefixes /\ Prefix(2^(W - 1), 1) \in Prefixes
  BY <1>1, Sizes DEF Prefixes, Half
<1> QED
  BY <1>4, <1>5, <1>6 DEF Prefix, Half

(* No host prefix is the default or one of its halves.                     *)
LEMMA HostIsShortest ==
  ASSUME NEW a \in Addrs
  PROVE  /\ Host(a) # Default
         /\ Host(a) # Prefix(0, 1) /\ Host(a) # Prefix(2^(W - 1), 1)
<1>1. 0 \in Default /\ 1 \in Default
  BY DefaultIsAll, Sizes
<1> QED
  BY <1>1, HostIsOne, Halves, Sizes

(* A run that has loaded nothing has no peers.                             *)
LEMMA EmptyConfig == <<>> \in Seq(Peer)
OBVIOUS

(* addTunnelRoutes routes prefixes, and names a host only if AllowedIPs    *)
(* does.                                                                   *)
LEMMA TunnelPrefixesTyped ==
  ASSUME NEW c \in Configs \cup {<<>>}
  PROVE  /\ TunnelPrefixes(c) \subseteq Prefixes
         /\ \A a \in Addrs :
              Host(a) \in TunnelPrefixes(c) => Host(a) \in AllowedIPs(c)
<1>1. c \in Seq(Peer)
  BY ClientAssumption, EmptyConfig
<1>2. \A i \in DOMAIN c : c[i] \in Peer
  BY <1>1
<1>a. \A q \in Peer : q.allowed \subseteq Prefixes
  BY DEF Peer
<1>3. AllowedIPs(c) \subseteq Prefixes
  BY <1>2, <1>a DEF AllowedIPs
<1> QED
  BY <1>3, Halves, HostIsShortest DEF TunnelPrefixes

(* resolveEndpoint finds one address or none.                              *)
LEMMA OneEndpoint ==
  ASSUME NEW c \in Configs \cup {<<>>}, NEW answered \in SUBSET DOMAIN c
  PROVE  \/ ResolveEndpoint(c, answered) = {}
         \/ \E a \in Addrs : ResolveEndpoint(c, answered) = {a}
<1> DEFINE have == {i \in answered : c[i].endpoint # {}}
<1>1. c \in Seq(Peer)
  BY ClientAssumption, EmptyConfig
<1>2. CASE have = {}
  BY <1>2 DEF ResolveEndpoint
<1>3. CASE have # {}
  <2>1. have \subseteq Nat /\ have \subseteq DOMAIN c
    BY <1>1
  <2>2. \E i \in have : \A j \in have : ~ (<<j, i>> \in OpToRel(<, Nat))
    BY <1>3, <2>1, WFMin, NatLessThanWellFounded
  <2>a. \A i, j \in Nat : ~ (<<j, i>> \in OpToRel(<, Nat)) => i <= j
    BY DEF OpToRel
  <2> HIDE DEF have
  <2>3. \E i \in have : \A j \in have : i <= j
    BY <2>1, <2>2, <2>a
  <2> DEFINE first == CHOOSE i \in have : \A j \in have : i <= j
  <2>4. first \in have
    BY <2>3
  <2> HIDE DEF first
  <2>5. c[first] \in Peer
    BY <1>1, <2>1, <2>4
  <2>b. c[first].endpoint # {}
    BY <2>4 DEF have
  <2>6. \E a \in Addrs : c[first].endpoint = {a}
    BY <2>5, <2>b DEF Peer
  <2>7. ResolveEndpoint(c, answered) = c[first].endpoint
    BY <1>3 DEF ResolveEndpoint, have, first
  <2> QED
    BY <2>6, <2>7
<1> QED
  BY <1>2, <1>3

(* Every address is in one of the halves.                                  *)
LEMMA HalvesCover ==
  ASSUME NEW a \in Addrs
  PROVE  \E h \in {Prefix(0, 1), Prefix(2^(W - 1), 1)} : a \in h
<1>1. a \div Half = 0 \/ a \div Half = 1
  BY Sizes
<1>2. 0 \div Half = 0 /\ Half \div Half = 1
  BY Sizes
<1> QED
  BY <1>1, <1>2 DEF Prefix, Half

(* The types, without and with the flags.                                  *)
Flags == {warned, lost, adapter, conn, dns, engClosed} \subseteq BOOLEAN

Data ==
  /\ pc \in Down \cup Early \cup Tunnelled
             \cup {"tunClosed", "waited", "cleaned"}
  /\ runs \in 0 .. MaxRuns
  /\ table \subseteq Route /\ user \subseteq Route
  /\ exception \subseteq mine /\ mine \subseteq Route
  /\ cfg \in Configs \cup {<<>>}
  /\ server \subseteq Addrs /\ todo \subseteq Prefixes

(* The types are those of the flags, of the engine and of the rest.        *)
LEMMA TypeParts ==
  /\ TypeOK => Data /\ Flags
  /\ Data /\ Flags /\ EngineInv => TypeOK
<1>1. Cardinality(Loops) = 2
  <2>1. IsFiniteSet({"udp"}) /\ Cardinality({"udp"}) = 1
    BY FS_Singleton
  <2>2. Loops = {"udp"} \cup {"tun"} /\ "tun" \notin {"udp"}
    BY DEF Loops
  <2> QED
    BY <2>1, <2>2, FS_AddElement
<1>2. TypeOK => Data /\ Flags
  BY DEF TypeOK, Data, Flags, Down, Early, Tunnelled
<1>3. ASSUME Data, Flags, EngineInv PROVE TypeOK
  BY <1>1, <1>3 DEF TypeOK, Data, Flags, EngineInv, Down, Early, Tunnelled
<1> QED
  BY <1>2, <1>3

(* The same of the next state.                                             *)
LEMMA TypePartsNext == (Data /\ Flags /\ EngineInv => TypeOK)'
<1>1. Data /\ Flags /\ EngineInv => TypeOK
  BY TypeParts
<1> QED
  BY <1>1, PTL

(* A machine on which the client has not run satisfies Inv.                *)
LEMMA InitInv == Init => Inv
<1> SUFFICES ASSUME Init PROVE Inv
  OBVIOUS
<1>1. Flags
  BY Zenon DEF Init, Flags
<1>2. \A r \in table : r \in Route /\ r.luid \in Phys /\ r.luid # Tun
  BY RoutingAssumption, ClientAssumption DEF Init, Route
<1>3. EngineInv
  BY DEF Init, EngineInv, Down
<1>4. Data
  BY <1>2, ClientAssumption DEF Init, Data, Down
<1>5. UserInv /\ ExceptionInv /\ MineInv /\ TunnelInv /\ PinnedInv
  BY <1>2 DEF Init, UserInv, ExceptionInv, MineInv, TunnelInv, PinnedInv,
              Early, Tunnelled
<1>6. CapturedInv /\ CleanedInv
  BY DEF Init, CapturedInv, CleanedInv, Tunnelled
<1> QED
  BY <1>1, <1>3, <1>4, <1>5, <1>6, TypeParts DEF Inv

(* The end of the process preserves Inv, if the exception is gone when main *)
(* returns.                                                                *)
LEMMA ProcessEndsInv ==
  ASSUME Inv, NEW label \in Down, ProcessEnds(label),
         label = "returned" => table \cap exception = {}
  PROVE  Inv'
<1> USE RoutingAssumption
<1>0. Data /\ Flags
  BY TypeParts DEF Inv
<1>1. Data'
  BY <1>0 DEF ProcessEnds, Data, FlushRoutes, config, Down
<1>2. Flags'
  BY <1>0, Zenon DEF ProcessEnds, Flags
<1>3. EngineInv'
  BY DEF ProcessEnds, EngineInv
<1>4. UserInv' /\ MineInv'
  BY DEF Inv, ProcessEnds, UserInv, MineInv, FlushRoutes, config
<1>5. ExceptionInv' /\ TunnelInv' /\ PinnedInv' /\ CleanedInv'
  BY DEF Inv, ProcessEnds, ExceptionInv, TunnelInv, PinnedInv, CleanedInv,
         FlushRoutes, config, Down, Early, Tunnelled
<1>6. CapturedInv'
  BY DEF ProcessEnds, CapturedInv, Down, Tunnelled
<1> QED
  BY <1>1, <1>2, <1>3, <1>4, <1>5, <1>6, TypePartsNext DEF Inv

(* The end of the endpoint exception preserves Inv, whether it added a row *)
(* that was not there, to the server by a physical interface, or warned.   *)
LEMMA ExceptionDoneInv ==
  ASSUME Inv, At("resolved", "pinned"), NEW added, NEW warning \in BOOLEAN,
         ExceptionDone(added, warning),
         added \subseteq Route, added \cap table = {},
         \A r \in added : r.luid \in Phys /\ \E a \in server : r.dst = Host(a),
         warning \/ server = {} \/ added # {}
  PROVE  Inv'
<1> USE RoutingAssumption
<1>0. Data /\ Flags
  BY TypeParts DEF Inv
<1>a. mine = {} /\ exception = {}
  BY DEF Inv, At, ExceptionInv, Early
<1>b. \A r \in added : r.luid # Tun
  OBVIOUS
<1>1. Data'
  <2>1. TunnelPrefixes(cfg) \subseteq Prefixes
    BY <1>0, TunnelPrefixesTyped DEF Data
  <2> QED
    BY <1>0, <1>a, <2>1 DEF At, ExceptionDone, Data, Tunnelled
<1>2. Flags'
  BY <1>0, Zenon DEF ExceptionDone, Flags, devices, engine
<1>3. EngineInv'
  BY DEF Inv, At, ExceptionDone, EngineInv, engine, Early, Down
<1>4. UserInv'
  BY DEF Inv, At, ExceptionDone, UserInv
<1>5. ExceptionInv' /\ MineInv'
  BY <1>a DEF Inv, At, ExceptionDone, ExceptionInv, MineInv, Early
<1>6. TunnelInv'
  BY <1>b DEF Inv, At, ExceptionDone, TunnelInv, Tunnelled
<1>7. PinnedInv'
  <2>1. ~warned' => ~warning
    BY Zenon DEF ExceptionDone
  <2> QED
    BY <2>1 DEF At, ExceptionDone, PinnedInv
<1>8. CleanedInv'
  BY DEF At, CleanedInv
<1>9. CapturedInv'
  BY DEF At, ExceptionDone, CapturedInv
<1> QED
  BY <1>1, <1>2, <1>3, <1>4, <1>5, <1>6, <1>7, <1>8, <1>9, TypePartsNext
  DEF Inv

(* Every step of main, of the engine and of the machine preserves Inv.     *)
LEMMA StepInv == Inv /\ [Next]_vars => Inv'
<1> SUFFICES ASSUME Inv, [Next]_vars PROVE Inv'
  OBVIOUS
<1> USE RoutingAssumption
<1>0. Data /\ Flags
  BY TypeParts DEF Inv
<1>1. ASSUME NEW c \in Configs, LoadConfig(c) PROVE Inv'
  <2>1. Data'
    BY <1>0, <1>1, ClientAssumption
    DEF LoadConfig, Data, Down, Early, Tunnelled, routing, config, devices,
        engine
  <2>2. Flags'
    BY <1>0, <1>1, Zenon
    DEF LoadConfig, Flags, routing, config, devices, engine
  <2>3. EngineInv'
    BY <1>1
    DEF Inv, LoadConfig, EngineInv, Down, Early, Tunnelled, routing,
        config, devices, engine
  <2>4. UserInv'
    BY <1>1 DEF Inv, LoadConfig, UserInv, routing, config, devices, engine
  <2>5. ExceptionInv' /\ MineInv'
    BY <1>1
    DEF Inv, LoadConfig, ExceptionInv, MineInv, Early, routing, config,
        devices, engine
  <2>6. TunnelInv'
    BY <1>1
    DEF Inv, LoadConfig, TunnelInv, Tunnelled, routing, config, devices,
        engine
  <2>7. PinnedInv'
    BY <1>1
    DEF Inv, LoadConfig, PinnedInv, Tunnelled, routing, config, devices,
        engine
  <2>8. CleanedInv'
    BY <1>1 DEF Inv, LoadConfig, CleanedInv, routing, config, devices, engine
  <2>9. CapturedInv'
    BY <1>1
    DEF Inv, LoadConfig, CapturedInv, Tunnelled, routing, config, devices,
        engine
  <2> QED
    BY <2>1, <2>2, <2>3, <2>4, <2>5, <2>6, <2>7, <2>8, <2>9, TypePartsNext
    DEF Inv
<1>2. ASSUME NewTunDevice PROVE Inv'
  <2>1. Data'
    BY <1>0, <1>2
    DEF NewTunDevice, At, Data, routing, config, devices, engine, Down,
        Early, Tunnelled
  <2>2. Flags'
    BY <1>0, <1>2, Zenon
    DEF NewTunDevice, Flags, routing, config, devices, engine
  <2>3. EngineInv'
    BY <1>2
    DEF Inv, NewTunDevice, At, EngineInv, Loops, routing, config,
        devices, engine, Down, Early, Tunnelled
  <2>4. UserInv' /\ MineInv'
    BY <1>2
    DEF Inv, NewTunDevice, UserInv, MineInv, routing, config, devices, engine
  <2>5. ExceptionInv' /\ TunnelInv'
    BY <1>2
    DEF Inv, NewTunDevice, At, ExceptionInv, TunnelInv, routing, config,
        devices, engine, Early, Tunnelled
  <2>6. PinnedInv' /\ CleanedInv'
    BY <1>2
    DEF Inv, NewTunDevice, At, PinnedInv, CleanedInv, routing, config,
        devices, engine, Tunnelled
  <2>7. CapturedInv'
    BY <1>2
    DEF Inv, NewTunDevice, At, CapturedInv, routing, config, devices, engine,
        Tunnelled
  <2> QED
    BY <2>1, <2>2, <2>3, <2>4, <2>5, <2>6, <2>7, TypePartsNext DEF Inv
<1>3. ASSUME BindUDP PROVE Inv'
  <2>1. Data'
    BY <1>0, <1>3
    DEF BindUDP, At, Data, routing, config, devices, engine, Down, Early,
        Tunnelled
  <2>2. Flags'
    BY <1>0, <1>3, Zenon DEF BindUDP, Flags, routing, config, devices, engine
  <2>3. EngineInv'
    BY <1>3
    DEF Inv, BindUDP, At, EngineInv, Loops, routing, config,
        devices, engine, Down, Early, Tunnelled
  <2>4. UserInv' /\ MineInv'
    BY <1>3
    DEF Inv, BindUDP, UserInv, MineInv, routing, config, devices, engine
  <2>5. ExceptionInv' /\ TunnelInv'
    BY <1>3
    DEF Inv, BindUDP, At, ExceptionInv, TunnelInv, routing, config, devices,
        engine, Early, Tunnelled
  <2>6. PinnedInv' /\ CleanedInv'
    BY <1>3
    DEF Inv, BindUDP, At, PinnedInv, CleanedInv, routing, config, devices,
        engine, Tunnelled
  <2>7. CapturedInv'
    BY <1>3
    DEF Inv, BindUDP, At, CapturedInv, routing, config, devices, engine,
        Tunnelled
  <2> QED
    BY <2>1, <2>2, <2>3, <2>4, <2>5, <2>6, <2>7, TypePartsNext DEF Inv
<1>4. ASSUME SetAddress PROVE Inv'
  <2>1. Data'
    BY <1>0, <1>4
    DEF SetAddress, At, Data, routing, config, devices, engine, Down, Early,
        Tunnelled
  <2>2. Flags'
    BY <1>0, <1>4, Zenon
    DEF SetAddress, Flags, routing, config, devices, engine
  <2>3. EngineInv'
    BY <1>4
    DEF Inv, SetAddress, At, EngineInv, Loops, routing, config,
        devices, engine, Down, Early, Tunnelled
  <2>4. UserInv' /\ MineInv'
    BY <1>4
    DEF Inv, SetAddress, UserInv, MineInv, routing, config, devices, engine
  <2>5. ExceptionInv' /\ TunnelInv'
    BY <1>4
    DEF Inv, SetAddress, At, ExceptionInv, TunnelInv, routing, config,
        devices, engine, Early, Tunnelled
  <2>6. PinnedInv' /\ CleanedInv'
    BY <1>4
    DEF Inv, SetAddress, At, PinnedInv, CleanedInv, routing, config, devices,
        engine, Tunnelled
  <2>7. CapturedInv'
    BY <1>4
    DEF Inv, SetAddress, At, CapturedInv, routing, config, devices, engine,
        Tunnelled
  <2> QED
    BY <2>1, <2>2, <2>3, <2>4, <2>5, <2>6, <2>7, TypePartsNext DEF Inv
<1>5. ASSUME NEW answered \in SUBSET DOMAIN cfg, Resolve(answered) PROVE Inv'
  <2>0. \/ ResolveEndpoint(cfg, answered) = {}
        \/ \E a \in Addrs : ResolveEndpoint(cfg, answered) = {a}
    BY <1>0, OneEndpoint DEF Data
  <2>1. Data'
    BY <1>0, <1>5, <2>0
    DEF Resolve, At, Data, Down, Early, Tunnelled, routing, config, devices,
        engine
  <2>2. Flags'
    BY <1>0, <1>5, Zenon DEF Resolve, Flags, routing, config, devices, engine
  <2>3. EngineInv'
    BY <1>5
    DEF Inv, Resolve, At, EngineInv, Down, Early, Tunnelled,
        routing, config, devices, engine
  <2>4. UserInv'
    BY <1>5 DEF Inv, Resolve, At, UserInv, routing, config, devices, engine
  <2>5. ExceptionInv' /\ MineInv'
    BY <1>5, <2>0
    DEF Inv, Resolve, At, ExceptionInv, MineInv, Early, routing, config,
        devices, engine
  <2>6. TunnelInv'
    BY <1>5
    DEF Inv, Resolve, At, TunnelInv, Tunnelled, routing, config, devices,
        engine
  <2>7. PinnedInv'
    BY <1>5
    DEF Inv, Resolve, At, PinnedInv, Tunnelled, routing, config, devices,
        engine
  <2>8. CleanedInv'
    BY <1>5 DEF Inv, Resolve, At, CleanedInv, routing, config, devices, engine
  <2>9. CapturedInv'
    BY <1>5
    DEF Inv, Resolve, At, CapturedInv, Tunnelled, routing, config, devices,
        engine
  <2> QED
    BY <2>1, <2>2, <2>3, <2>4, <2>5, <2>6, <2>7, <2>8, <2>9, TypePartsNext
    DEF Inv
<1>6. ASSUME AddException PROVE Inv'
  <2>1. PICK r \in DefaultRoutes(table, Tun), a \in server :
          /\ Matching(table, Host(a), r.luid, r.hop) = {}
          /\ ExceptionDone({Row(Host(a), r.luid, r.hop, 0)}, FALSE)
    BY <1>6 DEF AddException
  <2> DEFINE e == Row(Host(a), r.luid, r.hop, 0)
  <2>2. r \in Route /\ r.luid # Tun
    BY <1>0 DEF Data, DefaultRoutes
  <2>3. Host(a) \in Prefixes
    BY <1>0, HostIsOne DEF Data
  <2>4. e \in Route /\ e.luid \in Phys /\ e.dst = Host(a)
    BY <2>2, <2>3 DEF Row, Route
  <2>5. e \notin table
    BY <2>1 DEF Matching, Row
  <2>6. At("resolved", "pinned") /\ ExceptionDone({e}, FALSE)
    BY <1>6, <2>1 DEF AddException
  <2> HIDE DEF e
  <2>7. {e} \subseteq Route /\ {e} \cap table = {} /\ {e} # {}
    BY <2>4, <2>5
  <2>8. \A q \in {e} : q.luid \in Phys /\ \E b \in server : q.dst = Host(b)
    BY <2>4
  <2> QED
    BY <2>6, <2>7, <2>8, ExceptionDoneInv
<1>7. ASSUME ExceptionFails PROVE Inv'
  <2>0. /\ {} \subseteq Route /\ {} \cap table = {} /\ TRUE \in BOOLEAN
        /\ \A r \in {} : r.luid \in Phys /\ \E a \in server : r.dst = Host(a)
    OBVIOUS
  <2>1. At("resolved", "pinned") /\ ExceptionDone({}, TRUE)
    BY <1>7 DEF ExceptionFails
  <2> QED
    BY <2>0, <2>1, ExceptionDoneInv
<1>8. ASSUME NoServer PROVE Inv'
  <2>0. /\ {} \subseteq Route /\ {} \cap table = {} /\ FALSE \in BOOLEAN
        /\ \A r \in {} : r.luid \in Phys /\ \E a \in server : r.dst = Host(a)
    OBVIOUS
  <2>1. At("resolved", "pinned") /\ ExceptionDone({}, FALSE) /\ server = {}
    BY <1>8 DEF NoServer
  <2> QED
    BY <2>0, <2>1, ExceptionDoneInv
<1>9. ASSUME NEW p \in todo, AddTunnelRoute(p) PROVE Inv'
  <2> DEFINE new == Row(p, Tun, OnLink, 0)
  <2>0. new \in Route /\ new.luid = Tun /\ new.dst = p
    BY <1>0 DEF Data, Row, Route
  <2>a. table' = table \cup {new} /\ mine' = mine \cup {new}
    BY <1>9 DEF AddTunnelRoute
  <2> HIDE DEF new
  <2>1. Data'
    BY <1>0, <1>9, <2>0, <2>a
    DEF AddTunnelRoute, Data, Down, Early, Tunnelled, routing, config,
        devices, engine
  <2>2. Flags'
    BY <1>0, <1>9, Zenon
    DEF AddTunnelRoute, Flags, routing, config, devices, engine
  <2>3. EngineInv'
    BY <1>9
    DEF Inv, AddTunnelRoute, EngineInv, Down, Early, Tunnelled,
        routing, config, devices, engine
  <2>4. UserInv'
    BY <1>9, <2>0, <2>a
    DEF Inv, AddTunnelRoute, UserInv, routing, config, devices, engine
  <2>5. ExceptionInv' /\ MineInv'
    BY <1>9, <2>0, <2>a
    DEF Inv, AddTunnelRoute, ExceptionInv, MineInv, Early, routing, config,
        devices, engine
  <2>6. TunnelInv'
    BY <1>9, <2>0, <2>a
    DEF Inv, AddTunnelRoute, TunnelInv, Tunnelled, routing, config, devices,
        engine
  <2>7. PinnedInv'
    BY <1>9, <2>0, <2>a
    DEF Inv, AddTunnelRoute, PinnedInv, Tunnelled, routing, config, devices,
        engine
  <2>8. CleanedInv'
    BY <1>9, <2>0, <2>a
    DEF Inv, AddTunnelRoute, CleanedInv, routing, config, devices, engine
  <2>9. CapturedInv'
    BY <1>9, <2>0, <2>a
    DEF Inv, AddTunnelRoute, CapturedInv, Tunnelled, routing, config,
        devices, engine
  <2> QED
    BY <2>1, <2>2, <2>3, <2>4, <2>5, <2>6, <2>7, <2>8, <2>9, TypePartsNext
    DEF Inv
<1>10. ASSUME NEW p \in todo, TunnelRouteFails(p) PROVE Inv'
  <2>1. Data'
    BY <1>0, <1>10
    DEF TunnelRouteFails, Data, Down, Early, Tunnelled, routing, config,
        devices, engine
  <2>2. Flags'
    BY <1>0, <1>10, Zenon
    DEF TunnelRouteFails, Flags, routing, config, devices, engine
  <2>3. EngineInv'
    BY <1>10
    DEF Inv, TunnelRouteFails, EngineInv, Down, Early, Tunnelled,
        routing, config, devices, engine
  <2>4. UserInv'
    BY <1>10
    DEF Inv, TunnelRouteFails, UserInv, routing, config, devices, engine
  <2>5. ExceptionInv' /\ MineInv'
    BY <1>10
    DEF Inv, TunnelRouteFails, ExceptionInv, MineInv, Early, routing, config,
        devices, engine
  <2>6. TunnelInv'
    BY <1>10
    DEF Inv, TunnelRouteFails, TunnelInv, Tunnelled, routing, config,
        devices, engine
  <2>7. PinnedInv'
    BY <1>10
    DEF Inv, TunnelRouteFails, PinnedInv, Tunnelled, routing, config,
        devices, engine
  <2>8. CleanedInv'
    BY <1>10
    DEF Inv, TunnelRouteFails, CleanedInv, routing, config, devices, engine
  <2>9. CapturedInv'
    BY <1>10
    DEF Inv, TunnelRouteFails, CapturedInv, Tunnelled, routing, config,
        devices, engine
  <2> QED
    BY <2>1, <2>2, <2>3, <2>4, <2>5, <2>6, <2>7, <2>8, <2>9, TypePartsNext
    DEF Inv
<1>11. ASSUME NEW set \in BOOLEAN, SetDNS(set) PROVE Inv'
  <2>1. Data'
    BY <1>0, <1>11
    DEF SetDNS, At, Data, routing, config, devices, engine, Down, Early,
        Tunnelled
  <2>2. Flags'
    BY <1>0, <1>11, Zenon DEF SetDNS, Flags, routing, config, devices, engine
  <2>3. EngineInv'
    BY <1>11
    DEF Inv, SetDNS, At, EngineInv, Loops, routing, config, devices,
        engine, Down, Early, Tunnelled
  <2>4. UserInv' /\ MineInv'
    BY <1>11
    DEF Inv, SetDNS, UserInv, MineInv, routing, config, devices, engine
  <2>5. ExceptionInv' /\ TunnelInv'
    BY <1>11
    DEF Inv, SetDNS, At, ExceptionInv, TunnelInv, routing, config, devices,
        engine, Early, Tunnelled
  <2>6. PinnedInv' /\ CleanedInv'
    BY <1>11
    DEF Inv, SetDNS, At, PinnedInv, CleanedInv, routing, config, devices,
        engine, Tunnelled
  <2>7. CapturedInv'
    BY <1>11
    DEF Inv, SetDNS, At, CapturedInv, routing, config, devices, engine,
        Tunnelled
  <2> QED
    BY <2>1, <2>2, <2>3, <2>4, <2>5, <2>6, <2>7, TypePartsNext DEF Inv
<1>12. ASSUME EngineRun PROVE Inv'
  <2>1. Data'
    BY <1>0, <1>12
    DEF EngineRun, At, Data, routing, config, devices, engine, Down, Early,
        Tunnelled
  <2>2. Flags'
    BY <1>0, <1>12, Zenon
    DEF EngineRun, Flags, routing, config, devices, engine
  <2>3. EngineInv'
    BY <1>12
    DEF Inv, EngineRun, At, EngineInv, Loops, routing, config,
        devices, engine, Down, Early, Tunnelled
  <2>4. UserInv' /\ MineInv'
    BY <1>12
    DEF Inv, EngineRun, UserInv, MineInv, routing, config, devices, engine
  <2>5. ExceptionInv' /\ TunnelInv'
    BY <1>12
    DEF Inv, EngineRun, At, ExceptionInv, TunnelInv, routing, config,
        devices, engine, Early, Tunnelled
  <2>6. PinnedInv' /\ CleanedInv'
    BY <1>12
    DEF Inv, EngineRun, At, PinnedInv, CleanedInv, routing, config, devices,
        engine, Tunnelled
  <2>7. CapturedInv'
    BY <1>12
    DEF Inv, EngineRun, At, CapturedInv, routing, config, devices, engine,
        Tunnelled
  <2> QED
    BY <2>1, <2>2, <2>3, <2>4, <2>5, <2>6, <2>7, TypePartsNext DEF Inv
<1>13. ASSUME Notify PROVE Inv'
  <2>1. Data'
    BY <1>0, <1>13
    DEF Notify, At, Data, routing, config, devices, engine, Down, Early,
        Tunnelled
  <2>2. Flags'
    BY <1>0, <1>13, Zenon DEF Notify, Flags, routing, config, devices, engine
  <2>3. EngineInv'
    BY <1>13
    DEF Inv, Notify, At, EngineInv, Loops, routing, config, devices,
        engine, Down, Early, Tunnelled
  <2>4. UserInv' /\ MineInv'
    BY <1>13
    DEF Inv, Notify, UserInv, MineInv, routing, config, devices, engine
  <2>5. ExceptionInv' /\ TunnelInv'
    BY <1>13
    DEF Inv, Notify, At, ExceptionInv, TunnelInv, routing, config, devices,
        engine, Early, Tunnelled
  <2>6. PinnedInv' /\ CleanedInv'
    BY <1>13
    DEF Inv, Notify, At, PinnedInv, CleanedInv, routing, config, devices,
        engine, Tunnelled
  <2>7. CapturedInv'
    BY <1>13
    DEF Inv, Notify, At, CapturedInv, routing, config, devices, engine,
        Tunnelled
  <2> QED
    BY <2>1, <2>2, <2>3, <2>4, <2>5, <2>6, <2>7, TypePartsNext DEF Inv
<1>14. ASSUME EngineClose PROVE Inv'
  <2>1. Data'
    BY <1>0, <1>14
    DEF EngineClose, At, Data, routing, config, devices, engine, Down, Early,
        Tunnelled
  <2>2. Flags'
    BY <1>0, <1>14, Zenon
    DEF EngineClose, Flags, routing, config, devices, engine
  <2>3. EngineInv'
    BY <1>14
    DEF Inv, EngineClose, At, EngineInv, Loops, routing, config,
        devices, engine, Down, Early, Tunnelled
  <2>4. UserInv' /\ MineInv'
    BY <1>14
    DEF Inv, EngineClose, UserInv, MineInv, routing, config, devices, engine
  <2>5. ExceptionInv' /\ TunnelInv'
    BY <1>14
    DEF Inv, EngineClose, At, ExceptionInv, TunnelInv, routing, config,
        devices, engine, Early, Tunnelled
  <2>6. PinnedInv' /\ CleanedInv'
    BY <1>14
    DEF Inv, EngineClose, At, PinnedInv, CleanedInv, routing, config,
        devices, engine, Tunnelled
  <2>7. CapturedInv'
    BY <1>14
    DEF Inv, EngineClose, At, CapturedInv, routing, config, devices, engine,
        Tunnelled
  <2> QED
    BY <2>1, <2>2, <2>3, <2>4, <2>5, <2>6, <2>7, TypePartsNext DEF Inv
<1>15. ASSUME ConnClose PROVE Inv'
  <2>1. Data'
    BY <1>0, <1>15
    DEF ConnClose, At, Data, routing, config, devices, engine, Down, Early,
        Tunnelled
  <2>2. Flags'
    BY <1>0, <1>15, Zenon
    DEF ConnClose, Flags, routing, config, devices, engine
  <2>3. EngineInv'
    BY <1>15
    DEF Inv, ConnClose, At, EngineInv, Loops, routing, config,
        devices, engine, Down, Early, Tunnelled
  <2>4. UserInv' /\ MineInv'
    BY <1>15
    DEF Inv, ConnClose, UserInv, MineInv, routing, config, devices, engine
  <2>5. ExceptionInv' /\ TunnelInv'
    BY <1>15
    DEF Inv, ConnClose, At, ExceptionInv, TunnelInv, routing, config,
        devices, engine, Early, Tunnelled
  <2>6. PinnedInv' /\ CleanedInv'
    BY <1>15
    DEF Inv, ConnClose, At, PinnedInv, CleanedInv, routing, config, devices,
        engine, Tunnelled
  <2>7. CapturedInv'
    BY <1>15
    DEF Inv, ConnClose, At, CapturedInv, routing, config, devices, engine,
        Tunnelled
  <2> QED
    BY <2>1, <2>2, <2>3, <2>4, <2>5, <2>6, <2>7, TypePartsNext DEF Inv
<1>16. ASSUME TunClose PROVE Inv'
  <2>1. Data'
    BY <1>0, <1>16
    DEF TunClose, At, Data, Down, Early, Tunnelled, FlushRoutes, routing,
        config, devices, engine
  <2>2. Flags'
    BY <1>0, <1>16, Zenon
    DEF TunClose, Flags, routing, config, devices, engine
  <2>3. EngineInv'
    BY <1>16
    DEF Inv, TunClose, At, EngineInv, Down, Early, Tunnelled,
        routing, config, devices, engine
  <2>4. UserInv'
    BY <1>16
    DEF Inv, TunClose, At, UserInv, FlushRoutes, routing, config, devices,
        engine
  <2>5. ExceptionInv' /\ MineInv'
    BY <1>16
    DEF Inv, TunClose, At, ExceptionInv, MineInv, Early, FlushRoutes,
        routing, config, devices, engine
  <2>6. TunnelInv'
    BY <1>16
    DEF Inv, TunClose, At, TunnelInv, Tunnelled, FlushRoutes, routing,
        config, devices, engine
  <2>7. PinnedInv'
    BY <1>16
    DEF Inv, TunClose, At, PinnedInv, Tunnelled, ExceptionInv, FlushRoutes,
        routing, config, devices, engine
  <2>8. CleanedInv'
    BY <1>16
    DEF Inv, TunClose, At, CleanedInv, FlushRoutes, routing, config, devices,
        engine
  <2>9. CapturedInv'
    BY <1>16
    DEF Inv, TunClose, At, CapturedInv, Tunnelled, FlushRoutes, routing,
        config, devices, engine
  <2> QED
    BY <2>1, <2>2, <2>3, <2>4, <2>5, <2>6, <2>7, <2>8, <2>9, TypePartsNext
    DEF Inv
<1>17. ASSUME EngineWait PROVE Inv'
  <2>1. Data'
    BY <1>0, <1>17
    DEF EngineWait, At, Data, routing, config, devices, engine, Down, Early,
        Tunnelled
  <2>2. Flags'
    BY <1>0, <1>17, Zenon
    DEF EngineWait, Flags, routing, config, devices, engine
  <2>3. EngineInv'
    BY <1>17
    DEF Inv, EngineWait, At, EngineInv, Loops, routing, config,
        devices, engine, Down, Early, Tunnelled
  <2>4. UserInv' /\ MineInv'
    BY <1>17
    DEF Inv, EngineWait, UserInv, MineInv, routing, config, devices, engine
  <2>5. ExceptionInv' /\ TunnelInv'
    BY <1>17
    DEF Inv, EngineWait, At, ExceptionInv, TunnelInv, routing, config,
        devices, engine, Early, Tunnelled
  <2>6. PinnedInv' /\ CleanedInv'
    BY <1>17
    DEF Inv, EngineWait, At, PinnedInv, CleanedInv, routing, config, devices,
        engine, Tunnelled
  <2>7. CapturedInv'
    BY <1>17
    DEF Inv, EngineWait, At, CapturedInv, routing, config, devices, engine,
        Tunnelled
  <2> QED
    BY <2>1, <2>2, <2>3, <2>4, <2>5, <2>6, <2>7, TypePartsNext DEF Inv
<1>18. ASSUME Cleanup PROVE Inv'
  <2>1. Data'
    BY <1>0, <1>18
    DEF Cleanup, At, Data, Down, Early, Tunnelled, FlushRoutes, routing,
        config, devices, engine
  <2>2. Flags'
    BY <1>0, <1>18, Zenon DEF Cleanup, Flags, routing, config, devices, engine
  <2>3. EngineInv'
    BY <1>18
    DEF Inv, Cleanup, At, EngineInv, Down, Early, Tunnelled,
        routing, config, devices, engine
  <2>4. UserInv'
    BY <1>18
    DEF Inv, Cleanup, At, UserInv, FlushRoutes, routing, config, devices,
        engine
  <2>5. ExceptionInv' /\ MineInv'
    BY <1>18
    DEF Inv, Cleanup, At, ExceptionInv, MineInv, Early, FlushRoutes, routing,
        config, devices, engine
  <2>6. TunnelInv'
    BY <1>18
    DEF Inv, Cleanup, At, TunnelInv, Tunnelled, FlushRoutes, routing, config,
        devices, engine
  <2>7. PinnedInv'
    BY <1>18
    DEF Inv, Cleanup, At, PinnedInv, Tunnelled, FlushRoutes, routing, config,
        devices, engine
  <2>8. CleanedInv'
    BY <1>18
    DEF Inv, Cleanup, At, CleanedInv, FlushRoutes, routing, config, devices,
        engine
  <2>9. CapturedInv'
    BY <1>18
    DEF Inv, Cleanup, At, CapturedInv, Tunnelled, FlushRoutes, routing,
        config, devices, engine
  <2> QED
    BY <2>1, <2>2, <2>3, <2>4, <2>5, <2>6, <2>7, <2>8, <2>9, TypePartsNext
    DEF Inv
<1>19. ASSUME Return PROVE Inv'
  <2>1. table \cap exception = {} /\ "returned" \in Down
    BY <1>19 DEF Inv, Return, CleanedInv, Down
  <2> QED
    BY <1>19, <2>1, ProcessEndsInv DEF Return
<1>20. ASSUME Fatal PROVE Inv'
  <2>1. "fatal" \in Down
    BY DEF Down
  <2> QED
    BY <1>20, <2>1, ProcessEndsInv DEF Fatal
<1>21. ASSUME Select PROVE Inv'
  <2>1. Data'
    BY <1>0, <1>21
    DEF Select, Data, routing, config, devices, engine, Down, Early, Tunnelled
  <2>2. Flags'
    BY <1>0, <1>21, Zenon DEF Select, Flags, routing, config, devices, engine
  <2>3. EngineInv'
    BY <1>21
    DEF Inv, Select, EngineInv, Loops, routing, config, devices,
        engine, Down, Early, Tunnelled
  <2>4. UserInv' /\ MineInv'
    BY <1>21
    DEF Inv, Select, UserInv, MineInv, routing, config, devices, engine
  <2>5. ExceptionInv' /\ TunnelInv'
    BY <1>21
    DEF Inv, Select, ExceptionInv, TunnelInv, routing, config, devices,
        engine, Early, Tunnelled
  <2>6. PinnedInv' /\ CleanedInv'
    BY <1>21
    DEF Inv, Select, PinnedInv, CleanedInv, routing, config, devices, engine,
        Tunnelled
  <2>7. CapturedInv'
    BY <1>21
    DEF Inv, Select, CapturedInv, routing, config, devices, engine, Tunnelled
  <2> QED
    BY <2>1, <2>2, <2>3, <2>4, <2>5, <2>6, <2>7, TypePartsNext DEF Inv
<1>22. ASSUME Interrupted PROVE Inv'
  <2>1. "killed" \in Down
    BY DEF Down
  <2> QED
    BY <1>22, <2>1, ProcessEndsInv DEF Interrupted
<1>23. ASSUME NEW l \in Loops, LoopError(l) PROVE Inv'
  <2>1. Data'
    BY <1>0, <1>23
    DEF LoopError, Data, routing, config, devices, engine, Down, Early,
        Tunnelled
  <2>2. Flags'
    BY <1>0, <1>23, Zenon
    DEF LoopError, Flags, routing, config, devices, engine
  <2>3. EngineInv'
    <3>1. /\ l \in loops /\ loops' # Loops
          /\ errs' = errs + 1 /\ loops' = loops \ {l}
      BY <1>23 DEF LoopError
    <3>2. loops' # {} => loops = Loops
      BY <3>1 DEF Inv, EngineInv, Loops
    <3>3. pc' = pc /\ devices' = devices
      BY <1>23 DEF LoopError
    <3> QED
      BY <3>1, <3>2, <3>3 DEF Inv, EngineInv, devices
  <2>4. UserInv' /\ MineInv'
    BY <1>23
    DEF Inv, LoopError, UserInv, MineInv, routing, config, devices, engine
  <2>5. ExceptionInv' /\ TunnelInv'
    BY <1>23
    DEF Inv, LoopError, ExceptionInv, TunnelInv, routing, config, devices,
        engine, Early, Tunnelled
  <2>6. PinnedInv' /\ CleanedInv'
    BY <1>23
    DEF Inv, LoopError, PinnedInv, CleanedInv, routing, config, devices,
        engine, Tunnelled
  <2>7. CapturedInv'
    BY <1>23
    DEF Inv, LoopError, CapturedInv, routing, config, devices, engine,
        Tunnelled
  <2> QED
    BY <2>1, <2>2, <2>3, <2>4, <2>5, <2>6, <2>7, TypePartsNext DEF Inv
<1>24. ASSUME NEW l \in Loops, LoopReturns(l) PROVE Inv'
  <2>1. Data'
    BY <1>0, <1>24
    DEF LoopReturns, Data, routing, config, devices, engine, Down, Early,
        Tunnelled
  <2>2. Flags'
    BY <1>0, <1>24, Zenon
    DEF LoopReturns, Flags, routing, config, devices, engine
  <2>3. EngineInv'
    BY <1>24
    DEF Inv, LoopReturns, EngineInv, Loops, routing, config,
        devices, engine, Down, Early, Tunnelled
  <2>4. UserInv' /\ MineInv'
    BY <1>24
    DEF Inv, LoopReturns, UserInv, MineInv, routing, config, devices, engine
  <2>5. ExceptionInv' /\ TunnelInv'
    BY <1>24
    DEF Inv, LoopReturns, ExceptionInv, TunnelInv, routing, config, devices,
        engine, Early, Tunnelled
  <2>6. PinnedInv' /\ CleanedInv'
    BY <1>24
    DEF Inv, LoopReturns, PinnedInv, CleanedInv, routing, config, devices,
        engine, Tunnelled
  <2>7. CapturedInv'
    BY <1>24
    DEF Inv, LoopReturns, CapturedInv, routing, config, devices, engine,
        Tunnelled
  <2> QED
    BY <2>1, <2>2, <2>3, <2>4, <2>5, <2>6, <2>7, TypePartsNext DEF Inv
<1>25. ASSUME NEW l \in Phys, InterfaceDown(l) PROVE Inv'
  <2>1. Data'
    BY <1>0, <1>25
    DEF InterfaceDown, Data, Down, Early, Tunnelled, FlushRoutes, routing,
        config, devices, engine
  <2>2. Flags'
    BY <1>0, <1>25, Zenon
    DEF InterfaceDown, Flags, routing, config, devices, engine
  <2>3. EngineInv'
    BY <1>25
    DEF Inv, InterfaceDown, EngineInv, Down, Early, Tunnelled,
        routing, config, devices, engine
  <2>4. UserInv'
    BY <1>25
    DEF Inv, InterfaceDown, UserInv, FlushRoutes, routing, config, devices,
        engine
  <2>5. ExceptionInv' /\ MineInv'
    BY <1>25
    DEF Inv, InterfaceDown, ExceptionInv, MineInv, Early, FlushRoutes,
        routing, config, devices, engine
  <2>6. TunnelInv'
    BY <1>25
    DEF Inv, InterfaceDown, TunnelInv, Tunnelled, FlushRoutes, routing,
        config, devices, engine
  <2>7. PinnedInv'
    BY <1>25
    DEF Inv, InterfaceDown, PinnedInv, Tunnelled, FlushRoutes, routing,
        config, devices, engine
  <2>8. CleanedInv'
    BY <1>25
    DEF Inv, InterfaceDown, CleanedInv, FlushRoutes, routing, config,
        devices, engine
  <2>9. CapturedInv'
    BY <1>25
    DEF Inv, InterfaceDown, CapturedInv, Tunnelled, FlushRoutes, Row,
        routing, config, devices, engine
  <2> QED
    BY <2>1, <2>2, <2>3, <2>4, <2>5, <2>6, <2>7, <2>8, <2>9, TypePartsNext
    DEF Inv
<1>26. ASSUME NEW l \in Phys, NEW g \in Gateways, GatewayMoves(l, g) PROVE Inv'
  <2> DEFINE old == {r \in user : r.luid = l /\ r.dst = Default}
             new == Row(Default, l, g, 0)
  <2>0. new \in Route /\ new.luid = l /\ new.dst = Default
    BY DefaultIsAll DEF Row, Route
  <2>a. /\ user' = (user \ old) \cup {new}
        /\ table' = (table \ old) \cup {new}
    BY <1>26 DEF GatewayMoves
  <2>b. new \notin exception
    BY <1>0, <2>0, HostIsShortest DEF Inv, ExceptionInv, Data
  <2>c. old \subseteq user
    OBVIOUS
  <2> HIDE DEF old, new
  <2>1. Data'
    BY <1>0, <1>26, <2>0, <2>a, <2>b, <2>c
    DEF GatewayMoves, Data, Down, Early, Tunnelled, routing, config, devices,
        engine
  <2>2. Flags'
    BY <1>0, <1>26, Zenon
    DEF GatewayMoves, Flags, routing, config, devices, engine
  <2>3. EngineInv'
    BY <1>26
    DEF Inv, GatewayMoves, EngineInv, Down, Early, Tunnelled,
        routing, config, devices, engine
  <2>4. UserInv'
    BY <1>26, <2>0, <2>a, <2>b, <2>c
    DEF Inv, GatewayMoves, UserInv, routing, config, devices, engine
  <2>5. ExceptionInv' /\ MineInv'
    BY <1>26, <2>0, <2>a, <2>b, <2>c
    DEF Inv, GatewayMoves, ExceptionInv, MineInv, Early, routing, config,
        devices, engine
  <2>6. TunnelInv'
    BY <1>26, <2>0, <2>a, <2>b, <2>c
    DEF Inv, GatewayMoves, TunnelInv, Tunnelled, routing, config, devices,
        engine
  <2>7. PinnedInv'
    BY <1>26, <2>0, <2>a, <2>b, <2>c
    DEF Inv, GatewayMoves, PinnedInv, Tunnelled, UserInv, routing, config,
        devices, engine
  <2>8. CleanedInv'
    BY <1>26, <2>0, <2>a, <2>b, <2>c
    DEF Inv, GatewayMoves, CleanedInv, routing, config, devices, engine
  <2>9. CapturedInv'
    BY <1>26, <2>0, <2>a, <2>b, <2>c
    DEF Inv, GatewayMoves, CapturedInv, Tunnelled, UserInv, Row, routing,
        config, devices, engine
  <2> QED
    BY <2>1, <2>2, <2>3, <2>4, <2>5, <2>6, <2>7, <2>8, <2>9, TypePartsNext
    DEF Inv
<1>27. ASSUME UNCHANGED vars PROVE Inv'
  <2>1. Data' /\ EngineInv' /\ UserInv' /\ ExceptionInv'
    BY <1>0, <1>27
    DEF Inv, vars, Data, EngineInv, UserInv, ExceptionInv, routing,
        config, devices, engine
  <2>2. Flags'
    BY <1>0, <1>27, Zenon DEF vars, Flags, routing, config, devices, engine
  <2>3. MineInv' /\ TunnelInv' /\ PinnedInv' /\ CleanedInv' /\ CapturedInv'
    BY <1>27
    DEF Inv, vars, MineInv, TunnelInv, PinnedInv, CleanedInv, CapturedInv,
        routing, config, devices, engine
  <2> QED
    BY <2>1, <2>2, <2>3, TypePartsNext DEF Inv
<1> QED
  BY <1>1, <1>2, <1>3, <1>4, <1>5, <1>6, <1>7, <1>8, <1>9, <1>10, <1>11,
     <1>12, <1>13, <1>14, <1>15, <1>16, <1>17, <1>18, <1>19, <1>20, <1>21,
     <1>22, <1>23, <1>24, <1>25, <1>26, <1>27
  DEF Next, Main

(* Inv holds in every reachable state.                                     *)
LEMMA InvHolds == Spec => []Inv
BY InitInv, StepInv, PTL DEF Spec

(* The variables of the client have their types, for any configurations.   *)
THEOREM TypeCorrect == Spec => []TypeOK
<1>1. Inv => TypeOK
  BY DEF Inv
<1> QED
  BY <1>1, InvHolds, PTL

(* No step of ConfigureRouting, of its cleanup or of the adapter's Close   *)
(* deletes a row of the machine's own: the exception main deletes is one   *)
(* this run added, for AddRoute refuses a key that is already there.       *)
THEOREM MachineRoutesKept == Spec => []UserRoutesKept
<1>1. Inv => UserRoutesKept
  BY DEF Inv, UserInv, UserRoutesKept
<1> QED
  BY <1>1, InvHolds, PTL

-----------------------------------------------------------------------------
(* What the runs of the client leave.                                      *)

(* The rows of the physical interfaces that are not the machine's own, and *)
(* those of them that are not this run's.                                  *)
Strays == {r \in table \ user : r.luid # Tun}
Old    == Strays \ exception

(* A stray is a host route to a server; a run adds at most one, so earlier *)
(* runs have left at most one each.                                        *)
LeftInv ==
  /\ server \subseteq Servers
  /\ \A q, r \in exception : q = r
  /\ \A r \in Strays : \E a \in Servers : r.dst = Host(a)
  /\ IsFiniteSet(Old)
  /\ IF pc = "exited" THEN Strays = {} ELSE Cardinality(Old) <= runs - 1

(* With the exception of this run there is at most one for each run.       *)
LEMMA StraysCount ==
  ASSUME LeftInv, runs \in Nat
  PROVE  IsFiniteSet(Strays) /\ Cardinality(Strays) <= runs
<1>0. Cardinality(Old) \in Nat
  BY FS_CardinalityType DEF LeftInv
<1>1. CASE pc = "exited"
  BY <1>1, FS_EmptySet DEF LeftInv
<1>2. CASE pc # "exited" /\ exception = {}
  BY <1>0, <1>2 DEF LeftInv, Old
<1>3. CASE pc # "exited" /\ exception # {}
  <2>1. PICK e : exception = {e}
    BY <1>3 DEF LeftInv
  <2>2. Strays \in SUBSET (Old \cup {e})
    BY <2>1 DEF Old
  <2>3. IsFiniteSet(Old \cup {e}) /\ Cardinality(Old \cup {e}) <= runs
    <3>1. IsFiniteSet(Old) /\ Cardinality(Old) <= runs - 1
      BY <1>3 DEF LeftInv
    <3>2. /\ IsFiniteSet(Old \cup {e})
          /\ \/ Cardinality(Old \cup {e}) = Cardinality(Old)
             \/ Cardinality(Old \cup {e}) = Cardinality(Old) + 1
      BY <3>1, FS_AddElement
    <3> QED
      BY <1>0, <3>1, <3>2
  <2>4. IsFiniteSet(Strays) /\ Cardinality(Strays) <= Cardinality(Old \cup {e})
    BY <2>2, <2>3, FS_Subset
  <2> QED
    BY <2>3, <2>4, FS_CardinalityType
<1> QED
  BY <1>1, <1>2, <1>3

(* A step that adds no stray, and neither starts a run nor adds an         *)
(* exception, preserves LeftInv.                                           *)
LEMMA QuietKeeps ==
  ASSUME LeftInv, runs \in Nat, Strays' \subseteq Strays,
         exception' = exception, runs' = runs, server' \subseteq Servers,
         pc' = "exited" <=> pc = "exited"
  PROVE  LeftInv'
<1>1. Old' \in SUBSET Old
  BY DEF Old
<1>2. IsFiniteSet(Old') /\ Cardinality(Old') <= Cardinality(Old)
  BY <1>1, FS_Subset DEF LeftInv
<1>3. Cardinality(Old) \in Nat /\ Cardinality(Old') \in Nat
  BY <1>2, FS_CardinalityType DEF LeftInv
<1> QED
  BY <1>2, <1>3 DEF LeftInv

(* So does adding an exception to the server, or none.                     *)
LEMMA ExceptionKeeps ==
  ASSUME Inv, LeftInv, runs \in Nat, At("resolved", "pinned"),
         NEW added, NEW warning, ExceptionDone(added, warning),
         \A q, r \in added : q = r,
         \A r \in added : \E a \in server : r.dst = Host(a)
  PROVE  LeftInv'
<1>1. exception = {} /\ exception' = added /\ Old = Strays
  BY DEF Inv, ExceptionInv, Early, At, ExceptionDone, Old
<1>2. Strays' \subseteq Strays \cup added /\ runs' = runs /\ server' = server
  BY DEF ExceptionDone, Strays
<1>3. Old' \in SUBSET Old
  BY <1>1, <1>2 DEF Old
<1>4. IsFiniteSet(Old') /\ Cardinality(Old') <= Cardinality(Old)
  BY <1>3, FS_Subset DEF LeftInv
<1>5. Cardinality(Old) \in Nat /\ Cardinality(Old') \in Nat
  BY <1>4, FS_CardinalityType DEF LeftInv
<1>6. pc # "exited" /\ pc' # "exited"
  BY DEF At
<1> QED
  BY <1>1, <1>2, <1>4, <1>5, <1>6 DEF LeftInv

(* resolveEndpoint returns an endpoint of a configuration.                 *)
LEMMA ServerIsConfigured ==
  ASSUME NEW c \in Configs \cup {<<>>}, NEW answered \in SUBSET DOMAIN c
  PROVE  ResolveEndpoint(c, answered) \subseteq Servers
<1> DEFINE have == {i \in answered : c[i].endpoint # {}}
           first == CHOOSE i \in have : \A j \in have : i <= j
<1>1. CASE have = {}
  BY <1>1 DEF ResolveEndpoint
<1>2. CASE have # {}
  <2>1. c \in Configs
    BY <1>2
  <2>2. c \in Seq(Peer) /\ have \subseteq Nat /\ have \subseteq DOMAIN c
    BY <2>1, ClientAssumption
  <2>3. \E i \in have : \A j \in have : ~ (<<j, i>> \in OpToRel(<, Nat))
    BY <1>2, <2>2, WFMin, NatLessThanWellFounded
  <2>4. \A i, j \in Nat : ~ (<<j, i>> \in OpToRel(<, Nat)) => i <= j
    BY DEF OpToRel
  <2> HIDE DEF have
  <2>5. \E i \in have : \A j \in have : i <= j
    BY <2>2, <2>3, <2>4
  <2>6. first \in DOMAIN c
    BY <2>2, <2>5
  <2>7. ResolveEndpoint(c, answered) = c[first].endpoint
    BY <1>2 DEF ResolveEndpoint, have
  <2> HIDE DEF first
  <2> QED
    BY <2>1, <2>6, <2>7 DEF Servers
<1> QED
  BY <1>1, <1>2

(* Every step preserves LeftInv.                                           *)
LEMMA StepLeft == Inv /\ LeftInv /\ [Next]_vars => LeftInv'
<1> SUFFICES ASSUME Inv, LeftInv, [Next]_vars PROVE LeftInv'
  OBVIOUS
<1>0. Data /\ runs \in Nat
  BY TypeParts DEF Inv, Data
<1> DEFINE Calm == /\ Strays' \subseteq Strays /\ exception' = exception
                   /\ runs' = runs /\ server' = server
                   /\ pc' = "exited" <=> pc = "exited"
<1>a. Calm => LeftInv'
  BY <1>0, QuietKeeps DEF LeftInv
<1>1. ASSUME NEW c \in Configs, LoadConfig(c) PROVE LeftInv'
  <2>1. /\ Old' = Strays /\ Strays' = Strays /\ runs' = runs + 1
        /\ server' = {} /\ exception' = {} /\ pc' = "loaded"
    BY <1>1 DEF LoadConfig, Old, Strays
  <2> QED
    BY <1>0, <2>1, StraysCount DEF LeftInv
<1>2. ASSUME NEW answered \in SUBSET DOMAIN cfg, Resolve(answered)
      PROVE  LeftInv'
  <2>1. server' \subseteq Servers
    BY <1>0, <1>2, ServerIsConfigured DEF Resolve, Data
  <2> QED
    BY <1>0, <1>2, <2>1, QuietKeeps DEF Resolve, At, Strays
<1>3. ASSUME AddException PROVE LeftInv'
  <2>1. PICK r \in DefaultRoutes(table, Tun), a \in server :
          ExceptionDone({Row(Host(a), r.luid, r.hop, 0)}, FALSE)
    BY <1>3 DEF AddException
  <2>2. \A q \in {Row(Host(a), r.luid, r.hop, 0)} : q.dst = Host(a)
    BY DEF Row
  <2> QED
    BY <1>0, <1>3, <2>1, <2>2, ExceptionKeeps DEF AddException
<1>4. ASSUME ExceptionFails \/ NoServer PROVE LeftInv'
  <2>1. PICK warning \in BOOLEAN : ExceptionDone({}, warning)
    BY <1>4 DEF ExceptionFails, NoServer
  <2> QED
    BY <1>0, <1>4, <2>1, ExceptionKeeps DEF ExceptionFails, NoServer
<1>5. ASSUME NewTunDevice PROVE LeftInv'
  BY <1>5, <1>a DEF NewTunDevice, At, Strays, routing, config, devices, engine
<1>6. ASSUME BindUDP PROVE LeftInv'
  BY <1>6, <1>a DEF BindUDP, At, Strays, routing, config, devices, engine
<1>7. ASSUME SetAddress PROVE LeftInv'
  BY <1>7, <1>a DEF SetAddress, At, Strays, routing, config, devices, engine
<1>8. ASSUME NEW p \in todo, AddTunnelRoute(p) PROVE LeftInv'
  BY <1>8, <1>a
  DEF AddTunnelRoute, Row, Strays, routing, config, devices, engine
<1>9. ASSUME NEW p \in todo, TunnelRouteFails(p) PROVE LeftInv'
  BY <1>9, <1>a DEF TunnelRouteFails, Strays, routing, config, devices, engine
<1>10. ASSUME NEW set \in BOOLEAN, SetDNS(set) PROVE LeftInv'
  BY <1>10, <1>a DEF SetDNS, At, Strays, routing, config, devices, engine
<1>11. ASSUME EngineRun PROVE LeftInv'
  BY <1>11, <1>a DEF EngineRun, At, Strays, routing, config, devices, engine
<1>12. ASSUME Notify PROVE LeftInv'
  BY <1>12, <1>a DEF Notify, At, Strays, routing, config, devices, engine
<1>13. ASSUME EngineClose PROVE LeftInv'
  BY <1>13, <1>a DEF EngineClose, At, Strays, routing, config, devices, engine
<1>14. ASSUME ConnClose PROVE LeftInv'
  BY <1>14, <1>a DEF ConnClose, At, Strays, routing, config, devices, engine
<1>15. ASSUME TunClose PROVE LeftInv'
  BY <1>15, <1>a
  DEF TunClose, At, FlushRoutes, Strays, routing, config, devices, engine
<1>16. ASSUME EngineWait PROVE LeftInv'
  BY <1>16, <1>a DEF EngineWait, At, Strays, routing, config, devices, engine
<1>17. ASSUME Cleanup PROVE LeftInv'
  BY <1>17, <1>a
  DEF Cleanup, At, FlushRoutes, Strays, routing, config, devices, engine
<1>18. ASSUME Return PROVE LeftInv'
  BY <1>18, <1>a
  DEF Return, ProcessEnds, FlushRoutes, Strays, routing, config, devices,
      engine
<1>19. ASSUME Fatal PROVE LeftInv'
  BY <1>19, <1>a
  DEF Fatal, ProcessEnds, FlushRoutes, Strays, routing, config, devices, engine
<1>20. ASSUME Interrupted PROVE LeftInv'
  BY <1>20, <1>a
  DEF Interrupted, ProcessEnds, FlushRoutes, Strays, routing, config, devices,
      engine
<1>21. ASSUME Select PROVE LeftInv'
  BY <1>21, <1>a DEF Select, Strays, routing, config, devices, engine
<1>22. ASSUME NEW l \in Loops, LoopError(l) PROVE LeftInv'
  BY <1>22, <1>a DEF LoopError, Strays, routing, config, devices, engine
<1>23. ASSUME NEW l \in Loops, LoopReturns(l) PROVE LeftInv'
  BY <1>23, <1>a DEF LoopReturns, Strays, routing, config, devices, engine
<1>24. ASSUME NEW l \in Phys, InterfaceDown(l) PROVE LeftInv'
  BY <1>24, <1>a
  DEF InterfaceDown, FlushRoutes, Strays, routing, config, devices, engine
<1>25. ASSUME NEW l \in Phys, NEW g \in Gateways, GatewayMoves(l, g)
       PROVE  LeftInv'
  BY <1>25, <1>a DEF GatewayMoves, Strays, routing, config, devices, engine
<1>26. ASSUME UNCHANGED vars PROVE LeftInv'
  BY <1>26, <1>a DEF vars, Strays, routing, config, devices, engine
<1> QED
  BY <1>1, <1>2, <1>3, <1>4, <1>5, <1>6, <1>7, <1>8, <1>9, <1>10, <1>11, <1>12,
     <1>13, <1>14, <1>15, <1>16, <1>17, <1>18, <1>19, <1>20, <1>21, <1>22,
     <1>23, <1>24, <1>25, <1>26
  DEF Next, Main

(* However the runs of the client end, only exceptions are left, at most   *)
(* one for each run and none of a run that returned.                       *)
THEOREM LeavesOnlyExceptions == Spec => []OnlyExceptionsLeft
<1>1. Init => LeftInv
  <2> SUFFICES ASSUME Init PROVE LeftInv
    OBVIOUS
  <2>1. Strays = {} /\ Old = {} /\ server = {} /\ exception = {}
    BY DEF Init, Strays, Old
  <2> QED
    BY <2>1, FS_EmptySet DEF Init, LeftInv
<1>2. Inv /\ LeftInv => OnlyExceptionsLeft
  <2> SUFFICES ASSUME Inv, LeftInv, pc \in Down PROVE OnlyExceptionsLeft
    BY DEF OnlyExceptionsLeft, Down
  <2>0. runs \in Nat
    BY TypeParts DEF Inv, Data
  <2>1. \A r \in table : r.luid # Tun
    BY DEF Inv, TunnelInv, Tunnelled, Down
  <2>2. table \ user = Strays
    BY <2>1 DEF Strays
  <2>3. \A r \in table \ user :
          r.luid # Tun /\ \E a \in Servers : r.dst = Host(a)
    BY <2>1, <2>2 DEF LeftInv
  <2>4. CASE pc = "returned"
    <3>1. table \cap exception = {} /\ Old = Strays
      BY <2>4 DEF Inv, CleanedInv, Old, Strays
    <3>2. table \cap mine = {}
      BY <2>1, <3>1 DEF Inv, MineInv
    <3>3. Cardinality(table \ user) <= runs - 1
      BY <2>2, <2>4, <3>1 DEF LeftInv
    <3> QED
      BY <2>3, <2>4, <3>2, <3>3 DEF OnlyExceptionsLeft
  <2>5. CASE pc # "returned"
    BY <2>0, <2>2, <2>3, <2>5, StraysCount DEF OnlyExceptionsLeft
  <2> QED
    BY <2>4, <2>5
<1>3. Inv /\ LeftInv /\ [Next]_vars => LeftInv'
  BY StepLeft
<1> QED
  BY <1>1, <1>2, <1>3, InvHolds, PTL DEF Spec

-----------------------------------------------------------------------------
(* The client's own packets to the server it pinned never enter its tunnel *)
(* while nothing was warned of and no interface went down: the exception   *)
(* covers that one address, so no row of the tunnel is longer, and the two *)
(* halves of the default have more than one address each.                  *)
THEOREM OwnPacketsLeave == Spec => []NoRoutingLoop
<1>1. Inv => NoRoutingLoop
  <2> SUFFICES ASSUME Inv, NEW a \in server, ~warned, ~lost,
                      Host(a) \notin AllowedIPs(cfg),
                      NEW r \in Lookup(table, a), r.luid = Tun
               PROVE  FALSE
    BY DEF NoRoutingLoop
  <2>0. Data
    BY TypeParts DEF Inv
  <2>1. r \in table /\ a \in r.dst
    BY DEF Lookup
  <2>2. pc \in Tunnelled /\ r.dst \in TunnelPrefixes(cfg)
    BY <2>1 DEF Inv, TunnelInv
  <2>3. PICK e \in exception : e \in table
    BY <2>2 DEF Inv, PinnedInv
  <2>4. e.dst = Host(a) /\ Host(a) = {a}
    BY <2>0, HostIsOne DEF Inv, ExceptionInv, Data
  <2>5. \/ r.dst \subseteq e.dst /\ r.dst # e.dst
        \/ r.dst = e.dst
    BY <2>3, <2>4 DEF Lookup
  <2>6. r.dst = Host(a)
    BY <2>1, <2>4, <2>5
  <2> QED
    BY <2>0, <2>2, <2>6, TunnelPrefixesTyped DEF Data
<1> QED
  BY <1>1, InvHolds, PTL

(* A full tunnel takes every address that no longer route covers: without  *)
(* a warning both halves have their rows when addTunnelRoutes is done, and *)
(* the halves together cover every address.                                *)
THEOREM TunnelTakesAll == Spec => []FullTunnelCaptures
<1>1. Inv => FullTunnelCaptures
  <2> DEFINE halves == {Prefix(0, 1), Prefix(2^(W - 1), 1)}
  <2> SUFFICES ASSUME Inv, pc = "running", ~warned,
                      Default \in AllowedIPs(cfg), NEW a \in Addrs,
                      NEW r \in Lookup(table, a)
               PROVE  \E h \in halves :
                        r.dst \subseteq h /\ (r.dst = h => r.metric = 0)
    BY DEF FullTunnelCaptures
  <2>1. PICK h \in halves : a \in h
    BY HalvesCover
  <2>2. h \in TunnelPrefixes(cfg)
    BY DEF TunnelPrefixes
  <2> DEFINE q == Row(h, Tun, OnLink, 0)
  <2>3. q \in table
    BY <2>2 DEF Inv, CapturedInv, Tunnelled
  <2>4. q.dst = h /\ q.metric = 0
    BY DEF Row
  <2>5. r \in Route
    BY TypeParts DEF Inv, Data, Lookup
  <2>6. r.metric \in Nat
    BY <2>5 DEF Route
  <2> HIDE DEF q, halves
  <2>7. \/ r.dst \subseteq q.dst /\ r.dst # q.dst
        \/ r.dst = q.dst /\ r.metric <= q.metric
    BY <2>1, <2>3, <2>4 DEF Lookup
  <2> QED
    BY <2>4, <2>6, <2>7
<1> QED
  BY <1>1, InvHolds, PTL
=============================================================================
