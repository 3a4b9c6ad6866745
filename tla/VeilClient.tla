----------------------------- MODULE VeilClient -----------------------------
(***************************************************************************)
(* The standalone client (cmd/veil-client): main brings the adapter, the   *)
(* socket, the routes and the engine up in order, waits for a signal or an *)
(* error of the engine, and shuts down.  log.Fatalf and a signal that      *)
(* arrives before signal.Notify end the process without the deferred       *)
(* calls.  The system removes the adapter, its routes and its DNS servers  *)
(* with the process; rows of the physical interfaces stay.                 *)
(***************************************************************************)
EXTENDS Routing

CONSTANTS
  Configs,   \* the configurations a run may load
  Tables,    \* the route tables of the machine before the first run
  MaxRuns    \* bound: how many times the client is started

ASSUME ClientAssumption ==
  /\ Configs \subseteq Seq(Peer)
  /\ Tables \subseteq SUBSET [dst : Prefixes, luid : Phys, hop : Gateways,
                              metric : Nat]
  /\ MaxRuns \in Nat

Loops == {"udp", "tun"}

VARIABLES
  pc,         \* the last call main completed
  runs,       \* runs started
  table,      \* the route table
  user,       \* the rows of it that are the machine's own
  cfg,        \* the configuration of this run
  server,     \* what resolveEndpoint returned: {} or {address}
  exception,  \* exceptionLUID, Hop and Prefix: the row added, if any
  todo,       \* the prefixes addTunnelRoutes has yet to add
  mine,       \* the rows this run added
  warned,     \* a warning was logged, or a lookup of an endpoint failed
  lost,       \* an interface went down since defaultRoute chose one
  adapter, conn, dns,  \* the adapter exists, the socket is open, DNS is set
  engClosed,  \* Engine.Close was called
  loops,      \* the engine's goroutines that run
  errs        \* errors in errChan

routing == <<table, user, exception, mine, warned, lost>>
config  == <<cfg, server, todo>>
devices == <<adapter, conn, dns>>
engine  == <<engClosed, loops, errs>>
vars == <<pc, runs, routing, config, devices, engine>>

Init ==
  /\ pc = "exited" /\ runs = 0
  /\ table \in Tables /\ user = table
  /\ cfg = <<>> /\ server = {} /\ todo = {}
  /\ exception = {} /\ mine = {} /\ warned = FALSE /\ lost = FALSE
  /\ adapter = FALSE /\ conn = FALSE /\ dns = FALSE
  /\ engClosed = FALSE /\ loops = {} /\ errs = 0

At(from, to) == pc = from /\ pc' = to

(* The process is gone, and the system takes back what it held.            *)
ProcessEnds(label) ==
  /\ pc' = label
  /\ table' = FlushRoutes(table, Tun)
  /\ adapter' = FALSE /\ conn' = FALSE /\ dns' = FALSE
  /\ engClosed' = FALSE /\ loops' = {} /\ errs' = 0
  /\ UNCHANGED <<runs, user, exception, mine, warned, lost, config>>

-----------------------------------------------------------------------------
(* main, up to the engine.                                                 *)

(* LoadConfig succeeds; when it fails there is nothing to undo.            *)
LoadConfig(c) ==
  /\ pc \in {"exited", "returned", "fatal", "killed"} /\ runs < MaxRuns
  /\ pc' = "loaded" /\ runs' = runs + 1
  /\ cfg' = c /\ server' = {} /\ todo' = {}
  /\ exception' = {} /\ mine' = {} /\ warned' = FALSE /\ lost' = FALSE
  /\ UNCHANGED <<table, user, devices, engine>>

NewTunDevice ==
  /\ At("loaded", "adapter")
  /\ adapter' = TRUE
  /\ UNCHANGED <<runs, routing, config, conn, dns, engine>>

BindUDP ==
  /\ At("adapter", "bound")
  /\ conn' = TRUE
  /\ UNCHANGED <<runs, routing, config, adapter, dns, engine>>

(* ConfigureRouting up to the exception route: the address and the MTU.    *)
SetAddress ==
  /\ At("bound", "addressed")
  /\ UNCHANGED <<runs, routing, config, devices, engine>>

(* log.Fatalf: NewTunDevice, bindUDP, ConfigureRouting (only setting the   *)
(* address is an error of it) or engine.New failed.                        *)
Fatal ==
  /\ pc \in {"loaded", "adapter", "bound", "configured"}
  /\ ProcessEnds("fatal")

-----------------------------------------------------------------------------
(* The endpoint exception.  A failed lookup is not even logged.            *)
Resolve(answered) ==
  /\ At("addressed", "resolved")
  /\ server' = ResolveEndpoint(cfg, answered)
  /\ warned' = (answered # DOMAIN cfg)
  /\ UNCHANGED <<runs, table, user, exception, mine, lost, cfg, todo,
                 devices, engine>>

ExceptionDone(added, warning) ==
  /\ table' = table \cup added
  /\ mine' = mine \cup added
  /\ exception' = added
  /\ warned' = (warned \/ warning)
  /\ todo' = TunnelPrefixes(cfg)
  /\ lost' = FALSE
  /\ UNCHANGED <<runs, user, cfg, server, devices, engine>>

(* Mutant: the row is remembered though it was there before.              *)
AddExceptionTwice ==
  /\ At("resolved", "pinned")
  /\ \E r \in DefaultRoutes(table, Tun), a \in server :
       ExceptionDone({Row(Host(a), r.luid, r.hop, 0)}, FALSE)

(* Mutant: the exception is left for later.                                *)
AddExceptionNot ==
  /\ At("resolved", "pinned")
  /\ ExceptionDone({}, FALSE)

AddException ==
  /\ At("resolved", "pinned")
  /\ \E r \in DefaultRoutes(table, Tun), a \in server :
       /\ Matching(table, Host(a), r.luid, r.hop) = {}
       /\ ExceptionDone({Row(Host(a), r.luid, r.hop, 0)}, FALSE)

(* AddRoute fails: the row exists, or for a reason of the system's own.    *)
ExceptionFails ==
  /\ At("resolved", "pinned")
  /\ server # {}
  /\ ExceptionDone({}, TRUE)

NoServer ==
  /\ At("resolved", "pinned")
  /\ server = {}
  /\ ExceptionDone({}, FALSE)

-----------------------------------------------------------------------------
(* addTunnelRoutes, one AddRoute at a time, and SetDNS.                    *)

AddTunnelRoute(p) ==
  /\ pc = "pinned" /\ p \in todo
  /\ todo' = todo \ {p}
  /\ LET new == Row(p, Tun, OnLink, 0)
     IN  /\ table' = table \cup {new}
         /\ mine' = mine \cup {new}
  /\ UNCHANGED <<pc, runs, user, exception, warned, lost, cfg, server,
                 devices, engine>>

TunnelRouteFails(p) ==
  /\ pc = "pinned" /\ p \in todo
  /\ todo' = todo \ {p}
  /\ warned' = TRUE
  /\ UNCHANGED <<pc, runs, table, user, exception, mine, lost, cfg, server,
                 devices, engine>>

SetDNS(set) ==
  /\ At("pinned", "configured") /\ todo = {}
  /\ dns' = set
  /\ UNCHANGED <<runs, routing, config, adapter, conn, engine>>

-----------------------------------------------------------------------------
(* The engine.  A goroutine blocks in the adapter or in the socket: it     *)
(* returns with an error of its own, or once the engine and what it blocks *)
(* in are closed.  errChan has room for an error of each.                  *)

EngineRun ==
  /\ At("configured", "started")
  /\ loops' = Loops
  /\ UNCHANGED <<runs, routing, config, devices, engClosed, errs>>

(* signal.Notify: from here on a signal reaches the select.                *)
Notify ==
  /\ At("started", "running")
  /\ UNCHANGED <<runs, routing, config, devices, engine>>

LoopError(l) ==
  /\ l \in loops
  /\ loops' = loops \ {l} /\ errs' = errs + 1
  /\ UNCHANGED <<pc, runs, routing, config, devices, engClosed>>

Unblocked(l) == engClosed /\ (IF l = "udp" THEN ~conn ELSE ~adapter)

LoopReturns(l) ==
  /\ l \in loops /\ Unblocked(l)
  /\ loops' = loops \ {l}
  /\ UNCHANGED <<pc, runs, routing, config, devices, engClosed, errs>>

-----------------------------------------------------------------------------
(* Shutdown.                                                               *)

(* A signal, or an error from errChan.                                     *)
Select ==
  /\ pc = "running" /\ pc' = "stopping"
  /\ errs' \in {errs} \cup {errs - 1 : e \in 1 .. errs}
  /\ UNCHANGED <<runs, routing, config, devices, engClosed, loops>>

(* A signal before signal.Notify.                                          *)
Interrupted ==
  /\ pc \in {"loaded", "adapter", "bound", "addressed", "resolved", "pinned",
             "configured", "started"}
  /\ ProcessEnds("killed")

EngineClose ==
  /\ At("stopping", "engClosed")
  /\ engClosed' = TRUE
  /\ UNCHANGED <<runs, routing, config, devices, loops, errs>>

ConnClose ==
  /\ At("engClosed", "connClosed")
  /\ conn' = FALSE
  /\ UNCHANGED <<runs, routing, config, adapter, dns, engine>>

(* Mutant: the adapter is left to its deferred Close.                      *)
TunCloseDeferred ==
  /\ At("connClosed", "tunClosed")
  /\ UNCHANGED <<runs, routing, config, devices, engine>>

(* Closing the adapter takes its routes and DNS servers with it.           *)
TunClose ==
  /\ At("connClosed", "tunClosed")
  /\ adapter' = FALSE /\ dns' = FALSE
  /\ table' = FlushRoutes(table, Tun)
  /\ UNCHANGED <<runs, user, exception, mine, warned, lost, config, conn,
                 engine>>

EngineWait ==
  /\ At("tunClosed", "waited")
  /\ loops = {}
  /\ UNCHANGED <<runs, routing, config, devices, engine>>

(* Mutant: the exception route is not deleted.                             *)
CleanupKeepsException ==
  /\ At("waited", "cleaned")
  /\ table' = FlushRoutes(table, Tun)
  /\ dns' = FALSE
  /\ UNCHANGED <<runs, user, exception, mine, warned, lost, config, adapter,
                 conn, engine>>

(* The deferred cleanup of ConfigureRouting.                               *)
Cleanup ==
  /\ At("waited", "cleaned")
  /\ table' = FlushRoutes(table, Tun) \ exception
  /\ dns' = FALSE
  /\ UNCHANGED <<runs, user, exception, mine, warned, lost, config, adapter,
                 conn, engine>>

(* The deferred conn.Close and tunDev.Close find nothing to close.         *)
Return ==
  /\ pc = "cleaned"
  /\ ProcessEnds("returned")

-----------------------------------------------------------------------------
(* The machine: an interface gets a default route by gateway g, or goes    *)
(* down and takes its rows with it.                                        *)
GatewayMoves(l, g) ==
  LET old == {r \in user : r.luid = l /\ r.dst = Default}
      new == {Row(Default, l, g, 0)}
  IN  /\ new # old
      /\ user' = (user \ old) \cup new
      /\ table' = (table \ old) \cup new
      /\ UNCHANGED <<pc, runs, exception, mine, warned, lost, config, devices,
                     engine>>

InterfaceDown(l) ==
  /\ \E r \in table : r.luid = l
  /\ lost' = TRUE
  /\ user' = FlushRoutes(user, l)
  /\ table' = FlushRoutes(table, l)
  /\ UNCHANGED <<pc, runs, exception, mine, warned, config, devices, engine>>

Main ==
  \/ NewTunDevice \/ BindUDP \/ SetAddress
  \/ \E answered \in SUBSET DOMAIN cfg : Resolve(answered)
  \/ AddException \/ ExceptionFails \/ NoServer
  \/ \E p \in todo : AddTunnelRoute(p) \/ TunnelRouteFails(p)
  \/ \E set \in BOOLEAN : SetDNS(set)
  \/ EngineRun \/ Notify
  \/ EngineClose \/ ConnClose \/ TunClose \/ EngineWait \/ Cleanup \/ Return

Next ==
  \/ \E c \in Configs : LoadConfig(c)
  \/ Main \/ Fatal \/ Select \/ Interrupted
  \/ \E l \in Loops : LoopError(l) \/ LoopReturns(l)
  \/ \E l \in Phys : InterfaceDown(l) \/ \E g \in Gateways : GatewayMoves(l, g)

Spec == Init /\ [][Next]_vars

(* The process is scheduled, and so are the goroutines of the engine.      *)
FairSpec ==
  Spec /\ WF_vars(Main) /\ \A l \in Loops : WF_vars(LoopReturns(l))

-----------------------------------------------------------------------------
(* The variables have their types.                                         *)
TypeOK ==
  /\ pc \in {"exited", "loaded", "adapter", "bound", "addressed", "resolved",
             "pinned", "configured", "started", "running", "stopping",
             "engClosed", "connClosed", "tunClosed", "waited", "cleaned",
             "returned", "fatal", "killed"}
  /\ runs \in 0 .. MaxRuns
  /\ table \subseteq Route /\ user \subseteq Route
  /\ exception \subseteq mine /\ mine \subseteq Route
  /\ cfg \in Configs \cup {<<>>}
  /\ server \subseteq Addrs /\ todo \subseteq Prefixes
  /\ {warned, lost, adapter, conn, dns, engClosed} \subseteq BOOLEAN
  /\ loops \subseteq Loops
  /\ errs \in 0 .. Cardinality(Loops)

(* From the first tunnel route to the last the client's own packets to the *)
(* pinned server leave by a physical interface, though gateways change:    *)
(* the exception is in place before the tunnel takes over, and goes after  *)
(* it.  What is excepted: a warning, an interface that went down with the  *)
(* exception, and a peer whose AllowedIPs name exactly the server.         *)
NoRoutingLoop ==
  \A a \in server :
    ~warned /\ ~lost /\ Host(a) \notin AllowedIPs(cfg)
      => \A r \in Lookup(table, a) : r.luid # Tun

(* While a full tunnel runs, an address goes to the tunnel unless a route  *)
(* of the machine, or an exception, as long as the two halves covers it,   *)
(* whatever the metric of the physical default.  A route of the machine to *)
(* one of the halves themselves must have the tunnel's metric, the least.  *)
FullTunnelCaptures ==
  pc = "running" /\ ~warned /\ Default \in AllowedIPs(cfg)
    => \A a \in Addrs : \A r \in Lookup(table, a) :
         \/ r.luid = Tun
         \/ \E h \in {Prefix(0, 1), Prefix(2^(W - 1), 1)} :
              r.dst \subseteq h /\ (r.dst = h => r.metric = 0)

(* No step of the client deletes or replaces a row of the machine's own:   *)
(* not its default routes, nor a host route to the server that was there   *)
(* before the exception.                                                   *)
UserRoutesKept == user \subseteq table

(* The endpoints of the configurations.                                    *)
Servers == UNION {UNION {c[i].endpoint : i \in DOMAIN c} : c \in Configs}

(* However its runs end, by a signal before signal.Notify or log.Fatalf    *)
(* too, the client leaves nothing but exceptions in the table, host routes *)
(* to a server off the tunnel, at most one for each run and none for a run *)
(* that returned.                                                          *)
OnlyExceptionsLeft ==
  pc \in {"exited", "returned", "fatal", "killed"} =>
    /\ \A r \in table \ user :
         r.luid # Tun /\ \E a \in Servers : r.dst = Host(a)
    /\ Cardinality(table \ user) <= IF pc = "returned" THEN runs - 1 ELSE runs
    /\ pc = "returned" => table \cap mine = {}

(* ConfigureRouting "returns a cleanup function that reverses the changes; *)
(* call it on shutdown": whichever way main ends the process, the rows     *)
(* this run added are gone.                                                *)
ExitRestores ==
  pc \in {"returned", "fatal"} => table \cap mine = {}

(* "the VPN's own encrypted UDP leaves through the real NIC instead of     *)
(* looping back into the tunnel": every peer's endpoint, when nothing went *)
(* wrong and the machine's routes stayed as they were.                     *)
OwnTrafficLeaves ==
  pc = "running" /\ ~warned /\ ~lost
    => \A i \in DOMAIN cfg : \A a \in cfg[i].endpoint :
         Host(a) \notin AllowedIPs(cfg) =>
           \A r \in Lookup(table, a) : r.luid # Tun

(* After a signal or an engine error main returns: closing the socket and  *)
(* the adapter unblocks every goroutine Wait waits for.                    *)
ShutdownCompletes == pc = "stopping" ~> pc = "returned"
=============================================================================
