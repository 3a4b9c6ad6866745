----------------------------- MODULE WinTunnel -----------------------------
(***************************************************************************)
(* The tunnel controller of package wintunnel (wintunnel/tunnel.go).       *)
(*                                                                         *)
(* Any number of control connections (Callers) call Connect and Disconnect *)
(* concurrently; every Connect that gets as far as a TUN adapter makes a   *)
(* new session with its own adapter, UDP socket, routes, engine (two data  *)
(* plane loops), error channel, done channel and watcher goroutine.  One   *)
(* mutex, t.mu, guards the Tunnel's fields.  What runs outside the mutex   *)
(* is what makes the code hard: the engine loops, which may fail at any    *)
(* point and block inside the adapter or the socket, and the watchers of   *)
(* older sessions, which may wake up after a newer session has started.    *)
(*                                                                         *)
(* A watcher is identified with the number of its session, so a process is *)
(* a caller or a session number.                                           *)
(***************************************************************************)
EXTENDS Naturals

CONSTANTS
  Callers,      \* goroutines that call Connect / Disconnect
  Names,        \* display names given to Connect
  NoName,       \* the empty name of a stopped tunnel
  MaxSessions   \* bound: adapters created in one behaviour

ASSUME SessionsAssumption == MaxSessions \in Nat
ASSUME CallersAssumption  == Callers \cap (0..MaxSessions) = {}
ASSUME NamesAssumption    == NoName \notin Names

Sessions == 1..MaxSessions
Procs    == Callers \cup Sessions
Loops    == {"tunLoop", "udpLoop"}

Nobody == 0     \* t.mu is free
NoSession == 0  \* t.eng, t.tun, t.conn, t.cleanup and t.done are nil

VARIABLES
  \* the fields of Tunnel
  mu,        \* holder of t.mu
  running,   \* t.running
  gen,       \* t.gen
  name,      \* t.name
  cur,       \* the session whose objects t.eng, t.tun, ... point to
  \* the goroutines
  pc,        \* where each caller and each watcher is
  op, arg,   \* the call a caller is executing
  res,       \* what that call is about to return
  \* the objects of each session
  nSess,     \* sessions whose adapter was created
  tun,       \* the TunDevice
  conn,      \* the UDP socket
  routes,    \* what ConfigureRouting installed
  engClosed, \* sessions whose eng.Close was called
  loop,      \* the data plane loops
  errs,      \* errors buffered in errChan
  done,      \* sessions whose done channel is closed
  sgen       \* the value of gen captured by the watcher

fields  == <<running, gen, name, cur>>
objects == <<nSess, tun, conn, routes, engClosed, done, sgen>>
engine  == <<loop, errs>>
call    == <<op, arg, res>>
vars    == <<mu, fields, pc, call, objects, engine>>

(* Where a process can be inside stopLocked, and where Connect can be      *)
(* while it holds a half-built session.                                    *)
StopPcs  == {"stop", "cleanup", "connClose", "tunClose", "tunWait",
             "engWait", "clear"}
BuildPcs == {"bind", "route", "engine", "undoRoutes", "undoConn", "undoTun"}
HeldPcs  == {"enter", "parse", "adapter", "unlock"} \cup StopPcs \cup BuildPcs
CallerPcs  == {"idle", "lock"} \cup HeldPcs
WatcherPcs == {"none", "select", "lock", "enter", "unlock", "exited"}
                \cup StopPcs
LoopPcs == {"none", "top", "read", "mid", "write", "err", "exited"}

Init ==
  /\ mu = Nobody
  /\ running = FALSE
  /\ gen = 0
  /\ name = NoName
  /\ cur = NoSession
  /\ pc = [p \in Procs |-> IF p \in Callers THEN "idle" ELSE "none"]
  /\ op = [c \in Callers |-> "none"]
  /\ arg = [c \in Callers |-> NoName]
  /\ res = [c \in Callers |-> "none"]
  /\ nSess = 0
  /\ tun = [s \in Sessions |-> "none"]
  /\ conn = [s \in Sessions |-> "none"]
  /\ routes = [s \in Sessions |-> "none"]
  /\ engClosed = {}
  /\ loop = [s \in Sessions |-> [l \in Loops |-> "none"]]
  /\ errs = [s \in Sessions |-> 0]
  /\ done = {}
  /\ sgen = [s \in Sessions |-> 0]

Goto(p, label) == pc' = [pc EXCEPT ![p] = label]

-----------------------------------------------------------------------------
(* Entering and leaving a call; sync.Mutex t.mu.                           *)

CallConnect(c, n) ==
  /\ pc[c] = "idle"
  /\ op' = [op EXCEPT ![c] = "connect"]
  /\ arg' = [arg EXCEPT ![c] = n]
  /\ Goto(c, "lock")
  /\ UNCHANGED <<mu, fields, res, objects, engine>>

CallDisconnect(c) ==
  /\ pc[c] = "idle"
  /\ op' = [op EXCEPT ![c] = "disconnect"]
  /\ Goto(c, "lock")
  /\ UNCHANGED <<mu, fields, arg, res, objects, engine>>

Lock(p) ==
  /\ pc[p] = "lock"
  /\ mu = Nobody
  /\ mu' = p
  /\ Goto(p, "enter")
  /\ UNCHANGED <<fields, call, objects, engine>>

(* The deferred Unlock of Connect and Disconnect, after which the call     *)
(* returns.                                                                *)
Return(c) ==
  /\ pc[c] = "unlock"
  /\ mu' = Nobody
  /\ op' = [op EXCEPT ![c] = "none"]
  /\ arg' = [arg EXCEPT ![c] = NoName]
  /\ res' = [res EXCEPT ![c] = "none"]
  /\ Goto(c, "idle")
  /\ UNCHANGED <<fields, objects, engine>>

-----------------------------------------------------------------------------
(* stopLocked, run by a caller of Connect or Disconnect or by a watcher.   *)

StopEngine(p) ==
  /\ pc[p] = "stop"
  /\ gen' = gen + 1
  /\ engClosed' = engClosed \cup {cur}
  /\ Goto(p, "cleanup")
  /\ UNCHANGED <<mu, running, name, cur, call, nSess, tun, conn, routes,
                 done, sgen, engine>>

StopRoutes(p) ==
  /\ pc[p] = "cleanup"
  /\ routes' = [routes EXCEPT ![cur] = "clean"]
  /\ Goto(p, "connClose")
  /\ UNCHANGED <<mu, fields, call, nSess, tun, conn, engClosed, done, sgen,
                 engine>>

(* Mutant: the socket is forgotten, so the read blocked in it stays.       *)
StopConnLeaks(p) ==
  /\ pc[p] = "connClose"
  /\ Goto(p, "tunClose")
  /\ UNCHANGED <<mu, fields, call, objects, engine>>

StopConn(p) ==
  /\ pc[p] = "connClose"
  /\ conn' = [conn EXCEPT ![cur] = "closed"]
  /\ Goto(p, "tunClose")
  /\ UNCHANGED <<mu, fields, call, nSess, tun, routes, engClosed, done, sgen,
                 engine>>

(* tun.Close: new device calls are refused from here on ...                *)
StopTun(p) ==
  /\ pc[p] = "tunClose"
  /\ tun' = [tun EXCEPT ![cur] = "closing"]
  /\ Goto(p, "tunWait")
  /\ UNCHANGED <<mu, fields, call, nSess, conn, routes, engClosed, done, sgen,
                 engine>>

(* ... and Close itself blocks until the Read and the Write in flight have *)
(* returned.                                                               *)
InTun(s) == loop[s]["tunLoop"] = "read" \/ loop[s]["udpLoop"] = "write"

StopTunDone(p) ==
  /\ pc[p] = "tunWait"
  /\ ~InTun(cur)
  /\ tun' = [tun EXCEPT ![cur] = "closed"]
  /\ Goto(p, "engWait")
  /\ UNCHANGED <<mu, fields, call, nSess, conn, routes, engClosed, done, sgen,
                 engine>>

(* Mutant: no eng.Wait.                                                    *)
StopWithoutWait(p) ==
  /\ pc[p] = "engWait"
  /\ Goto(p, "clear")
  /\ UNCHANGED <<mu, fields, call, objects, engine>>

StopWait(p) ==
  /\ pc[p] = "engWait"
  /\ \A l \in Loops : loop[cur][l] = "exited"
  /\ Goto(p, "clear")
  /\ UNCHANGED <<mu, fields, call, objects, engine>>

Switching(p) == p \in Callers /\ op[p] = "connect"

(* Mutant: close(t.done) is missing.                                       *)
StopClearKeepsDone(p) ==
  /\ pc[p] = "clear"
  /\ cur' = NoSession
  /\ running' = FALSE
  /\ name' = NoName
  /\ Goto(p, IF Switching(p) THEN "parse" ELSE "unlock")
  /\ res' = IF p \in Callers /\ op[p] = "disconnect"
            THEN [res EXCEPT ![p] = "ok"] ELSE res
  /\ UNCHANGED <<mu, gen, op, arg, nSess, tun, conn, routes, engClosed, sgen,
                 done, engine>>

(* close(t.done) and the reset of the fields; Connect goes on to build the *)
(* new session, the others are finished.                                   *)
StopClear(p) ==
  /\ pc[p] = "clear"
  /\ done' = done \cup {cur}
  /\ cur' = NoSession
  /\ running' = FALSE
  /\ name' = NoName
  /\ Goto(p, IF Switching(p) THEN "parse" ELSE "unlock")
  /\ res' = IF p \in Callers /\ op[p] = "disconnect"
            THEN [res EXCEPT ![p] = "ok"] ELSE res
  /\ UNCHANGED <<mu, gen, op, arg, nSess, tun, conn, routes, engClosed, sgen,
                 engine>>

Stop(p) ==
  \/ StopEngine(p) \/ StopRoutes(p) \/ StopConn(p) \/ StopTun(p)
  \/ StopTunDone(p) \/ StopWait(p) \/ StopClear(p)

DisconnectEnter(c) ==
  /\ pc[c] = "enter"
  /\ op[c] = "disconnect"
  /\ Goto(c, IF running THEN "stop" ELSE "unlock")
  /\ res' = IF running THEN res ELSE [res EXCEPT ![c] = "ok"]
  /\ UNCHANGED <<mu, fields, op, arg, objects, engine>>

-----------------------------------------------------------------------------
(* Connect, with t.mu held.  A step that fails goes to the release of what *)
(* this call has acquired so far, the last thing first, and then returns   *)
(* the error.                                                              *)

(* Mutant: Connect builds the new session beside the running one.          *)
ConnectWithoutStop(c) ==
  /\ pc[c] = "enter"
  /\ op[c] = "connect"
  /\ Goto(c, "parse")
  /\ UNCHANGED <<mu, fields, call, objects, engine>>

ConnectEnter(c) ==
  /\ pc[c] = "enter"
  /\ op[c] = "connect"
  /\ Goto(c, IF running THEN "stop" ELSE "parse")
  /\ UNCHANGED <<mu, fields, call, objects, engine>>

Fail(c, label) ==
  /\ res' = [res EXCEPT ![c] = "err"]
  /\ Goto(c, label)
  /\ UNCHANGED <<mu, fields, op, arg, objects, engine>>

ParseConfig(c) ==
  /\ pc[c] = "parse"
  /\ Goto(c, "adapter")
  /\ UNCHANGED <<mu, fields, call, objects, engine>>

ParseConfigFails(c) ==
  /\ pc[c] = "parse"
  /\ Fail(c, "unlock")

NewTunDevice(c) ==
  /\ pc[c] = "adapter"
  /\ nSess < MaxSessions
  /\ nSess' = nSess + 1
  /\ tun' = [tun EXCEPT ![nSess + 1] = "open"]
  /\ Goto(c, "bind")
  /\ UNCHANGED <<mu, fields, call, conn, routes, engClosed, done, sgen, engine>>

NewTunDeviceFails(c) ==
  /\ pc[c] = "adapter"
  /\ Fail(c, "unlock")

BindUDP(c) ==
  /\ pc[c] = "bind"
  /\ conn' = [conn EXCEPT ![nSess] = "open"]
  /\ Goto(c, "route")
  /\ UNCHANGED <<mu, fields, call, nSess, tun, routes, engClosed, done, sgen,
                 engine>>

BindUDPFails(c) ==
  /\ pc[c] = "bind"
  /\ Fail(c, "undoTun")

ConfigureRouting(c) ==
  /\ pc[c] = "route"
  /\ routes' = [routes EXCEPT ![nSess] = "set"]
  /\ Goto(c, "engine")
  /\ UNCHANGED <<mu, fields, call, nSess, tun, conn, engClosed, done, sgen,
                 engine>>

(* Mutant: the error path of ConfigureRouting forgets the socket.          *)
ConfigureRoutingLeaks(c) ==
  /\ pc[c] = "route"
  /\ Fail(c, "undoTun")

ConfigureRoutingFails(c) ==
  /\ pc[c] = "route"
  /\ Fail(c, "undoConn")

NewEngineFails(c) ==
  /\ pc[c] = "engine"
  /\ Fail(c, "undoRoutes")

(* Mutant: the error path of engine.New closes the adapter before cleanup. *)
UndoTunFirst(c) ==
  /\ pc[c] = "undoRoutes"
  /\ tun' = [tun EXCEPT ![nSess] = "closed"]
  /\ Goto(c, "undoConn")
  /\ UNCHANGED <<mu, fields, call, nSess, conn, routes, engClosed, done, sgen,
                 engine>>

(* cleanup ...                                                             *)
UndoRoutes(c) ==
  /\ pc[c] = "undoRoutes"
  /\ routes' = [routes EXCEPT ![nSess] = "clean"]
  /\ Goto(c, "undoConn")
  /\ UNCHANGED <<mu, fields, call, nSess, tun, conn, engClosed, done, sgen,
                 engine>>

(* ... conn.Close ...                                                      *)
UndoConn(c) ==
  /\ pc[c] = "undoConn"
  /\ conn' = [conn EXCEPT ![nSess] = "closed"]
  /\ Goto(c, "undoTun")
  /\ UNCHANGED <<mu, fields, call, nSess, tun, routes, engClosed, done, sgen,
                 engine>>

(* ... and tunDev.Close, which has no call in flight to wait for.          *)
UndoTun(c) ==
  /\ pc[c] = "undoTun"
  /\ tun' = [tun EXCEPT ![nSess] = "closed"]
  /\ Goto(c, "unlock")
  /\ UNCHANGED <<mu, fields, call, nSess, conn, routes, engClosed, done, sgen,
                 engine>>

(* engine.New succeeds: the loops start, the session becomes the current   *)
(* one under a new generation and its watcher is spawned.                  *)
Publish(c) ==
  /\ pc[c] = "engine"
  /\ loop' = [loop EXCEPT ![nSess] = [l \in Loops |-> "top"]]
  /\ cur' = nSess
  /\ name' = arg[c]
  /\ running' = TRUE
  /\ gen' = gen + 1
  /\ sgen' = [sgen EXCEPT ![nSess] = gen + 1]
  /\ pc' = [pc EXCEPT ![c] = "unlock", ![nSess] = "select"]
  /\ res' = [res EXCEPT ![c] = "ok"]
  /\ UNCHANGED <<mu, op, arg, nSess, tun, conn, routes, engClosed, done, errs>>

Connect(c) ==
  \/ ConnectEnter(c)
  \/ ParseConfig(c)      \/ ParseConfigFails(c)
  \/ NewTunDevice(c)     \/ NewTunDeviceFails(c)
  \/ BindUDP(c)          \/ BindUDPFails(c)
  \/ ConfigureRouting(c) \/ ConfigureRoutingFails(c)
  \/ Publish(c)          \/ NewEngineFails(c)
  \/ UndoRoutes(c) \/ UndoConn(c) \/ UndoTun(c)

-----------------------------------------------------------------------------
(* The watcher goroutine of session s.                                     *)

(* Mutant: the receive does not wait for an error.                         *)
WatchErrEager(s) ==
  /\ pc[s] = "select"
  /\ errs' = [errs EXCEPT ![s] = @ - 1]
  /\ Goto(s, "lock")
  /\ UNCHANGED <<mu, fields, call, objects, loop>>

WatchErr(s) ==
  /\ pc[s] = "select"
  /\ errs[s] > 0
  /\ errs' = [errs EXCEPT ![s] = @ - 1]
  /\ Goto(s, "lock")
  /\ UNCHANGED <<mu, fields, call, objects, loop>>

WatchDone(s) ==
  /\ pc[s] = "select"
  /\ s \in done
  /\ Goto(s, "exited")
  /\ UNCHANGED <<mu, fields, call, objects, engine>>

(* Mutant: the watcher does not compare generations.                       *)
WatchEnterAnyGen(s) ==
  /\ pc[s] = "enter"
  /\ Goto(s, IF running THEN "stop" ELSE "unlock")
  /\ UNCHANGED <<mu, fields, call, objects, engine>>

WatchEnter(s) ==
  /\ pc[s] = "enter"
  /\ Goto(s, IF running /\ gen = sgen[s] THEN "stop" ELSE "unlock")
  /\ UNCHANGED <<mu, fields, call, objects, engine>>

WatchUnlock(s) ==
  /\ pc[s] = "unlock"
  /\ mu' = Nobody
  /\ Goto(s, "exited")
  /\ UNCHANGED <<fields, call, objects, engine>>

Watcher(s) == WatchErr(s) \/ WatchDone(s) \/ WatchEnter(s) \/ WatchUnlock(s)

-----------------------------------------------------------------------------
(* The data plane loops of the engine (external: package veil/engine),     *)
(* modelled from how this repository uses it.  tunLoop reads packets from  *)
(* the adapter and writes them to the socket, udpLoop the other way round. *)
(* A loop looks at the stop signal of eng.Close between two batches, it    *)
(* blocks in a read until a packet arrives or the device is closed, and a  *)
(* device error is fatal: the loop reports it on errChan and exits, or,    *)
(* when the engine is being closed, it may exit without a report.          *)

ErrCapOne == 1   \* mutant: make(chan error, 1)

ErrCap == 2   \* make(chan error, 2)

DownTun(s)  == tun[s] \in {"closing", "closed"}
DownConn(s) == conn[s] = "closed"
ReadDown(s, l)  == IF l = "tunLoop" THEN DownTun(s) ELSE DownConn(s)
WriteDown(s, l) == IF l = "tunLoop" THEN DownConn(s) ELSE DownTun(s)

LoopGoto(s, l, label) ==
  /\ loop' = [loop EXCEPT ![s][l] = label]
  /\ UNCHANGED <<mu, fields, pc, call, objects, errs>>

(* A closing engine may exit silently; the controller must not depend on it. *)
LoopError(s, l) ==
  \/ s \in engClosed /\ LoopGoto(s, l, "exited")
  \/ LoopGoto(s, l, "err")

LoopTop(s, l) ==
  /\ loop[s][l] = "top"
  /\ LoopGoto(s, l, IF s \in engClosed THEN "exited" ELSE "read")

ReadPacket(s, l) ==
  /\ loop[s][l] = "read"
  /\ ~ReadDown(s, l)
  /\ LoopGoto(s, l, "mid")

ReadUnblocked(s, l) ==
  /\ loop[s][l] = "read"
  /\ ReadDown(s, l)
  /\ LoopError(s, l)

BeginWrite(s, l) ==
  /\ loop[s][l] = "mid"
  /\ \/ ~WriteDown(s, l) /\ LoopGoto(s, l, "write")
     \/ WriteDown(s, l) /\ LoopError(s, l)

EndWrite(s, l) ==
  /\ loop[s][l] = "write"
  /\ LoopGoto(s, l, "top")

DeviceError(s, l) ==
  /\ loop[s][l] \in {"read", "write"}
  /\ LoopError(s, l)

SendErr(s, l) ==
  /\ loop[s][l] = "err"
  /\ errs[s] < ErrCap
  /\ errs' = [errs EXCEPT ![s] = @ + 1]
  /\ loop' = [loop EXCEPT ![s][l] = "exited"]
  /\ UNCHANGED <<mu, fields, pc, call, objects>>

LoopStep(s, l) ==
  \/ LoopTop(s, l) \/ ReadUnblocked(s, l) \/ BeginWrite(s, l)
  \/ EndWrite(s, l) \/ SendErr(s, l)

-----------------------------------------------------------------------------
Next ==
  \/ \E c \in Callers :
        \/ \E n \in Names : CallConnect(c, n)
        \/ CallDisconnect(c)
        \/ Connect(c)
        \/ DisconnectEnter(c)
        \/ Return(c)
  \/ \E p \in Procs : Lock(p) \/ Stop(p)
  \/ \E s \in Sessions :
        \/ Watcher(s)
        \/ \E l \in Loops :
              LoopStep(s, l) \/ ReadPacket(s, l) \/ DeviceError(s, l)

Spec == Init /\ [][Next]_vars

(* Every goroutine that can run does.  sync.Mutex hands the lock over to a *)
(* waiter that has starved for a millisecond, hence strong fairness of the *)
(* goroutines that take it.  Nothing is assumed of the front-end's calls,  *)
(* of the arrival of packets or of device errors.                          *)
CallerStep(c) ==
  Lock(c) \/ Connect(c) \/ DisconnectEnter(c) \/ Stop(c) \/ Return(c)

WatcherStep(s) == Lock(s) \/ Stop(s) \/ Watcher(s)

Fairness ==
  /\ \A c \in Callers : SF_vars(CallerStep(c))
  /\ \A s \in Sessions : SF_vars(WatcherStep(s))
  /\ \A s \in Sessions, l \in Loops : WF_vars(LoopStep(s, l))

FairSpec == Spec /\ Fairness

-----------------------------------------------------------------------------
(* Tunnel.Status, called with t.mu free; anyConnected stands for the       *)
(* engine's Stats.                                                         *)
Status(anyConnected) ==
  IF ~running \/ cur = NoSession
  THEN [state |-> "disconnected", name |-> NoName]
  ELSE [state |-> IF anyConnected THEN "connected" ELSE "connecting",
        name  |-> name]

LoopAlive(s) == \E l \in Loops : loop[s][l] \notin {"none", "exited"}

(* Session s still holds something of the machine.                         *)
Live(s) ==
  \/ tun[s] \in {"open", "closing"}
  \/ conn[s] = "open"
  \/ routes[s] = "set"
  \/ LoopAlive(s)

(* The variables have their types: the range of every field, object and    *)
(* program counter of tunnel.go's goroutines.                              *)
TypeOK ==
  /\ mu \in Procs \cup {Nobody}
  /\ running \in BOOLEAN
  /\ gen \in Nat
  /\ name \in Names \cup {NoName}
  /\ cur \in Sessions \cup {NoSession}
  /\ pc \in [Procs -> CallerPcs \cup WatcherPcs]
  /\ op \in [Callers -> {"none", "connect", "disconnect"}]
  /\ arg \in [Callers -> Names \cup {NoName}]
  /\ res \in [Callers -> {"none", "ok", "err"}]
  /\ nSess \in 0..MaxSessions
  /\ tun \in [Sessions -> {"none", "open", "closing", "closed"}]
  /\ conn \in [Sessions -> {"none", "open", "closed"}]
  /\ routes \in [Sessions -> {"none", "set", "clean"}]
  /\ engClosed \subseteq Sessions
  /\ loop \in [Sessions -> [Loops -> LoopPcs]]
  /\ errs \in [Sessions -> Nat]
  /\ done \subseteq Sessions
  /\ sgen \in [Sessions -> Nat]

(* At most one session holds an adapter, a socket, routes or running loops *)
(* at any moment, in the middle of a switch or of a failed Connect too     *)
(* ("Tunnel owns at most one live VEIL tunnel"; stopLocked waits "so a     *)
(* caller that immediately reconnects never races a not-yet-dead previous  *)
(* session").                                                              *)
OneLiveTunnel == \A s, t \in Sessions : Live(s) /\ Live(t) => s = t

(* Whenever t.mu is free, a session that holds anything is the current one *)
(* and the tunnel reports itself up: no path through Connect, Disconnect   *)
(* or the watcher leaves a resource behind, and Status answers             *)
(* "disconnected" only when nothing is left.                               *)
NoOrphans ==
  mu = Nobody =>
    \A s \in Sessions :
      Live(s) => cur = s /\ Status(FALSE).state # "disconnected"

(* The watcher of a session stops that session or nothing: a late engine   *)
(* error of an old session never tears down a newer one (the purpose of    *)
(* t.gen).                                                                 *)
StaleWatcherHarmless ==
  \A s \in Sessions : pc[s] \in StopPcs => cur = s

(* Routes and DNS are configured only on an adapter that still exists:     *)
(* cleanup runs before the adapter goes away, on every path.               *)
RoutesHaveAdapter ==
  \A s \in Sessions : routes[s] = "set" => tun[s] = "open"

(* A failing loop finds room in errChan: no loop can be stuck on the send, *)
(* where eng.Wait would wait for it with t.mu held.                        *)
ErrChanHasRoom ==
  \A s \in Sessions : (\E l \in Loops : loop[s][l] = "err") => errs[s] < ErrCap

(* Every call of Connect and Disconnect returns, whatever the loops and    *)
(* the watchers of old and new sessions are doing.                         *)
CallsReturn == \A c \in Callers : pc[c] = "lock" ~> pc[c] = "idle"

(* A session with a fatal engine error in errChan does not stay the        *)
(* current one, and the watcher goroutine of a session that is over exits: *)
(* no Connect/Disconnect cycle leaks one.                                  *)
SessionsEnd ==
  \A s \in Sessions :
    sgen[s] > 0 /\ (errs[s] > 0 \/ cur # s) ~> cur # s /\ pc[s] = "exited"

-----------------------------------------------------------------------------
(* The controller implements TunnelService.  The tunnel is up under        *)
(* t.name; a call has its answer when it is about to unlock; the fault of  *)
(* the session that is up is an error its watcher has yet to act on.       *)
Faulted ==
  /\ running
  /\ errs[cur] > 0 \/ pc[cur] \in {"lock", "enter"} \cup StopPcs

Answer(c) ==
  CASE pc[c] = "idle"   -> "idle"
    [] pc[c] = "unlock" -> res[c]
    [] OTHER            -> op[c]

Service == INSTANCE TunnelService
             WITH live  <- name,
                  fault <- Faulted,
                  call  <- [c \in Callers |-> Answer(c)]

(* Every behaviour of the controller is one TunnelService allows: calls    *)
(* are atomic to their callers, and the tunnel goes down only for a        *)
(* Disconnect, a switch or an error of its own engine.                     *)
ImplementsService == Service!Spec
=============================================================================
