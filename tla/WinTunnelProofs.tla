-------------------------- MODULE WinTunnelProofs --------------------------
(***************************************************************************)
(* Proofs about WinTunnel, for any set of callers, any set of names and    *)
(* any number of sessions.                                                 *)
(***************************************************************************)
EXTENDS WinTunnel, TLAPS

(* t.mu is held by exactly the process that is inside a critical section.  *)
LockInv ==
  /\ \A p \in Procs : pc[p] \in HeldPcs <=> mu = p
  /\ \A c \in Callers : pc[c] \in CallerPcs
  /\ \A s \in Sessions : pc[s] \in WatcherPcs

(* t.running, the current session and the place of the lock holder agree.  *)
FieldInv ==
  /\ running <=> cur # NoSession
  /\ cur <= nSess
  /\ \A p \in Procs : pc[p] \in StopPcs => running
  /\ \A c \in Callers :
       pc[c] \in {"parse", "adapter"} \cup BuildPcs => ~running
  /\ \A c \in Callers : pc[c] \in BuildPcs => nSess \in Sessions

(* A session that has not been created holds nothing.                      *)
Untouched(s) ==
  /\ tun[s] = "none"
  /\ conn[s] = "none"
  /\ routes[s] = "none"
  /\ \A l \in Loops : loop[s][l] = "none"

(* How far a half-built session has come.                                  *)
Built(c) ==
  /\ tun[nSess] = "open"
  /\ pc[c] = "bind" => conn[nSess] = "none"
  /\ pc[c] \in {"bind", "route"} => routes[nSess] = "none"
  /\ pc[c] \in {"undoConn", "undoTun"} => routes[nSess] # "set"
  /\ pc[c] = "undoTun" => conn[nSess] # "open"
  /\ \A l \in Loops : loop[nSess][l] = "none"

(* How far the teardown of the current session has come.                   *)
Stopped(p) ==
  /\ pc[p] \in {"connClose", "tunClose", "tunWait", "engWait", "clear"}
       => routes[cur] = "clean"
  /\ pc[p] \in {"tunClose", "tunWait", "engWait", "clear"}
       => conn[cur] = "closed"
  /\ pc[p] \in {"engWait", "clear"} => tun[cur] = "closed"
  /\ pc[p] = "clear" => \A l \in Loops : loop[cur][l] = "exited"

(* What each session holds, by the place of the process that handles it.   *)
StageInv ==
  /\ \A s \in Sessions : s > nSess => Untouched(s)
  /\ \A c \in Callers : pc[c] \in BuildPcs => Built(c)
  /\ \A p \in Procs : pc[p] \in StopPcs => Stopped(p)

(* Only the current session, or the one being built, holds anything.       *)
ResourceInv ==
  \A s \in Sessions :
    Live(s) => \/ s = cur
               \/ s = nSess /\ \E c \in Callers : pc[c] \in BuildPcs

(* The current session has the newest generation.                          *)
GenInv ==
  /\ \A s \in Sessions : sgen[s] <= gen
  /\ running => \A s \in Sessions : s # cur => sgen[s] < sgen[cur]

(* Every error in errChan was sent by a loop that has exited.              *)
Sent(s, l) == IF loop[s][l] = "exited" THEN 1 ELSE 0

ErrInv ==
  \A s \in Sessions : errs[s] <= Sent(s, "tunLoop") + Sent(s, "udpLoop")

(* What every step needs: the types, the lock and the fields it guards.    *)
Core == TypeOK /\ LockInv /\ FieldInv

(* The inductive invariant.                                                *)
Inv ==
  /\ Core
  /\ StageInv
  /\ ResourceInv
  /\ RoutesHaveAdapter
  /\ StaleWatcherHarmless
  /\ GenInv
  /\ ErrInv

-----------------------------------------------------------------------------
(* Callers, sessions and the two zeroes are distinct.                      *)
LEMMA ProcFacts ==
  /\ \A s \in Sessions : s \in Nat /\ s # 0 /\ s \notin Callers
  /\ 0 \notin Callers
  /\ \A n \in 0..MaxSessions :
       /\ n \in Nat
       /\ n # 0 => n \in Sessions
       /\ n < MaxSessions => n + 1 \in Sessions /\ n + 1 \in 0..MaxSessions
  BY SessionsAssumption, CallersAssumption DEF Sessions

(* What the steps of the data plane loops have in common: a loop that has  *)
(* been started and has not exited moves on, and an error it sends is its  *)
(* last step.                                                              *)
LoopMove(s, l) ==
  /\ loop[s][l] \notin {"none", "exited"}
  /\ \E x \in LoopPcs \ {"none"} :
       /\ loop' = [loop EXCEPT ![s][l] = x]
       /\ \/ errs' = errs
          \/ x = "exited" /\ errs' = [errs EXCEPT ![s] = @ + 1]
  /\ UNCHANGED <<mu, fields, pc, call, objects>>

(* Every step of a loop is such a move.                                    *)
LEMMA LoopMoves ==
  ASSUME NEW s \in Sessions, NEW l \in Loops,
         LoopStep(s, l) \/ ReadPacket(s, l) \/ DeviceError(s, l)
  PROVE  LoopMove(s, l)
<1> USE DEF LoopMove, LoopGoto, LoopPcs, LoopError
<1>1. CASE LoopTop(s, l)
  BY <1>1 DEF LoopTop
<1>2. CASE ReadUnblocked(s, l)
  BY <1>2 DEF ReadUnblocked
<1>3. CASE BeginWrite(s, l)
  BY <1>3 DEF BeginWrite
<1>4. CASE EndWrite(s, l)
  BY <1>4 DEF EndWrite
<1>5. CASE SendErr(s, l)
  BY <1>5 DEF SendErr
<1>6. CASE ReadPacket(s, l)
  BY <1>6 DEF ReadPacket
<1>7. CASE DeviceError(s, l)
  BY <1>7 DEF DeviceError
<1> QED
  BY <1>1, <1>2, <1>3, <1>4, <1>5, <1>6, <1>7 DEF LoopStep

(* The invariant holds initially.                                          *)
LEMMA InitInv == Init => Inv
<1> SUFFICES ASSUME Init PROVE Inv
  OBVIOUS
<1> USE SessionsAssumption, ProcFacts DEF Init
<1>0. running \in BOOLEAN /\ ~running
  BY Zenon
<1>1. TypeOK
  <2>1. pc \in [Procs -> CallerPcs \cup WatcherPcs]
    BY DEF CallerPcs, WatcherPcs
  <2>2. loop \in [Sessions -> [Loops -> LoopPcs]]
    BY DEF LoopPcs
  <2>3. /\ gen \in Nat /\ nSess \in 0..MaxSessions
        /\ mu \in Procs \cup {Nobody} /\ cur \in Sessions \cup {NoSession}
    BY DEF Nobody, NoSession
  <2>4. /\ op \in [Callers -> {"none", "connect", "disconnect"}]
        /\ arg \in [Callers -> Names \cup {NoName}]
        /\ res \in [Callers -> {"none", "ok", "err"}]
    OBVIOUS
  <2> QED
    BY <1>0, <2>1, <2>2, <2>3, <2>4 DEF TypeOK
<1>2. LockInv /\ FieldInv
  <2>1. /\ \A c \in Callers : pc[c] = "idle"
        /\ \A s \in Sessions : pc[s] = "none"
        /\ \A p \in Procs : mu # p
    BY DEF Procs, Nobody
  <2>2. LockInv
    BY <2>1 DEF LockInv, Procs, CallerPcs, WatcherPcs, HeldPcs, StopPcs,
                BuildPcs
  <2>3. FieldInv
    <3>1. cur = NoSession /\ cur <= nSess
      BY DEF NoSession
    <3> HIDE DEF Init
    <3> QED
      BY <1>0, <2>1, <3>1 DEF FieldInv, Procs, StopPcs, BuildPcs
  <2> QED
    BY <2>2, <2>3
<1>3. StageInv /\ ResourceInv /\ RoutesHaveAdapter
  BY DEF StageInv, Untouched, ResourceInv, RoutesHaveAdapter, Live, LoopAlive,
         Procs, StopPcs, BuildPcs
<1>4. StaleWatcherHarmless /\ GenInv /\ ErrInv
  BY DEF StaleWatcherHarmless, GenInv, ErrInv, Sent, StopPcs, Procs, Loops
<1> QED
  BY <1>1, <1>2, <1>3, <1>4 DEF Inv, Core

(* Every step preserves the invariant.                                     *)
LEMMA StepInv == Inv /\ [Next]_vars => Inv'
<1> SUFFICES ASSUME Inv, [Next]_vars PROVE Inv'
  OBVIOUS
<1> USE SessionsAssumption, NamesAssumption, ProcFacts
    DEF Inv, Core, TypeOK, LockInv, FieldInv, StageInv, Untouched, Built,
        Stopped, ResourceInv, RoutesHaveAdapter, StaleWatcherHarmless, GenInv,
        ErrInv, Sent, Live, LoopAlive, Procs, Nobody, NoSession, CallerPcs,
        WatcherPcs, HeldPcs, StopPcs, BuildPcs, LoopPcs, Loops, Goto, fields,
        objects, engine, call
<1>1. ASSUME NEW c \in Callers, NEW n \in Names, CallConnect(c, n)
      PROVE  Inv'
  BY <1>1 DEF CallConnect
<1>2. ASSUME NEW c \in Callers, CallDisconnect(c)
      PROVE  Inv'
  BY <1>2 DEF CallDisconnect
<1>3. ASSUME NEW c \in Callers, Return(c)
      PROVE  Inv'
  BY <1>3 DEF Return
<1>4. ASSUME NEW c \in Callers, DisconnectEnter(c)
      PROVE  Inv'
  BY <1>4 DEF DisconnectEnter
<1>5. ASSUME NEW c \in Callers, ConnectEnter(c)
      PROVE  Inv'
  BY <1>5 DEF ConnectEnter
<1>6. ASSUME NEW c \in Callers, ParseConfig(c)
      PROVE  Inv'
  BY <1>6, SMTT(30) DEF ParseConfig
<1>7. ASSUME NEW c \in Callers, ParseConfigFails(c)
      PROVE  Inv'
  <2>1. TypeOK'
    BY <1>7 DEF ParseConfigFails, Fail
  <2>2. (LockInv /\ FieldInv)'
    BY <1>7, SMTT(30) DEF ParseConfigFails, Fail
  <2>3. StageInv'
    BY <1>7 DEF ParseConfigFails, Fail
  <2>4. (ResourceInv /\ RoutesHaveAdapter)'
    BY <1>7 DEF ParseConfigFails, Fail
  <2>5. (StaleWatcherHarmless /\ GenInv)'
    BY <1>7 DEF ParseConfigFails, Fail
  <2>6. ErrInv'
    BY <1>7 DEF ParseConfigFails, Fail
  <2> QED
    BY <2>1, <2>2, <2>3, <2>4, <2>5, <2>6
<1>8. ASSUME NEW c \in Callers, NewTunDevice(c)
      PROVE  Inv'
  BY <1>8 DEF NewTunDevice
<1>9. ASSUME NEW c \in Callers, NewTunDeviceFails(c)
      PROVE  Inv'
  <2>1. TypeOK'
    BY <1>9 DEF NewTunDeviceFails, Fail
  <2>2. (LockInv /\ FieldInv)'
    BY <1>9, SMTT(30) DEF NewTunDeviceFails, Fail
  <2>3. StageInv'
    BY <1>9 DEF NewTunDeviceFails, Fail
  <2>4. (ResourceInv /\ RoutesHaveAdapter)'
    BY <1>9 DEF NewTunDeviceFails, Fail
  <2>5. (StaleWatcherHarmless /\ GenInv)'
    BY <1>9 DEF NewTunDeviceFails, Fail
  <2>6. ErrInv'
    BY <1>9 DEF NewTunDeviceFails, Fail
  <2> QED
    BY <2>1, <2>2, <2>3, <2>4, <2>5, <2>6
<1>10. ASSUME NEW c \in Callers, BindUDP(c)
      PROVE  Inv'
  BY <1>10 DEF BindUDP
<1>11. ASSUME NEW c \in Callers, BindUDPFails(c)
      PROVE  Inv'
  BY <1>11 DEF BindUDPFails, Fail
<1>12. ASSUME NEW c \in Callers, ConfigureRouting(c)
      PROVE  Inv'
  BY <1>12 DEF ConfigureRouting
<1>13. ASSUME NEW c \in Callers, ConfigureRoutingFails(c)
      PROVE  Inv'
  BY <1>13 DEF ConfigureRoutingFails, Fail
<1>14. ASSUME NEW c \in Callers, NewEngineFails(c)
      PROVE  Inv'
  BY <1>14 DEF NewEngineFails, Fail
<1>14a. ASSUME NEW c \in Callers, UndoRoutes(c)
      PROVE  Inv'
  BY <1>14a DEF UndoRoutes
<1>14b. ASSUME NEW c \in Callers, UndoConn(c)
      PROVE  Inv'
  BY <1>14b DEF UndoConn
<1>14c. ASSUME NEW c \in Callers, UndoTun(c)
      PROVE  Inv'
  BY <1>14c DEF UndoTun
<1>15. ASSUME NEW c \in Callers, Publish(c)
      PROVE  Inv'
  <2>1. nSess \in Sessions /\ c # nSess /\ mu = c
    BY <1>15 DEF Publish
  <2>2. TypeOK'
    <3>1. pc' \in [Procs -> CallerPcs \cup WatcherPcs]
      BY <1>15, <2>1 DEF Publish
    <3>2. /\ loop' \in [Sessions -> [Loops -> LoopPcs]]
          /\ sgen' \in [Sessions -> Nat]
          /\ res' \in [Callers -> {"none", "ok", "err"}]
      BY <1>15, <2>1 DEF Publish
    <3>3. /\ name' \in Names \cup {NoName} /\ cur' \in Sessions /\ gen' \in Nat
          /\ running' \in BOOLEAN
      BY <1>15, <2>1 DEF Publish
    <3> QED
      BY <1>15, <3>1, <3>2, <3>3 DEF Publish
  <2>3. \A p \in Procs :
          pc'[p] = IF p = c THEN "unlock"
                   ELSE IF p = nSess THEN "select" ELSE pc[p]
    BY <1>15, <2>1 DEF Publish
  <2>4. (LockInv /\ FieldInv)'
    BY <1>15, <2>1, <2>3, SMTT(30) DEF Publish
  <2>5. StageInv'
    BY <1>15, <2>1, <2>3, SMTT(30) DEF Publish
  <2>6. (ResourceInv /\ RoutesHaveAdapter)'
    BY <1>15, <2>1, <2>3 DEF Publish
  <2>7. (StaleWatcherHarmless /\ GenInv)'
    BY <1>15, <2>1, <2>3 DEF Publish
  <2>8. ErrInv'
    BY <1>15, <2>1, <2>3 DEF Publish
  <2> QED
    BY <2>2, <2>4, <2>5, <2>6, <2>7, <2>8
<1>16. ASSUME NEW p \in Procs, Lock(p)
      PROVE  Inv'
  BY <1>16 DEF Lock
<1>17. ASSUME NEW p \in Procs, StopEngine(p)
      PROVE  Inv'
  BY <1>17 DEF StopEngine
<1>18. ASSUME NEW p \in Procs, StopRoutes(p)
      PROVE  Inv'
  BY <1>18 DEF StopRoutes
<1>19. ASSUME NEW p \in Procs, StopConn(p)
      PROVE  Inv'
  BY <1>19 DEF StopConn
<1>20. ASSUME NEW p \in Procs, StopTun(p)
      PROVE  Inv'
  BY <1>20 DEF StopTun
<1>21. ASSUME NEW p \in Procs, StopTunDone(p)
      PROVE  Inv'
  BY <1>21 DEF StopTunDone
<1>22. ASSUME NEW p \in Procs, StopWait(p)
      PROVE  Inv'
  BY <1>22 DEF StopWait
<1>23. ASSUME NEW p \in Procs, StopClear(p)
      PROVE  Inv'
  <2>1. cur \in Sessions
    BY <1>23 DEF StopClear
  <2>2. TypeOK'
    <3>1. done' \subseteq Sessions
      BY <1>23, <2>1 DEF StopClear
    <3>2. res' \in [Callers -> {"none", "ok", "err"}]
      BY <1>23 DEF StopClear
    <3>3. pc' \in [Procs -> CallerPcs \cup WatcherPcs]
      BY <1>23 DEF StopClear
    <3> QED
      BY <1>23, <3>1, <3>2, <3>3 DEF StopClear
  <2>3. (LockInv /\ FieldInv)'
    BY <1>23, <2>1 DEF StopClear, Switching
  <2>4. StageInv'
    BY <1>23, <2>1 DEF StopClear, Switching
  <2>5. (ResourceInv /\ RoutesHaveAdapter)'
    BY <1>23, <2>1 DEF StopClear, Switching
  <2>6. (StaleWatcherHarmless /\ GenInv)'
    BY <1>23, <2>1 DEF StopClear, Switching
  <2>7. ErrInv'
    BY <1>23, <2>1 DEF StopClear, Switching
  <2> QED
    BY <2>2, <2>3, <2>4, <2>5, <2>6, <2>7
<1>24. ASSUME NEW s \in Sessions, WatchErr(s)
      PROVE  Inv'
  BY <1>24 DEF WatchErr
<1>25. ASSUME NEW s \in Sessions, WatchDone(s)
      PROVE  Inv'
  <2>1. TypeOK'
    BY <1>25 DEF WatchDone
  <2>2. (LockInv /\ FieldInv)'
    BY <1>25, SMTT(30) DEF WatchDone
  <2>3. StageInv'
    BY <1>25 DEF WatchDone
  <2>4. (ResourceInv /\ RoutesHaveAdapter)'
    BY <1>25 DEF WatchDone
  <2>5. (StaleWatcherHarmless /\ GenInv)'
    BY <1>25 DEF WatchDone
  <2>6. ErrInv'
    BY <1>25 DEF WatchDone
  <2> QED
    BY <2>1, <2>2, <2>3, <2>4, <2>5, <2>6
<1>26. ASSUME NEW s \in Sessions, WatchEnter(s)
      PROVE  Inv'
  BY <1>26 DEF WatchEnter
<1>27. ASSUME NEW s \in Sessions, WatchUnlock(s)
      PROVE  Inv'
  BY <1>27 DEF WatchUnlock
<1>28. ASSUME NEW s \in Sessions, NEW l \in Loops, LoopMove(s, l)
      PROVE  Inv'
  BY <1>28 DEF LoopMove
<1>29. CASE UNCHANGED vars
  <2>1. TypeOK'
    BY <1>29 DEF vars
  <2>2. (LockInv /\ FieldInv)'
    BY <1>29 DEF vars
  <2>3. StageInv'
    BY <1>29 DEF vars
  <2>4. (ResourceInv /\ RoutesHaveAdapter)'
    BY <1>29 DEF vars
  <2>5. (StaleWatcherHarmless /\ GenInv)'
    BY <1>29 DEF vars
  <2>6. ErrInv'
    BY <1>29 DEF vars
  <2> QED
    BY <2>1, <2>2, <2>3, <2>4, <2>5, <2>6
<1> HIDE DEF Inv
<1> QED
  BY LoopMoves,
     <1>1, <1>2, <1>3, <1>4, <1>5, <1>6, <1>7, <1>8, <1>9, <1>10,
     <1>11, <1>12, <1>13, <1>14, <1>14a, <1>14b, <1>14c, <1>15,
     <1>16, <1>17, <1>18, <1>19, <1>20, <1>21, <1>22, <1>23, <1>24, <1>25,
     <1>26, <1>27, <1>28, <1>29
  DEF Next, Connect, Stop, Watcher

(* The invariant holds in every reachable state.                           *)
LEMMA Invariance == Spec => []Inv
<1>1. Inv /\ UNCHANGED vars => Inv'
  BY StepInv
<1> QED
  BY InitInv, StepInv, PTL DEF Spec

-----------------------------------------------------------------------------
(* Type correctness of the controller's fields, objects and goroutines.    *)
THEOREM TypeCorrect == Spec => []TypeOK
<1>1. Inv => TypeOK
  BY DEF Inv, Core
<1> QED
  BY <1>1, Invariance, PTL

(* Two sessions never hold an adapter, a socket, routes or running loops   *)
(* at the same time, however many callers switch, disconnect and fail:     *)
(* stopLocked's eng.Wait and the error paths of Connect leave nothing for  *)
(* the next session to race with.                                          *)
THEOREM AtMostOneTunnel == Spec => []OneLiveTunnel
<1>1. Inv => OneLiveTunnel
  <2> SUFFICES ASSUME Inv, NEW s \in Sessions, NEW t \in Sessions,
                      Live(s), Live(t)
               PROVE  s = t
    BY DEF OneLiveTunnel
  <2>1. CASE \E c \in Callers : pc[c] \in BuildPcs
    <3>1. ~running /\ cur = NoSession
      BY <2>1 DEF Inv, Core, FieldInv, TypeOK
    <3> QED
      BY <3>1, ProcFacts DEF Inv, ResourceInv, NoSession
  <2>2. CASE ~\E c \in Callers : pc[c] \in BuildPcs
    BY <2>2 DEF Inv, ResourceInv
  <2> QED
    BY <2>1, <2>2
<1> QED
  BY <1>1, Invariance, PTL

(* Whenever t.mu is free, only the current session holds anything, and     *)
(* Status reports it.                                                      *)
THEOREM NothingOrphaned == Spec => []NoOrphans
<1>1. Inv => NoOrphans
  <2> SUFFICES ASSUME Inv, mu = Nobody, NEW s \in Sessions, Live(s)
               PROVE  cur = s /\ Status(FALSE).state # "disconnected"
    BY DEF NoOrphans
  <2>1. \A c \in Callers : pc[c] \notin BuildPcs
    BY ProcFacts DEF Inv, Core, LockInv, HeldPcs, StopPcs, BuildPcs, Procs,
                     Nobody
  <2>2. cur = s
    BY <2>1 DEF Inv, ResourceInv
  <2>3. running /\ cur # NoSession
    BY <2>2, ProcFacts DEF Inv, Core, FieldInv, NoSession
  <2> QED
    BY <2>2, <2>3 DEF Status
<1> QED
  BY <1>1, Invariance, PTL

(* The generation counter does its job: a watcher never tears down a       *)
(* session other than its own.                                             *)
THEOREM WatchersStopTheirOwn == Spec => []StaleWatcherHarmless
<1>1. Inv => StaleWatcherHarmless
  BY DEF Inv
<1> QED
  BY <1>1, Invariance, PTL

(* Routes and DNS never outlive the adapter they are configured on.        *)
THEOREM CleanupBeforeAdapter == Spec => []RoutesHaveAdapter
<1>1. Inv => RoutesHaveAdapter
  BY DEF Inv
<1> QED
  BY <1>1, Invariance, PTL

(* A failing loop never blocks on errChan: two slots are enough for two    *)
(* loops.                                                                  *)
THEOREM ErrorsNeverBlock == Spec => []ErrChanHasRoom
<1>1. Inv => ErrChanHasRoom
  BY DEF Inv, Core, TypeOK, ErrInv, Sent, ErrChanHasRoom, ErrCap, Loops
<1> QED
  BY <1>1, Invariance, PTL

-----------------------------------------------------------------------------
(* The refinement.                                                         *)

(* What a call knows of itself, and that it has its answer when it is      *)
(* about to unlock.                                                        *)
CallInv ==
  \A c \in Callers :
    /\ pc[c] # "idle" => op[c] \in {"connect", "disconnect"}
    /\ pc[c] # "idle" /\ op[c] = "connect" => arg[c] \in Names
    /\ pc[c] \in {"parse", "adapter"} \cup BuildPcs => op[c] = "connect"
    /\ pc[c] = "unlock" => res[c] \in {"ok", "err"}
    /\ pc[c] \in {"undoRoutes", "undoConn", "undoTun"} => res[c] = "err"

(* The tunnel has a name exactly when it is up.                            *)
NameInv == IF running THEN name \in Names ELSE name = NoName

(* Until stopLocked has begun the current session has the generation the   *)
(* watcher compares with.                                                  *)
FreshInv ==
  running /\ (\A p \in Procs : pc[p] \notin StopPcs) => gen = sgen[cur]

RInv == Inv /\ CallInv /\ NameInv /\ FreshInv

(* Every step preserves the invariant of the refinement.                   *)
LEMMA StepRInv == RInv /\ [Next]_vars => RInv'
<1> SUFFICES ASSUME RInv, [Next]_vars PROVE (CallInv /\ NameInv /\ FreshInv)'
  BY StepInv DEF RInv
<1>0. TypeOK /\ LockInv /\ FieldInv
  BY DEF RInv, Inv, Core
<1>a. running => cur \in Sessions
  BY <1>0 DEF TypeOK, FieldInv
<1> USE ProcFacts, NamesAssumption
    DEF Procs, Nobody, CallerPcs, WatcherPcs, HeldPcs, StopPcs, BuildPcs,
        Goto, fields, objects, engine, call
<1>1. ASSUME NEW c \in Callers, NEW n \in Names, CallConnect(c, n)
      PROVE  (CallInv /\ NameInv /\ FreshInv)'
  <2>1. CallInv'
    BY <1>0, <1>1 DEF RInv, CallInv, CallConnect, TypeOK, LockInv
  <2>2. NameInv'
    BY <1>0, <1>1 DEF RInv, CallInv, NameInv, CallConnect, TypeOK, FieldInv
  <2>3. FreshInv'
    BY <1>0, <1>a, <1>1
    DEF RInv, FreshInv, CallConnect, TypeOK, LockInv, FieldInv
  <2> QED
    BY <2>1, <2>2, <2>3
<1>2. ASSUME NEW c \in Callers, CallDisconnect(c)
      PROVE  (CallInv /\ NameInv /\ FreshInv)'
  <2>1. CallInv'
    BY <1>0, <1>2 DEF RInv, CallInv, CallDisconnect, TypeOK, LockInv
  <2>2. NameInv'
    BY <1>0, <1>2 DEF RInv, CallInv, NameInv, CallDisconnect, TypeOK, FieldInv
  <2>3. FreshInv'
    BY <1>0, <1>a, <1>2
    DEF RInv, FreshInv, CallDisconnect, TypeOK, LockInv, FieldInv
  <2> QED
    BY <2>1, <2>2, <2>3
<1>3. ASSUME NEW c \in Callers, Return(c)
      PROVE  (CallInv /\ NameInv /\ FreshInv)'
  <2>1. CallInv'
    BY <1>0, <1>3 DEF RInv, CallInv, Return, TypeOK, LockInv
  <2>2. NameInv'
    BY <1>0, <1>3 DEF RInv, CallInv, NameInv, Return, TypeOK, FieldInv
  <2>3. FreshInv'
    BY <1>0, <1>a, <1>3 DEF RInv, FreshInv, Return, TypeOK, LockInv, FieldInv
  <2> QED
    BY <2>1, <2>2, <2>3
<1>4. ASSUME NEW c \in Callers, DisconnectEnter(c)
      PROVE  (CallInv /\ NameInv /\ FreshInv)'
  <2>1. CallInv'
    BY <1>0, <1>4 DEF RInv, CallInv, DisconnectEnter, TypeOK, LockInv
  <2>2. NameInv'
    BY <1>0, <1>4
    DEF RInv, CallInv, NameInv, DisconnectEnter, TypeOK, FieldInv
  <2>3. FreshInv'
    BY <1>0, <1>a, <1>4
    DEF RInv, FreshInv, DisconnectEnter, TypeOK, LockInv, FieldInv
  <2> QED
    BY <2>1, <2>2, <2>3
<1>5. ASSUME NEW c \in Callers, ConnectEnter(c)
      PROVE  (CallInv /\ NameInv /\ FreshInv)'
  <2>1. CallInv'
    BY <1>0, <1>5 DEF RInv, CallInv, ConnectEnter, TypeOK, LockInv
  <2>2. NameInv'
    BY <1>0, <1>5 DEF RInv, CallInv, NameInv, ConnectEnter, TypeOK, FieldInv
  <2>3. FreshInv'
    BY <1>0, <1>a, <1>5
    DEF RInv, FreshInv, ConnectEnter, TypeOK, LockInv, FieldInv
  <2> QED
    BY <2>1, <2>2, <2>3
<1>6. ASSUME NEW c \in Callers, ParseConfig(c)
      PROVE  (CallInv /\ NameInv /\ FreshInv)'
  <2>1. CallInv'
    BY <1>0, <1>6 DEF RInv, CallInv, ParseConfig, TypeOK, LockInv
  <2>2. NameInv'
    BY <1>0, <1>6 DEF RInv, CallInv, NameInv, ParseConfig, TypeOK, FieldInv
  <2>3. FreshInv'
    BY <1>0, <1>a, <1>6
    DEF RInv, FreshInv, ParseConfig, TypeOK, LockInv, FieldInv
  <2> QED
    BY <2>1, <2>2, <2>3
<1>7. ASSUME NEW c \in Callers, ParseConfigFails(c)
      PROVE  (CallInv /\ NameInv /\ FreshInv)'
  <2>1. CallInv'
    BY <1>0, <1>7 DEF RInv, CallInv, ParseConfigFails, Fail, TypeOK, LockInv
  <2>2. NameInv'
    BY <1>0, <1>7
    DEF RInv, CallInv, NameInv, ParseConfigFails, Fail, TypeOK, FieldInv
  <2>3. FreshInv'
    BY <1>0, <1>a, <1>7
    DEF RInv, FreshInv, ParseConfigFails, Fail, TypeOK, LockInv, FieldInv
  <2> QED
    BY <2>1, <2>2, <2>3
<1>8. ASSUME NEW c \in Callers, NewTunDevice(c)
      PROVE  (CallInv /\ NameInv /\ FreshInv)'
  <2>1. CallInv'
    BY <1>0, <1>8 DEF RInv, CallInv, NewTunDevice, TypeOK, LockInv
  <2>2. NameInv'
    BY <1>0, <1>8 DEF RInv, CallInv, NameInv, NewTunDevice, TypeOK, FieldInv
  <2>3. FreshInv'
    BY <1>0, <1>a, <1>8
    DEF RInv, FreshInv, NewTunDevice, TypeOK, LockInv, FieldInv
  <2> QED
    BY <2>1, <2>2, <2>3
<1>9. ASSUME NEW c \in Callers, NewTunDeviceFails(c)
      PROVE  (CallInv /\ NameInv /\ FreshInv)'
  <2>1. CallInv'
    BY <1>0, <1>9 DEF RInv, CallInv, NewTunDeviceFails, Fail, TypeOK, LockInv
  <2>2. NameInv'
    BY <1>0, <1>9
    DEF RInv, CallInv, NameInv, NewTunDeviceFails, Fail, TypeOK, FieldInv
  <2>3. FreshInv'
    BY <1>0, <1>a, <1>9
    DEF RInv, FreshInv, NewTunDeviceFails, Fail, TypeOK, LockInv, FieldInv
  <2> QED
    BY <2>1, <2>2, <2>3
<1>10. ASSUME NEW c \in Callers, BindUDP(c)
      PROVE  (CallInv /\ NameInv /\ FreshInv)'
  <2>1. CallInv'
    BY <1>0, <1>10 DEF RInv, CallInv, BindUDP, TypeOK, LockInv
  <2>2. NameInv'
    BY <1>0, <1>10 DEF RInv, CallInv, NameInv, BindUDP, TypeOK, FieldInv
  <2>3. FreshInv'
    BY <1>0, <1>a, <1>10
    DEF RInv, FreshInv, BindUDP, TypeOK, LockInv, FieldInv
  <2> QED
    BY <2>1, <2>2, <2>3
<1>11. ASSUME NEW c \in Callers, BindUDPFails(c)
      PROVE  (CallInv /\ NameInv /\ FreshInv)'
  <2>1. CallInv'
    BY <1>0, <1>11 DEF RInv, CallInv, BindUDPFails, Fail, TypeOK, LockInv
  <2>2. NameInv'
    BY <1>0, <1>11
    DEF RInv, CallInv, NameInv, BindUDPFails, Fail, TypeOK, FieldInv
  <2>3. FreshInv'
    BY <1>0, <1>a, <1>11
    DEF RInv, FreshInv, BindUDPFails, Fail, TypeOK, LockInv, FieldInv
  <2> QED
    BY <2>1, <2>2, <2>3
<1>12. ASSUME NEW c \in Callers, ConfigureRouting(c)
      PROVE  (CallInv /\ NameInv /\ FreshInv)'
  <2>1. CallInv'
    BY <1>0, <1>12 DEF RInv, CallInv, ConfigureRouting, TypeOK, LockInv
  <2>2. NameInv'
    BY <1>0, <1>12
    DEF RInv, CallInv, NameInv, ConfigureRouting, TypeOK, FieldInv
  <2>3. FreshInv'
    BY <1>0, <1>a, <1>12
    DEF RInv, FreshInv, ConfigureRouting, TypeOK, LockInv, FieldInv
  <2> QED
    BY <2>1, <2>2, <2>3
<1>13. ASSUME NEW c \in Callers, ConfigureRoutingFails(c)
      PROVE  (CallInv /\ NameInv /\ FreshInv)'
  <2>1. CallInv'
    BY <1>0, <1>13
    DEF RInv, CallInv, ConfigureRoutingFails, Fail, TypeOK, LockInv
  <2>2. NameInv'
    BY <1>0, <1>13
    DEF RInv, CallInv, NameInv, ConfigureRoutingFails, Fail, TypeOK, FieldInv
  <2>3. FreshInv'
    BY <1>0, <1>a, <1>13
    DEF RInv, FreshInv, ConfigureRoutingFails, Fail, TypeOK, LockInv, FieldInv
  <2> QED
    BY <2>1, <2>2, <2>3
<1>14. ASSUME NEW c \in Callers, NewEngineFails(c)
      PROVE  (CallInv /\ NameInv /\ FreshInv)'
  <2>1. CallInv'
    BY <1>0, <1>14 DEF RInv, CallInv, NewEngineFails, Fail, TypeOK, LockInv
  <2>2. NameInv'
    BY <1>0, <1>14
    DEF RInv, CallInv, NameInv, NewEngineFails, Fail, TypeOK, FieldInv
  <2>3. FreshInv'
    BY <1>0, <1>a, <1>14
    DEF RInv, FreshInv, NewEngineFails, Fail, TypeOK, LockInv, FieldInv
  <2> QED
    BY <2>1, <2>2, <2>3
<1>14a. ASSUME NEW c \in Callers, UndoRoutes(c)
      PROVE  (CallInv /\ NameInv /\ FreshInv)'
  <2>1. CallInv'
    BY <1>0, <1>14a DEF RInv, CallInv, UndoRoutes, TypeOK, LockInv
  <2>2. NameInv'
    BY <1>0, <1>14a DEF RInv, CallInv, NameInv, UndoRoutes, TypeOK, FieldInv
  <2>3. FreshInv'
    BY <1>0, <1>a, <1>14a
    DEF RInv, FreshInv, UndoRoutes, TypeOK, LockInv, FieldInv
  <2> QED
    BY <2>1, <2>2, <2>3
<1>14b. ASSUME NEW c \in Callers, UndoConn(c)
      PROVE  (CallInv /\ NameInv /\ FreshInv)'
  <2>1. CallInv'
    BY <1>0, <1>14b DEF RInv, CallInv, UndoConn, TypeOK, LockInv
  <2>2. NameInv'
    BY <1>0, <1>14b DEF RInv, CallInv, NameInv, UndoConn, TypeOK, FieldInv
  <2>3. FreshInv'
    BY <1>0, <1>a, <1>14b
    DEF RInv, FreshInv, UndoConn, TypeOK, LockInv, FieldInv
  <2> QED
    BY <2>1, <2>2, <2>3
<1>14c. ASSUME NEW c \in Callers, UndoTun(c)
      PROVE  (CallInv /\ NameInv /\ FreshInv)'
  <2>1. CallInv'
    BY <1>0, <1>14c DEF RInv, CallInv, UndoTun, TypeOK, LockInv
  <2>2. NameInv'
    BY <1>0, <1>14c DEF RInv, CallInv, NameInv, UndoTun, TypeOK, FieldInv
  <2>3. FreshInv'
    BY <1>0, <1>a, <1>14c
    DEF RInv, FreshInv, UndoTun, TypeOK, LockInv, FieldInv
  <2> QED
    BY <2>1, <2>2, <2>3
<1>15. ASSUME NEW c \in Callers, Publish(c)
      PROVE  (CallInv /\ NameInv /\ FreshInv)'
  <2>1. CallInv'
    BY <1>0, <1>15 DEF RInv, CallInv, Publish, TypeOK, LockInv
  <2>2. NameInv'
    BY <1>0, <1>15 DEF RInv, CallInv, NameInv, Publish, TypeOK, FieldInv
  <2>3. FreshInv'
    BY <1>0, <1>a, <1>15
    DEF RInv, FreshInv, Publish, TypeOK, LockInv, FieldInv
  <2> QED
    BY <2>1, <2>2, <2>3
<1>16. ASSUME NEW p \in Procs, Lock(p)
      PROVE  (CallInv /\ NameInv /\ FreshInv)'
  <2>1. CallInv'
    BY <1>0, <1>16 DEF RInv, CallInv, Lock, TypeOK, LockInv
  <2>2. NameInv'
    BY <1>0, <1>16 DEF RInv, CallInv, NameInv, Lock, TypeOK, FieldInv
  <2>3. FreshInv'
    BY <1>0, <1>a, <1>16 DEF RInv, FreshInv, Lock, TypeOK, LockInv, FieldInv
  <2> QED
    BY <2>1, <2>2, <2>3
<1>17. ASSUME NEW p \in Procs, StopEngine(p)
      PROVE  (CallInv /\ NameInv /\ FreshInv)'
  <2>1. CallInv'
    BY <1>0, <1>17 DEF RInv, CallInv, StopEngine, TypeOK, LockInv
  <2>2. NameInv'
    BY <1>0, <1>17 DEF RInv, CallInv, NameInv, StopEngine, TypeOK, FieldInv
  <2>3. FreshInv'
    BY <1>0, <1>a, <1>17
    DEF RInv, FreshInv, StopEngine, TypeOK, LockInv, FieldInv
  <2> QED
    BY <2>1, <2>2, <2>3
<1>18. ASSUME NEW p \in Procs, StopRoutes(p)
      PROVE  (CallInv /\ NameInv /\ FreshInv)'
  <2>1. CallInv'
    BY <1>0, <1>18 DEF RInv, CallInv, StopRoutes, TypeOK, LockInv
  <2>2. NameInv'
    BY <1>0, <1>18 DEF RInv, CallInv, NameInv, StopRoutes, TypeOK, FieldInv
  <2>3. FreshInv'
    BY <1>0, <1>a, <1>18
    DEF RInv, FreshInv, StopRoutes, TypeOK, LockInv, FieldInv
  <2> QED
    BY <2>1, <2>2, <2>3
<1>19. ASSUME NEW p \in Procs, StopConn(p)
      PROVE  (CallInv /\ NameInv /\ FreshInv)'
  <2>1. CallInv'
    BY <1>0, <1>19 DEF RInv, CallInv, StopConn, TypeOK, LockInv
  <2>2. NameInv'
    BY <1>0, <1>19 DEF RInv, CallInv, NameInv, StopConn, TypeOK, FieldInv
  <2>3. FreshInv'
    BY <1>0, <1>a, <1>19
    DEF RInv, FreshInv, StopConn, TypeOK, LockInv, FieldInv
  <2> QED
    BY <2>1, <2>2, <2>3
<1>20. ASSUME NEW p \in Procs, StopTun(p)
      PROVE  (CallInv /\ NameInv /\ FreshInv)'
  <2>1. CallInv'
    BY <1>0, <1>20 DEF RInv, CallInv, StopTun, TypeOK, LockInv
  <2>2. NameInv'
    BY <1>0, <1>20 DEF RInv, CallInv, NameInv, StopTun, TypeOK, FieldInv
  <2>3. FreshInv'
    BY <1>0, <1>a, <1>20
    DEF RInv, FreshInv, StopTun, TypeOK, LockInv, FieldInv
  <2> QED
    BY <2>1, <2>2, <2>3
<1>21. ASSUME NEW p \in Procs, StopTunDone(p)
      PROVE  (CallInv /\ NameInv /\ FreshInv)'
  <2>1. CallInv'
    BY <1>0, <1>21 DEF RInv, CallInv, StopTunDone, TypeOK, LockInv
  <2>2. NameInv'
    BY <1>0, <1>21 DEF RInv, CallInv, NameInv, StopTunDone, TypeOK, FieldInv
  <2>3. FreshInv'
    BY <1>0, <1>a, <1>21
    DEF RInv, FreshInv, StopTunDone, TypeOK, LockInv, FieldInv
  <2> QED
    BY <2>1, <2>2, <2>3
<1>22. ASSUME NEW p \in Procs, StopWait(p)
      PROVE  (CallInv /\ NameInv /\ FreshInv)'
  <2>1. CallInv'
    BY <1>0, <1>22 DEF RInv, CallInv, StopWait, TypeOK, LockInv
  <2>2. NameInv'
    BY <1>0, <1>22 DEF RInv, CallInv, NameInv, StopWait, TypeOK, FieldInv
  <2>3. FreshInv'
    BY <1>0, <1>a, <1>22
    DEF RInv, FreshInv, StopWait, TypeOK, LockInv, FieldInv
  <2> QED
    BY <2>1, <2>2, <2>3
<1>23. ASSUME NEW p \in Procs, StopClear(p)
      PROVE  (CallInv /\ NameInv /\ FreshInv)'
  <2>1. CallInv'
    BY <1>0, <1>23 DEF RInv, CallInv, StopClear, Switching, TypeOK, LockInv
  <2>2. NameInv'
    BY <1>0, <1>23
    DEF RInv, CallInv, NameInv, StopClear, Switching, TypeOK, FieldInv
  <2>3. FreshInv'
    BY <1>0, <1>a, <1>23
    DEF RInv, FreshInv, StopClear, Switching, TypeOK, LockInv, FieldInv
  <2> QED
    BY <2>1, <2>2, <2>3
<1>24. ASSUME NEW s \in Sessions, WatchErr(s)
      PROVE  (CallInv /\ NameInv /\ FreshInv)'
  <2>1. CallInv'
    BY <1>0, <1>24 DEF RInv, CallInv, WatchErr, TypeOK, LockInv
  <2>2. NameInv'
    BY <1>0, <1>24 DEF RInv, CallInv, NameInv, WatchErr, TypeOK, FieldInv
  <2>3. FreshInv'
    BY <1>0, <1>a, <1>24
    DEF RInv, FreshInv, WatchErr, TypeOK, LockInv, FieldInv
  <2> QED
    BY <2>1, <2>2, <2>3
<1>25. ASSUME NEW s \in Sessions, WatchDone(s)
      PROVE  (CallInv /\ NameInv /\ FreshInv)'
  <2>1. CallInv'
    BY <1>0, <1>25 DEF RInv, CallInv, WatchDone, TypeOK, LockInv
  <2>2. NameInv'
    BY <1>0, <1>25 DEF RInv, CallInv, NameInv, WatchDone, TypeOK, FieldInv
  <2>3. FreshInv'
    BY <1>0, <1>a, <1>25
    DEF RInv, FreshInv, WatchDone, TypeOK, LockInv, FieldInv
  <2> QED
    BY <2>1, <2>2, <2>3
<1>26. ASSUME NEW s \in Sessions, WatchEnter(s)
      PROVE  (CallInv /\ NameInv /\ FreshInv)'
  <2>1. CallInv'
    BY <1>0, <1>26 DEF RInv, CallInv, WatchEnter, TypeOK, LockInv
  <2>2. NameInv'
    BY <1>0, <1>26 DEF RInv, CallInv, NameInv, WatchEnter, TypeOK, FieldInv
  <2>3. FreshInv'
    BY <1>0, <1>a, <1>26
    DEF RInv, FreshInv, WatchEnter, TypeOK, LockInv, FieldInv
  <2> QED
    BY <2>1, <2>2, <2>3
<1>27. ASSUME NEW s \in Sessions, WatchUnlock(s)
      PROVE  (CallInv /\ NameInv /\ FreshInv)'
  <2>1. CallInv'
    BY <1>0, <1>27 DEF RInv, CallInv, WatchUnlock, TypeOK, LockInv
  <2>2. NameInv'
    BY <1>0, <1>27 DEF RInv, CallInv, NameInv, WatchUnlock, TypeOK, FieldInv
  <2>3. FreshInv'
    BY <1>0, <1>a, <1>27
    DEF RInv, FreshInv, WatchUnlock, TypeOK, LockInv, FieldInv
  <2> QED
    BY <2>1, <2>2, <2>3
<1>28. ASSUME NEW s \in Sessions, NEW l \in Loops, LoopMove(s, l)
      PROVE  (CallInv /\ NameInv /\ FreshInv)'
  <2>1. CallInv'
    BY <1>0, <1>28 DEF RInv, CallInv, LoopMove, TypeOK, LockInv
  <2>2. NameInv'
    BY <1>0, <1>28 DEF RInv, CallInv, NameInv, LoopMove, TypeOK, FieldInv
  <2>3. FreshInv'
    BY <1>0, <1>a, <1>28
    DEF RInv, FreshInv, LoopMove, TypeOK, LockInv, FieldInv
  <2> QED
    BY <2>1, <2>2, <2>3
<1>29. CASE UNCHANGED vars
  BY <1>29 DEF RInv, CallInv, NameInv, FreshInv, vars
<1> QED
  BY LoopMoves, <1>1, <1>2, <1>3, <1>4, <1>5, <1>6, <1>7, <1>8, <1>9, <1>10,
     <1>11, <1>12, <1>13, <1>14, <1>14a, <1>14b, <1>14c, <1>15,
     <1>16, <1>17, <1>18, <1>19, <1>20, <1>21, <1>22, <1>23, <1>24, <1>25,
     <1>26, <1>27, <1>28, <1>29
  DEF Next, Connect, Stop, Watcher

(* The invariant of the refinement holds in every reachable state.         *)
LEMMA RInvariance == Spec => []RInv
<1>1. Init => RInv
  <2> SUFFICES ASSUME Init PROVE RInv
    OBVIOUS
  <2>1. ~running
    BY Zenon DEF Init
  <2>2. CallInv
    BY ProcFacts DEF Init, CallInv, Procs, BuildPcs
  <2>3. NameInv /\ FreshInv
    BY <2>1 DEF Init, NameInv, FreshInv
  <2> QED
    BY <2>2, <2>3, InitInv DEF RInv
<1> QED
  BY <1>1, StepRInv, PTL DEF Spec

(* Answer and its next value, without CASE.                                *)
LEMMA Answers ==
  ASSUME NEW c \in Callers
  PROVE  /\ Answer(c) = IF pc[c] = "idle" THEN "idle"
                        ELSE IF pc[c] = "unlock" THEN res[c] ELSE op[c]
         /\ Answer(c)' = IF pc'[c] = "idle" THEN "idle"
                         ELSE IF pc'[c] = "unlock" THEN res'[c] ELSE op'[c]
BY DEF Answer

(* The call a step answers or makes is the only one that changes.          *)
Answered(c, a) ==
  [d \in Callers |-> Answer(d)]'
    = [[d \in Callers |-> Answer(d)] EXCEPT ![c] = a]

LEMMA AnsweredBy ==
  ASSUME NEW c \in Callers, NEW a,
         \A d \in Callers : Answer(d)' = IF d = c THEN a ELSE Answer(d)
  PROVE  Answered(c, a)
BY DEF Answered

LEMMA NobodyAnswered ==
  ASSUME \A d \in Callers : Answer(d)' = Answer(d)
  PROVE  [d \in Callers |-> Answer(d)]' = [d \in Callers |-> Answer(d)]
OBVIOUS

(* Every step of the controller is a step of TunnelService or changes none *)
(* of what its callers can tell apart.                                     *)
LEMMA StepRefines == RInv /\ [Next]_vars => [Service!Next]_(Service!vars)
<1> SUFFICES ASSUME RInv, [Next]_vars PROVE [Service!Next]_(Service!vars)
  OBVIOUS
<1>0. TypeOK /\ LockInv /\ FieldInv /\ CallInv /\ NameInv
  BY DEF RInv, Inv, Core
<1>a. running => cur \in Sessions
  BY <1>0 DEF TypeOK, FieldInv
<1> USE ProcFacts, NamesAssumption, Answers
    DEF Procs, Nobody, CallerPcs, WatcherPcs, HeldPcs, StopPcs, BuildPcs,
        Goto, fields, objects, engine, call
<1>1. ASSUME NEW c \in Callers, NEW n \in Names, CallConnect(c, n)
      PROVE  Service!CallConnect(c, n)
  <2>1. \A d \in Callers :
          Answer(d)' = IF d = c THEN "connect" ELSE Answer(d)
    BY <1>0, <1>1 DEF CallConnect, TypeOK, LockInv, CallInv
  <2>2. Faulted' = Faulted
    BY <1>0, <1>a, <1>1 DEF CallConnect, Faulted, TypeOK, LockInv, FieldInv
  <2>3. Answer(c) = "idle" /\ name' = name /\ arg' = [arg EXCEPT ![c] = n]
    BY <1>0, <1>1 DEF CallConnect, TypeOK, FieldInv, NameInv, CallInv
  <2>4. Answered(c, "connect")
    BY <2>1, AnsweredBy
  <2> QED
    BY <2>2, <2>3, <2>4 DEF Service!CallConnect, Answered
<1>2. ASSUME NEW c \in Callers, CallDisconnect(c)
      PROVE  Service!CallDisconnect(c)
  <2>1. \A d \in Callers :
          Answer(d)' = IF d = c THEN "disconnect" ELSE Answer(d)
    BY <1>0, <1>2, SMTT(30) DEF CallDisconnect, TypeOK, LockInv, CallInv
  <2>2. Faulted' = Faulted
    BY <1>0, <1>a, <1>2 DEF CallDisconnect, Faulted, TypeOK, LockInv, FieldInv
  <2>3. Answer(c) = "idle" /\ name' = name /\ arg' = arg
    BY <1>0, <1>2 DEF CallDisconnect, TypeOK, FieldInv, NameInv, CallInv
  <2>4. Answered(c, "disconnect")
    BY <2>1, AnsweredBy
  <2> QED
    BY <2>2, <2>3, <2>4 DEF Service!CallDisconnect, Answered
<1>3. ASSUME NEW c \in Callers, Return(c)
      PROVE  Service!Return(c)
  <2>1. \A d \in Callers :
          Answer(d)' = IF d = c THEN "idle" ELSE Answer(d)
    BY <1>0, <1>3 DEF Return, TypeOK, LockInv, CallInv
  <2>2. Faulted' = Faulted
    BY <1>0, <1>a, <1>3 DEF Return, Faulted, TypeOK, LockInv, FieldInv
  <2>3. /\ Answer(c) \in {"ok", "err"} /\ name' = name
        /\ arg' = [arg EXCEPT ![c] = NoName]
    BY <1>0, <1>3 DEF Return, TypeOK, FieldInv, NameInv, CallInv
  <2>4. Answered(c, "idle")
    BY <2>1, AnsweredBy
  <2> QED
    BY <2>2, <2>3, <2>4 DEF Service!Return, Answered
<1>4. ASSUME NEW c \in Callers, DisconnectEnter(c)
      PROVE  UNCHANGED Service!vars \/ Service!DisconnectDone(c)
  <2>1. Faulted' = Faulted /\ arg' = arg /\ name' = name
    BY <1>0, <1>a, <1>4
    DEF DisconnectEnter, Faulted, TypeOK, LockInv, FieldInv
  <2>2. CASE running
    <3>1. \A d \in Callers : Answer(d)' = Answer(d)
      BY <1>0, <1>4, <2>2 DEF DisconnectEnter, TypeOK, LockInv
    <3> QED
      BY <2>1, <3>1, NobodyAnswered DEF Service!vars
  <2>3. CASE ~running
    <3>1. \A d \in Callers : Answer(d)' = IF d = c THEN "ok" ELSE Answer(d)
      BY <1>0, <1>4, <2>3, SMTT(30) DEF DisconnectEnter, TypeOK, LockInv
    <3>2. Answer(c) = "disconnect" /\ name' = NoName
      BY <1>0, <1>4, <2>1, <2>3 DEF DisconnectEnter, NameInv
    <3>3. Faulted' = FALSE
      BY <2>1, <2>3 DEF Faulted
    <3>4. Answered(c, "ok")
      BY <3>1, AnsweredBy
    <3> QED
      BY <2>1, <3>2, <3>3, <3>4 DEF Service!DisconnectDone, Answered
  <2> QED
    BY <2>2, <2>3
<1>5. ASSUME NEW c \in Callers, ConnectEnter(c)
      PROVE  UNCHANGED Service!vars
  <2>1. \A d \in Callers : Answer(d)' = Answer(d)
    BY <1>0, <1>5 DEF ConnectEnter, TypeOK, LockInv
  <2>2. Faulted' = Faulted
    BY <1>0, <1>a, <1>5 DEF ConnectEnter, Faulted, TypeOK, LockInv, FieldInv
  <2>3. name' = name /\ arg' = arg
    BY <1>5 DEF ConnectEnter
  <2> QED
    BY <2>1, <2>2, <2>3, NobodyAnswered DEF Service!vars
<1>6. ASSUME NEW c \in Callers, ParseConfig(c)
      PROVE  UNCHANGED Service!vars
  <2>1. \A d \in Callers : Answer(d)' = Answer(d)
    BY <1>0, <1>6 DEF ParseConfig, TypeOK, LockInv
  <2>2. Faulted' = Faulted
    BY <1>0, <1>a, <1>6 DEF ParseConfig, Faulted, TypeOK, LockInv, FieldInv
  <2>3. name' = name /\ arg' = arg
    BY <1>6 DEF ParseConfig
  <2> QED
    BY <2>1, <2>2, <2>3, NobodyAnswered DEF Service!vars
<1>7. ASSUME NEW c \in Callers, NewTunDevice(c)
      PROVE  UNCHANGED Service!vars
  <2>1. \A d \in Callers : Answer(d)' = Answer(d)
    BY <1>0, <1>7 DEF NewTunDevice, TypeOK, LockInv
  <2>2. Faulted' = Faulted
    BY <1>0, <1>a, <1>7 DEF NewTunDevice, Faulted, TypeOK, LockInv, FieldInv
  <2>3. name' = name /\ arg' = arg
    BY <1>7 DEF NewTunDevice
  <2> QED
    BY <2>1, <2>2, <2>3, NobodyAnswered DEF Service!vars
<1>8. ASSUME NEW c \in Callers, BindUDP(c)
      PROVE  UNCHANGED Service!vars
  <2>1. \A d \in Callers : Answer(d)' = Answer(d)
    BY <1>0, <1>8 DEF BindUDP, TypeOK, LockInv
  <2>2. Faulted' = Faulted
    BY <1>0, <1>a, <1>8 DEF BindUDP, Faulted, TypeOK, LockInv, FieldInv
  <2>3. name' = name /\ arg' = arg
    BY <1>8 DEF BindUDP
  <2> QED
    BY <2>1, <2>2, <2>3, NobodyAnswered DEF Service!vars
<1>9. ASSUME NEW c \in Callers, ConfigureRouting(c)
      PROVE  UNCHANGED Service!vars
  <2>1. \A d \in Callers : Answer(d)' = Answer(d)
    BY <1>0, <1>9 DEF ConfigureRouting, TypeOK, LockInv
  <2>2. Faulted' = Faulted
    BY <1>0, <1>a, <1>9
    DEF ConfigureRouting, Faulted, TypeOK, LockInv, FieldInv
  <2>3. name' = name /\ arg' = arg
    BY <1>9 DEF ConfigureRouting
  <2> QED
    BY <2>1, <2>2, <2>3, NobodyAnswered DEF Service!vars
<1>10. ASSUME NEW c \in Callers, ParseConfigFails(c)
      PROVE  Service!ConnectFails(c)
  <2>1. \A d \in Callers :
          Answer(d)' = IF d = c THEN "err" ELSE Answer(d)
    BY <1>0, <1>10 DEF ParseConfigFails, Fail, TypeOK, LockInv, CallInv
  <2>2. Faulted' = Faulted
    BY <1>0, <1>a, <1>10
    DEF ParseConfigFails, Fail, Faulted, TypeOK, LockInv, FieldInv
  <2>3. Answer(c) = "connect" /\ name = NoName /\ name' = name /\ arg' = arg
    BY <1>0, <1>10
    DEF ParseConfigFails, Fail, TypeOK, FieldInv, NameInv, CallInv
  <2>4. Answered(c, "err")
    BY <2>1, AnsweredBy
  <2> QED
    BY <2>2, <2>3, <2>4 DEF Service!ConnectFails, Answered
<1>11. ASSUME NEW c \in Callers, NewTunDeviceFails(c)
      PROVE  Service!ConnectFails(c)
  <2>1. \A d \in Callers :
          Answer(d)' = IF d = c THEN "err" ELSE Answer(d)
    BY <1>0, <1>11 DEF NewTunDeviceFails, Fail, TypeOK, LockInv, CallInv
  <2>2. Faulted' = Faulted
    BY <1>0, <1>a, <1>11
    DEF NewTunDeviceFails, Fail, Faulted, TypeOK, LockInv, FieldInv
  <2>3. Answer(c) = "connect" /\ name = NoName /\ name' = name /\ arg' = arg
    BY <1>0, <1>11
    DEF NewTunDeviceFails, Fail, TypeOK, FieldInv, NameInv, CallInv
  <2>4. Answered(c, "err")
    BY <2>1, AnsweredBy
  <2> QED
    BY <2>2, <2>3, <2>4 DEF Service!ConnectFails, Answered
<1>12. ASSUME NEW c \in Callers, BindUDPFails(c)
      PROVE  UNCHANGED Service!vars
  <2>1. \A d \in Callers : Answer(d)' = Answer(d)
    BY <1>0, <1>12 DEF BindUDPFails, Fail, TypeOK, LockInv
  <2>2. Faulted' = Faulted
    BY <1>0, <1>a, <1>12
    DEF BindUDPFails, Fail, Faulted, TypeOK, LockInv, FieldInv
  <2>3. name' = name /\ arg' = arg
    BY <1>12 DEF BindUDPFails, Fail
  <2> QED
    BY <2>1, <2>2, <2>3, NobodyAnswered DEF Service!vars
<1>13. ASSUME NEW c \in Callers, ConfigureRoutingFails(c)
      PROVE  UNCHANGED Service!vars
  <2>1. \A d \in Callers : Answer(d)' = Answer(d)
    BY <1>0, <1>13 DEF ConfigureRoutingFails, Fail, TypeOK, LockInv
  <2>2. Faulted' = Faulted
    BY <1>0, <1>a, <1>13
    DEF ConfigureRoutingFails, Fail, Faulted, TypeOK, LockInv, FieldInv
  <2>3. name' = name /\ arg' = arg
    BY <1>13 DEF ConfigureRoutingFails, Fail
  <2> QED
    BY <2>1, <2>2, <2>3, NobodyAnswered DEF Service!vars
<1>14. ASSUME NEW c \in Callers, NewEngineFails(c)
      PROVE  UNCHANGED Service!vars
  <2>1. \A d \in Callers : Answer(d)' = Answer(d)
    BY <1>0, <1>14 DEF NewEngineFails, Fail, TypeOK, LockInv
  <2>2. Faulted' = Faulted
    BY <1>0, <1>a, <1>14
    DEF NewEngineFails, Fail, Faulted, TypeOK, LockInv, FieldInv
  <2>3. name' = name /\ arg' = arg
    BY <1>14 DEF NewEngineFails, Fail
  <2> QED
    BY <2>1, <2>2, <2>3, NobodyAnswered DEF Service!vars
<1>14a. ASSUME NEW c \in Callers, UndoRoutes(c)
      PROVE  UNCHANGED Service!vars
  <2>1. \A d \in Callers : Answer(d)' = Answer(d)
    BY <1>0, <1>14a DEF UndoRoutes, TypeOK, LockInv
  <2>2. Faulted' = Faulted
    BY <1>0, <1>a, <1>14a
    DEF UndoRoutes, Faulted, TypeOK, LockInv, FieldInv
  <2>3. name' = name /\ arg' = arg
    BY <1>14a DEF UndoRoutes
  <2> QED
    BY <2>1, <2>2, <2>3, NobodyAnswered DEF Service!vars
<1>14b. ASSUME NEW c \in Callers, UndoConn(c)
      PROVE  UNCHANGED Service!vars
  <2>1. \A d \in Callers : Answer(d)' = Answer(d)
    BY <1>0, <1>14b DEF UndoConn, TypeOK, LockInv
  <2>2. Faulted' = Faulted
    BY <1>0, <1>a, <1>14b
    DEF UndoConn, Faulted, TypeOK, LockInv, FieldInv
  <2>3. name' = name /\ arg' = arg
    BY <1>14b DEF UndoConn
  <2> QED
    BY <2>1, <2>2, <2>3, NobodyAnswered DEF Service!vars
<1>14c. ASSUME NEW c \in Callers, UndoTun(c)
      PROVE  Service!ConnectFails(c)
  <2>1. \A d \in Callers :
          Answer(d)' = IF d = c THEN "err" ELSE Answer(d)
    BY <1>0, <1>14c DEF UndoTun, TypeOK, LockInv, CallInv
  <2>2. Faulted' = Faulted
    BY <1>0, <1>a, <1>14c DEF UndoTun, Faulted, TypeOK, LockInv, FieldInv
  <2>3. Answer(c) = "connect" /\ name = NoName /\ name' = name /\ arg' = arg
    BY <1>0, <1>14c DEF UndoTun, TypeOK, FieldInv, NameInv, CallInv
  <2>4. Answered(c, "err")
    BY <2>1, AnsweredBy
  <2> QED
    BY <2>2, <2>3, <2>4 DEF Service!ConnectFails, Answered
<1>15. ASSUME NEW c \in Callers, Publish(c)
      PROVE  Service!ConnectUp(c)
  <2>a. nSess \in Sessions /\ errs[nSess] = 0
    BY <1>0, <1>15
    DEF Publish, FieldInv, RInv, Inv, ErrInv, StageInv, Built, Sent,
                   Loops, TypeOK
  <2>b. pc'[nSess] = "select" /\ errs' = errs /\ cur' = nSess
    BY <1>0, <2>a, <1>15 DEF Publish, TypeOK
  <2>1. \A d \in Callers :
          Answer(d)' = IF d = c THEN "ok" ELSE Answer(d)
    BY <1>0, <1>15 DEF Publish, TypeOK, LockInv, CallInv
  <2>2. Faulted' = FALSE
    BY <1>0, <1>a, <1>15, <2>a, <2>b
    DEF Publish, Faulted, TypeOK, LockInv, FieldInv
  <2>3. Answer(c) = "connect" /\ name = NoName /\ name' = arg[c] /\ arg' = arg
    BY <1>0, <1>15 DEF Publish, TypeOK, FieldInv, NameInv, CallInv
  <2>4. Answered(c, "ok")
    BY <2>1, AnsweredBy
  <2> QED
    BY <2>2, <2>3, <2>4 DEF Service!ConnectUp, Answered
<1>16. ASSUME NEW p \in Procs, Lock(p)
      PROVE  UNCHANGED Service!vars
  <2>1. \A d \in Callers : Answer(d)' = Answer(d)
    BY <1>0, <1>16 DEF Lock, TypeOK, LockInv
  <2>2. Faulted' = Faulted
    BY <1>0, <1>a, <1>16 DEF Lock, Faulted, TypeOK, LockInv, FieldInv
  <2>3. name' = name /\ arg' = arg
    BY <1>16 DEF Lock
  <2> QED
    BY <2>1, <2>2, <2>3, NobodyAnswered DEF Service!vars
<1>17. ASSUME NEW p \in Procs, StopEngine(p)
      PROVE  UNCHANGED Service!vars
  <2>1. \A d \in Callers : Answer(d)' = Answer(d)
    BY <1>0, <1>17 DEF StopEngine, TypeOK, LockInv
  <2>2. Faulted' = Faulted
    BY <1>0, <1>a, <1>17 DEF StopEngine, Faulted, TypeOK, LockInv, FieldInv
  <2>3. name' = name /\ arg' = arg
    BY <1>17 DEF StopEngine
  <2> QED
    BY <2>1, <2>2, <2>3, NobodyAnswered DEF Service!vars
<1>18. ASSUME NEW p \in Procs, StopRoutes(p)
      PROVE  UNCHANGED Service!vars
  <2>1. \A d \in Callers : Answer(d)' = Answer(d)
    BY <1>0, <1>18 DEF StopRoutes, TypeOK, LockInv
  <2>2. Faulted' = Faulted
    BY <1>0, <1>a, <1>18 DEF StopRoutes, Faulted, TypeOK, LockInv, FieldInv
  <2>3. name' = name /\ arg' = arg
    BY <1>18 DEF StopRoutes
  <2> QED
    BY <2>1, <2>2, <2>3, NobodyAnswered DEF Service!vars
<1>19. ASSUME NEW p \in Procs, StopConn(p)
      PROVE  UNCHANGED Service!vars
  <2>1. \A d \in Callers : Answer(d)' = Answer(d)
    BY <1>0, <1>19 DEF StopConn, TypeOK, LockInv
  <2>2. Faulted' = Faulted
    BY <1>0, <1>a, <1>19 DEF StopConn, Faulted, TypeOK, LockInv, FieldInv
  <2>3. name' = name /\ arg' = arg
    BY <1>19 DEF StopConn
  <2> QED
    BY <2>1, <2>2, <2>3, NobodyAnswered DEF Service!vars
<1>20. ASSUME NEW p \in Procs, StopTun(p)
      PROVE  UNCHANGED Service!vars
  <2>1. \A d \in Callers : Answer(d)' = Answer(d)
    BY <1>0, <1>20 DEF StopTun, TypeOK, LockInv
  <2>2. Faulted' = Faulted
    BY <1>0, <1>a, <1>20 DEF StopTun, Faulted, TypeOK, LockInv, FieldInv
  <2>3. name' = name /\ arg' = arg
    BY <1>20 DEF StopTun
  <2> QED
    BY <2>1, <2>2, <2>3, NobodyAnswered DEF Service!vars
<1>21. ASSUME NEW p \in Procs, StopTunDone(p)
      PROVE  UNCHANGED Service!vars
  <2>1. \A d \in Callers : Answer(d)' = Answer(d)
    BY <1>0, <1>21 DEF StopTunDone, TypeOK, LockInv
  <2>2. Faulted' = Faulted
    BY <1>0, <1>a, <1>21 DEF StopTunDone, Faulted, TypeOK, LockInv, FieldInv
  <2>3. name' = name /\ arg' = arg
    BY <1>21 DEF StopTunDone
  <2> QED
    BY <2>1, <2>2, <2>3, NobodyAnswered DEF Service!vars
<1>22. ASSUME NEW p \in Procs, StopWait(p)
      PROVE  UNCHANGED Service!vars
  <2>1. \A d \in Callers : Answer(d)' = Answer(d)
    BY <1>0, <1>22 DEF StopWait, TypeOK, LockInv
  <2>2. Faulted' = Faulted
    BY <1>0, <1>a, <1>22 DEF StopWait, Faulted, TypeOK, LockInv, FieldInv
  <2>3. name' = name /\ arg' = arg
    BY <1>22 DEF StopWait
  <2> QED
    BY <2>1, <2>2, <2>3, NobodyAnswered DEF Service!vars
<1>23. ASSUME NEW p \in Procs, StopClear(p)
      PROVE  Service!Drop \/ \E c \in Callers : Service!DisconnectDone(c)
  <2>1. name' = NoName /\ arg' = arg /\ running /\ name # NoName
    BY <1>0, <1>23 DEF StopClear, FieldInv, NameInv
  <2>2. Faulted' = FALSE
    BY <1>23, Zenon DEF StopClear, Faulted
  <2>3. CASE p \in Callers /\ op[p] = "disconnect"
    <3>1. \A d \in Callers : Answer(d)' = IF d = p THEN "ok" ELSE Answer(d)
      BY <1>0, <1>23, <2>3 DEF StopClear, Switching, TypeOK, LockInv
    <3>2. Answer(p) = "disconnect"
      BY <1>23, <2>3 DEF StopClear
    <3>3. Answered(p, "ok")
      BY <2>3, <3>1, AnsweredBy
    <3> QED
      BY <2>1, <2>2, <2>3, <3>2, <3>3 DEF Service!DisconnectDone, Answered
  <2>4. CASE p \in Callers /\ op[p] # "disconnect"
    <3>0. op[p] = "connect"
      BY <1>0, <1>23, <2>4 DEF StopClear, CallInv
    <3>1. \A d \in Callers : Answer(d)' = Answer(d)
      BY <1>0, <1>23, <2>4, <3>0 DEF StopClear, Switching, TypeOK, LockInv
    <3>2. Answer(p) = "connect"
      BY <1>23, <2>4, <3>0 DEF StopClear
    <3> QED
      BY <2>1, <2>2, <2>4, <3>1, <3>2, NobodyAnswered DEF Service!Drop
  <2>5. CASE p \notin Callers
    <3>0. p \in Sessions /\ cur = p
      BY <1>23, <2>5 DEF StopClear, RInv, Inv, StaleWatcherHarmless
    <3>1. \A d \in Callers : Answer(d)' = Answer(d)
      BY <1>0, <1>23, <2>5, <3>0 DEF StopClear, Switching, TypeOK, LockInv
    <3>2. Faulted
      BY <1>23, <2>1, <3>0 DEF StopClear, Faulted
    <3> QED
      BY <2>1, <2>2, <3>1, <3>2, NobodyAnswered DEF Service!Drop
  <2> QED
    BY <2>3, <2>4, <2>5
<1>24. ASSUME NEW s \in Sessions, WatchErr(s)
      PROVE  UNCHANGED Service!vars
  <2>1. \A d \in Callers : Answer(d)' = Answer(d)
    BY <1>0, <1>24 DEF WatchErr, TypeOK, LockInv
  <2>2. Faulted' = Faulted
    BY <1>0, <1>a, <1>24 DEF WatchErr, Faulted, TypeOK, LockInv, FieldInv
  <2>3. name' = name /\ arg' = arg
    BY <1>24 DEF WatchErr
  <2> QED
    BY <2>1, <2>2, <2>3, NobodyAnswered DEF Service!vars
<1>25. ASSUME NEW s \in Sessions, WatchDone(s)
      PROVE  UNCHANGED Service!vars
  <2>1. \A d \in Callers : Answer(d)' = Answer(d)
    BY <1>0, <1>25 DEF WatchDone, TypeOK, LockInv
  <2>2. Faulted' = Faulted
    BY <1>0, <1>a, <1>25 DEF WatchDone, Faulted, TypeOK, LockInv, FieldInv
  <2>3. name' = name /\ arg' = arg
    BY <1>25 DEF WatchDone
  <2> QED
    BY <2>1, <2>2, <2>3, NobodyAnswered DEF Service!vars
<1>26. ASSUME NEW s \in Sessions, WatchEnter(s)
      PROVE  UNCHANGED Service!vars
  <2>1. \A d \in Callers : Answer(d)' = Answer(d)
    BY <1>0, <1>26 DEF WatchEnter, TypeOK, LockInv
  <2>2. Faulted' = Faulted
    BY <1>0, <1>a, <1>26
    DEF WatchEnter, Faulted, TypeOK, LockInv, FieldInv, RInv, FreshInv
  <2>3. name' = name /\ arg' = arg
    BY <1>26 DEF WatchEnter
  <2> QED
    BY <2>1, <2>2, <2>3, NobodyAnswered DEF Service!vars
<1>27. ASSUME NEW s \in Sessions, WatchUnlock(s)
      PROVE  UNCHANGED Service!vars
  <2>1. \A d \in Callers : Answer(d)' = Answer(d)
    BY <1>0, <1>27 DEF WatchUnlock, TypeOK, LockInv
  <2>2. Faulted' = Faulted
    BY <1>0, <1>a, <1>27 DEF WatchUnlock, Faulted, TypeOK, LockInv, FieldInv
  <2>3. name' = name /\ arg' = arg
    BY <1>27 DEF WatchUnlock
  <2> QED
    BY <2>1, <2>2, <2>3, NobodyAnswered DEF Service!vars
<1>28. ASSUME NEW s \in Sessions, NEW l \in Loops, LoopMove(s, l)
      PROVE  UNCHANGED Service!vars \/ Service!EngineFault
  <2>1. \A d \in Callers : Answer(d)' = Answer(d)
    BY <1>28 DEF LoopMove
  <2>2. name' = name /\ arg' = arg
    BY <1>28 DEF LoopMove
  <2>3. Faulted' = Faulted \/ (running /\ Faulted')
    BY <1>0, <1>a, <1>28 DEF LoopMove, Faulted, TypeOK
  <2>4. CASE Faulted' = Faulted
    BY <2>1, <2>2, <2>4, NobodyAnswered DEF Service!vars
  <2>5. CASE running /\ Faulted'
    <3>1. name # NoName
      BY <1>0, <2>5 DEF NameInv
    <3> QED
      BY <2>1, <2>2, <2>5, <3>1, NobodyAnswered DEF Service!EngineFault
  <2> QED
    BY <2>3, <2>4, <2>5
<1>29. CASE UNCHANGED vars
  BY <1>29 DEF vars, Service!vars, Faulted, Answer
<1> QED
  BY LoopMoves, <1>1, <1>2, <1>3, <1>4, <1>5, <1>6, <1>7, <1>8, <1>9, <1>10,
     <1>11, <1>12, <1>13, <1>14, <1>14a, <1>14b, <1>14c, <1>15,
     <1>16, <1>17, <1>18, <1>19, <1>20, <1>21, <1>22, <1>23, <1>24, <1>25,
     <1>26, <1>27, <1>28, <1>29
  DEF Next, Connect, Stop, Watcher, Service!Next

(* The controller implements what TunnelService promises: calls take       *)
(* effect in one step, and the tunnel goes down only for a Disconnect, a   *)
(* switch or an error of its own engine, for any number of concurrent      *)
(* callers and of sessions.                                                *)
THEOREM ControllerImplementsService == Spec => ImplementsService
<1>1. Init => Service!Init
  <2> SUFFICES ASSUME Init PROVE Service!Init
    OBVIOUS
  <2>1. ~running
    BY Zenon DEF Init
  <2>2. Faulted = FALSE
    BY <2>1 DEF Faulted
  <2>3. \A c \in Callers : Answer(c) = "idle"
    BY Answers DEF Init, Procs
  <2>4. name = NoName /\ arg = [c \in Callers |-> NoName]
    BY DEF Init
  <2> QED
    BY <2>2, <2>3, <2>4 DEF Service!Init
<1> QED
  BY <1>1, RInvariance, StepRefines, PTL
  DEF Spec, ImplementsService, Service!Spec
=============================================================================
