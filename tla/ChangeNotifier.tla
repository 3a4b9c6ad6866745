--------------------------- MODULE ChangeNotifier ---------------------------
(***************************************************************************)
(* Registration of network change callbacks (package winipcfg).  The files *)
(* route_, interface_ and unicast_address_change_handler.go hold the same  *)
(* algorithm for three kinds of rows; this is the one model of all three.  *)
(*                                                                         *)
(* Two mutexes are nested: the outer one (...AddRemoveMutex) serialises    *)
(* Register and Unregister, the inner one (...Mutex) protects the map of   *)
(* callbacks, which the notification thread of Windows reads too.  A       *)
(* callback runs in a goroutine of its own, counted in its wait group.     *)
(***************************************************************************)
EXTENDS Integers

CONSTANTS
  Users,      \* goroutines that register and unregister
  MaxRegs,    \* bound: calls of Register
  MaxRuns     \* bound: goroutines of one callback at a time

ASSUME NotifierAssumption == MaxRegs \in Nat /\ MaxRuns \in Nat

Regs   == 1..MaxRegs
Nobody == "nobody"
Windows == "windows"

ASSUME UsersAssumption == Users \cap {Nobody, Windows} = {}

VARIABLES
  outer, inner,   \* holders of the two mutexes
  callbacks,      \* keys of the map: the callbacks registered
  handle,         \* the handle of the notification is not 0
  nReg,           \* callback objects made
  wait,           \* each callback's wait group
  gone,           \* callbacks whose Unregister has returned
  pc, reg,        \* where a user is, and the callback it is handling
  removeIt,       \* the local variable of Unregister
  notifying       \* where the notification thread of Windows is

locks == <<outer, inner>>
table == <<callbacks, handle, nReg>>
user  == <<pc, reg, removeIt>>
vars  == <<locks, table, wait, gone, user, notifying>>

Init ==
  /\ outer = Nobody
  /\ inner = Nobody
  /\ callbacks = {}
  /\ handle = FALSE
  /\ nReg = 0
  /\ wait = [r \in Regs |-> 0]
  /\ gone = {}
  /\ pc = [u \in Users |-> "idle"]
  /\ reg = [u \in Users |-> 0]
  /\ removeIt = [u \in Users |-> FALSE]
  /\ notifying = "idle"

Goto(u, label) == pc' = [pc EXCEPT ![u] = label]

-----------------------------------------------------------------------------
(* Register makes a new callback object, whatever is registered: the key   *)
(* of the map is its address, so a function may be registered twice.       *)
Register(u) ==
  /\ pc[u] = "idle"
  /\ nReg < MaxRegs
  /\ nReg' = nReg + 1
  /\ reg' = [reg EXCEPT ![u] = nReg + 1]
  /\ Goto(u, "register")
  /\ UNCHANGED <<locks, callbacks, handle, wait, gone, removeIt, notifying>>

(* Mutant: Register takes only the inner mutex.                            *)
RegisterLockInnerOnly(u) ==
  /\ pc[u] = "register"
  /\ Goto(u, "registerInner")
  /\ UNCHANGED <<locks, table, wait, gone, reg, removeIt, notifying>>

RegisterLock(u) ==
  /\ pc[u] = "register"
  /\ outer = Nobody
  /\ outer' = u
  /\ Goto(u, "registerInner")
  /\ UNCHANGED <<inner, table, wait, gone, reg, removeIt, notifying>>

RegisterLockInner(u) ==
  /\ pc[u] = "registerInner"
  /\ inner = Nobody
  /\ inner' = u
  /\ Goto(u, "add")
  /\ UNCHANGED <<outer, table, wait, gone, reg, removeIt, notifying>>

(* Both mutexes are released when the function returns.                    *)
Unlocked(u) ==
  /\ outer' = IF outer = u THEN Nobody ELSE outer
  /\ inner' = IF inner = u THEN Nobody ELSE inner

Add(u) ==
  /\ pc[u] = "add"
  /\ \/ callbacks' = callbacks \cup {reg[u]} /\ handle' = TRUE
     \/ ~handle /\ UNCHANGED <<callbacks, handle>>   \* the notify call fails
  /\ Unlocked(u)
  /\ Goto(u, "idle")
  /\ UNCHANGED <<nReg, wait, gone, reg, removeIt, notifying>>

-----------------------------------------------------------------------------
(* A callback may be unregistered again, by another goroutine too.         *)
UnregisterPcs == {"unregister", "unregisterInner", "delete", "wait", "cancel",
                  "return"}
Registered(r) ==
  \/ r \in callbacks \cup gone
  \/ \E u \in Users : reg[u] = r /\ pc[u] \in UnregisterPcs

Unregister(u, r) ==
  /\ pc[u] = "idle"
  /\ Registered(r)
  /\ reg' = [reg EXCEPT ![u] = r]
  /\ Goto(u, "unregister")
  /\ UNCHANGED <<locks, table, wait, gone, removeIt, notifying>>

UnregisterLock(u) ==
  /\ pc[u] = "unregister"
  /\ outer = Nobody
  /\ outer' = u
  /\ Goto(u, "unregisterInner")
  /\ UNCHANGED <<inner, table, wait, gone, reg, removeIt, notifying>>

UnregisterLockInner(u) ==
  /\ pc[u] = "unregisterInner"
  /\ inner = Nobody
  /\ inner' = u
  /\ Goto(u, "delete")
  /\ UNCHANGED <<outer, table, wait, gone, reg, removeIt, notifying>>

(* Mutant: the inner mutex is kept until Unregister returns.               *)
DeleteKeepsInner(u) ==
  /\ pc[u] = "delete"
  /\ callbacks' = callbacks \ {reg[u]}
  /\ removeIt' = [removeIt EXCEPT ![u] = callbacks' = {} /\ handle]
  /\ Goto(u, "wait")
  /\ UNCHANGED <<locks, handle, nReg, wait, gone, reg, notifying>>

Delete(u) ==
  /\ pc[u] = "delete"
  /\ callbacks' = callbacks \ {reg[u]}
  /\ removeIt' = [removeIt EXCEPT ![u] = callbacks' = {} /\ handle]
  /\ inner' = Nobody
  /\ Goto(u, "wait")
  /\ UNCHANGED <<outer, handle, nReg, wait, gone, reg, notifying>>

(* Mutant: Unregister does not wait for the goroutines of its callback.    *)
WaitNot(u) ==
  /\ pc[u] = "wait"
  /\ Goto(u, IF removeIt[u] THEN "cancel" ELSE "return")
  /\ UNCHANGED <<locks, table, wait, gone, reg, removeIt, notifying>>

Wait(u) ==
  /\ pc[u] = "wait"
  /\ wait[reg[u]] = 0
  /\ Goto(u, IF removeIt[u] THEN "cancel" ELSE "return")
  /\ UNCHANGED <<locks, table, wait, gone, reg, removeIt, notifying>>

(* cancelMibChangeNotify2 (external) returns when the notification thread  *)
(* has left the callback; it may fail, and then the handle is kept.        *)
Cancel(u) ==
  /\ pc[u] = "cancel"
  /\ notifying = "idle"
  /\ handle' \in BOOLEAN
  /\ Goto(u, "return")
  /\ UNCHANGED <<locks, callbacks, nReg, wait, gone, reg, removeIt,
                 notifying>>

Return(u) ==
  /\ pc[u] = "return"
  /\ gone' = gone \cup {reg[u]}
  /\ Unlocked(u)
  /\ Goto(u, "idle")
  /\ UNCHANGED <<table, wait, reg, removeIt, notifying>>

UserStep(u) ==
  \/ RegisterLock(u) \/ RegisterLockInner(u) \/ Add(u)
  \/ UnregisterLock(u) \/ UnregisterLockInner(u) \/ Delete(u) \/ Wait(u)
  \/ Cancel(u) \/ Return(u)

-----------------------------------------------------------------------------
(* Windows calls routeChanged while the notification is active (external). *)
Notify ==
  /\ handle
  /\ notifying = "idle"
  /\ \A r \in callbacks : wait[r] < MaxRuns
  /\ notifying' = "called"
  /\ UNCHANGED <<locks, table, wait, gone, user>>

ChangedLock ==
  /\ notifying = "called"
  /\ inner = Nobody
  /\ inner' = Windows
  /\ notifying' = "spawn"
  /\ UNCHANGED <<outer, table, wait, gone, user>>

(* One goroutine per registered callback.                                  *)
ChangedSpawn ==
  /\ notifying = "spawn"
  /\ wait' = [r \in Regs |-> wait[r] + IF r \in callbacks THEN 1 ELSE 0]
  /\ inner' = Nobody
  /\ notifying' = "idle"
  /\ UNCHANGED <<outer, table, gone, user>>

(* Mutant: the goroutine calls Done twice.                                 *)
CallbackDoneTwice(r) ==
  /\ wait[r] > 0
  /\ wait' = [wait EXCEPT ![r] = @ - 2]
  /\ UNCHANGED <<locks, table, gone, user, notifying>>

CallbackDone(r) ==
  /\ wait[r] > 0
  /\ wait' = [wait EXCEPT ![r] = @ - 1]
  /\ UNCHANGED <<locks, table, gone, user, notifying>>

Changed == ChangedLock \/ ChangedSpawn

Next ==
  \/ \E u \in Users :
        \/ Register(u)
        \/ \E r \in Regs : Unregister(u, r)
        \/ UserStep(u)
  \/ Notify
  \/ Changed
  \/ \E r \in Regs : CallbackDone(r)

Spec == Init /\ [][Next]_vars

(* Goroutines run, mutexes are fair (sync.Mutex), and the callbacks a user *)
(* registers return.  Nothing is assumed of the network.                   *)
Fairness ==
  /\ \A u \in Users : SF_vars(UserStep(u))
  /\ SF_vars(Changed)
  /\ \A r \in Regs : WF_vars(CallbackDone(r))

FairSpec == Spec /\ Fairness

-----------------------------------------------------------------------------
(* The variables have their types; a wait group never goes negative.       *)
TypeOK ==
  /\ outer \in Users \cup {Nobody}
  /\ inner \in Users \cup {Nobody, Windows}
  /\ callbacks \subseteq Regs
  /\ handle \in BOOLEAN
  /\ nReg \in 0..MaxRegs
  /\ wait \in [Regs -> Nat]
  /\ gone \subseteq Regs
  /\ pc \in [Users -> {"idle", "register", "registerInner", "add"}
                        \cup UnregisterPcs]
  /\ reg \in [Users -> 0..MaxRegs]
  /\ removeIt \in [Users -> BOOLEAN]
  /\ notifying \in {"idle", "called", "spawn"}

(* When Unregister has returned, no goroutine of that callback is running  *)
(* and none will be started: its owner may free what the callback uses.    *)
QuietAfterUnregister ==
  \A r \in gone : wait[r] = 0 /\ r \notin callbacks

(* A registered callback is really notified: no interleaving of an         *)
(* Unregister that cancels the notification with a Register leaves a       *)
(* callback in the map without a handle.                                   *)
RegisteredAreNotified ==
  outer = Nobody /\ callbacks # {} => handle

(* Register and Unregister return: neither waits for a lock or for Windows *)
(* while Windows waits for it.                                             *)
CallsReturn ==
  \A u \in Users : pc[u] \in {"register", "unregister"} ~> pc[u] = "idle"
=============================================================================
