----------------------- MODULE ChangeNotifierProofs -----------------------
(***************************************************************************)
(* Safety of ChangeNotifier for any number of users, registrations and     *)
(* goroutines.                                                             *)
(***************************************************************************)
EXTENDS ChangeNotifier, TLAPS

RegisterPcs == {"register", "registerInner", "add"}
OuterPcs    == {"registerInner", "add", "unregisterInner", "delete", "wait",
                "cancel", "return"}

(* Who holds which mutex follows from where everyone is.                   *)
LockInv ==
  /\ \A u \in Users : pc[u] \in OuterPcs <=> outer = u
  /\ \A u \in Users : pc[u] \in {"add", "delete"} <=> inner = u
  /\ notifying = "spawn" <=> inner = Windows

(* A callback object is new until Register has put it in the map: nobody   *)
(* else has it in hand and it has not been unregistered.                   *)
FreshInv ==
  /\ callbacks \cup gone \subseteq 1..nReg
  /\ \A u \in Users : pc[u] # "idle" => reg[u] \in 1..nReg
  /\ \A u \in Users : pc[u] \in RegisterPcs =>
       /\ reg[u] \notin callbacks \cup gone
       /\ \A v \in Users \ {u} : pc[v] # "idle" => reg[v] # reg[u]

(* What Unregister knows after each of its steps stays true while it has   *)
(* the outer mutex.                                                        *)
UnregisterInv ==
  \A u \in Users :
    /\ pc[u] \in {"wait", "cancel", "return"} => reg[u] \notin callbacks
    /\ pc[u] \in {"cancel", "return"} => wait[reg[u]] = 0
    /\ pc[u] = "cancel" \/ (pc[u] = "wait" /\ removeIt[u]) => callbacks = {}

HandleInv == callbacks # {} => handle

Inv ==
  /\ TypeOK /\ LockInv /\ FreshInv /\ UnregisterInv
  /\ HandleInv /\ QuietAfterUnregister

(* A process that has registered nothing satisfies Inv.                    *)
LEMMA InitInv == Init => Inv
<1> SUFFICES ASSUME Init PROVE Inv
  OBVIOUS
<1> USE NotifierAssumption, UsersAssumption DEF Init
<1>1. TypeOK
  <2>1. handle \in BOOLEAN
    BY Zenon
  <2> QED
    BY <2>1 DEF TypeOK, Nobody, Regs, UnregisterPcs
<1>2. LockInv /\ FreshInv /\ UnregisterInv
  BY DEF LockInv, FreshInv, UnregisterInv, OuterPcs, RegisterPcs, Nobody,
         Windows
<1>3. HandleInv /\ QuietAfterUnregister
  BY DEF HandleInv, QuietAfterUnregister
<1> QED
  BY <1>1, <1>2, <1>3 DEF Inv

(* Every step of the registering and unregistering goroutines and of       *)
(* Windows preserves Inv.                                                  *)
LEMMA StepInv == Inv /\ [Next]_vars => Inv'
<1> SUFFICES ASSUME Inv, [Next]_vars PROVE Inv'
  OBVIOUS
<1> USE NotifierAssumption, UsersAssumption
    DEF Inv, TypeOK, LockInv, FreshInv, UnregisterInv, HandleInv,
        QuietAfterUnregister, RegisterPcs, OuterPcs, UnregisterPcs, Nobody,
        Windows, Regs, Goto, locks, table, user
<1>1. ASSUME NEW u \in Users, Register(u) PROVE Inv'
  <2>1. TypeOK'
    BY <1>1 DEF Register
  <2>2. LockInv'
    BY <1>1 DEF Register
  <2>3. FreshInv'
    BY <1>1 DEF Register
  <2>4. UnregisterInv'
    BY <1>1 DEF Register
  <2>5. (HandleInv /\ QuietAfterUnregister)'
    BY <1>1 DEF Register
  <2> QED
    BY <2>1, <2>2, <2>3, <2>4, <2>5
<1>2. ASSUME NEW u \in Users, RegisterLock(u) PROVE Inv'
  BY <1>2 DEF RegisterLock
<1>3. ASSUME NEW u \in Users, RegisterLockInner(u) PROVE Inv'
  BY <1>3 DEF RegisterLockInner
<1>4. ASSUME NEW u \in Users, Add(u) PROVE Inv'
  <2>0. /\ reg[u] \in 1..nReg /\ reg[u] \in Regs
        /\ callbacks' \subseteq callbacks \cup {reg[u]}
        /\ pc' = [pc EXCEPT ![u] = "idle"]
    BY <1>4 DEF Add
  <2>1. TypeOK'
    <3>1. handle' \in BOOLEAN
      BY <1>4, Zenon DEF Add
    <3>2. /\ outer' \in Users \cup {Nobody}
         /\ inner' \in Users \cup {Nobody, Windows}
      BY <1>4 DEF Add, Unlocked
    <3> QED
      BY <1>4, <2>0, <3>1, <3>2 DEF Add
  <2>2. LockInv'
    BY <1>4 DEF Add, Unlocked
  <2>3. FreshInv'
    <3>1. callbacks' \cup gone' \subseteq 1..nReg'
      BY <1>4, <2>0 DEF Add
    <3>2. \A v \in Users : pc'[v] # "idle" =>
           v # u /\ pc[v] = pc'[v] /\ reg'[v] = reg[v]
      BY <1>4, <2>0 DEF Add
    <3>3. \A v \in Users :
           pc'[v] \in RegisterPcs => reg'[v] \notin callbacks' \cup gone'
      BY <1>4, <2>0, <3>2 DEF Add
    <3> QED
      BY <1>4, <3>1, <3>2, <3>3 DEF Add
  <2>4. UnregisterInv'
    BY <1>4 DEF Add, Unlocked
  <2>5. (HandleInv /\ QuietAfterUnregister)'
    BY <1>4 DEF Add, Unlocked
  <2> QED
    BY <2>1, <2>2, <2>3, <2>4, <2>5
<1>5. ASSUME NEW u \in Users, NEW r \in Regs, Unregister(u, r) PROVE Inv'
  BY <1>5, SMTT(30) DEF Unregister, Registered
<1>6. ASSUME NEW u \in Users, UnregisterLock(u) PROVE Inv'
  BY <1>6 DEF UnregisterLock
<1>7. ASSUME NEW u \in Users, UnregisterLockInner(u) PROVE Inv'
  BY <1>7 DEF UnregisterLockInner
<1>8. ASSUME NEW u \in Users, Delete(u) PROVE Inv'
  <2>1. TypeOK'
    BY <1>8 DEF Delete
  <2>2. LockInv'
    BY <1>8 DEF Delete
  <2>3. FreshInv'
    BY <1>8, ZenonT(30) DEF Delete
  <2>4. UnregisterInv'
    BY <1>8, ZenonT(30) DEF Delete
  <2>5. (HandleInv /\ QuietAfterUnregister)'
    BY <1>8 DEF Delete
  <2> QED
    BY <2>1, <2>2, <2>3, <2>4, <2>5
<1>9. ASSUME NEW u \in Users, Wait(u) PROVE Inv'
  BY <1>9, SMTT(30) DEF Wait
<1>10. ASSUME NEW u \in Users, Cancel(u) PROVE Inv'
  <2>1. TypeOK'
    BY <1>10 DEF Cancel
  <2>2. LockInv'
    BY <1>10 DEF Cancel
  <2>3. FreshInv'
    BY <1>10 DEF Cancel
  <2>4. UnregisterInv'
    BY <1>10 DEF Cancel
  <2>5. (HandleInv /\ QuietAfterUnregister)'
    BY <1>10 DEF Cancel
  <2> QED
    BY <2>1, <2>2, <2>3, <2>4, <2>5
<1>11. ASSUME NEW u \in Users, Return(u) PROVE Inv'
  <2>0. /\ reg[u] \in 1..nReg /\ reg[u] \in Regs
        /\ gone' = gone \cup {reg[u]}
        /\ pc' = [pc EXCEPT ![u] = "idle"]
    BY <1>11 DEF Return
  <2>1. TypeOK'
    <3>1. /\ outer' \in Users \cup {Nobody}
         /\ inner' \in Users \cup {Nobody, Windows}
      BY <1>11 DEF Return, Unlocked
    <3> QED
      BY <1>11, <2>0, <3>1 DEF Return
  <2>2. LockInv'
    BY <1>11 DEF Return, Unlocked
  <2>3. FreshInv'
    <3>1. callbacks' \cup gone' \subseteq 1..nReg'
      BY <1>11, <2>0 DEF Return
    <3>2. \A v \in Users : pc'[v] # "idle" =>
           v # u /\ pc[v] = pc'[v] /\ reg'[v] = reg[v]
      BY <1>11, <2>0 DEF Return
    <3>3. \A v \in Users :
           pc'[v] \in RegisterPcs => reg'[v] \notin callbacks' \cup gone'
      BY <1>11, <2>0, <3>2 DEF Return
    <3> QED
      BY <1>11, <3>1, <3>2, <3>3 DEF Return
  <2>4. UnregisterInv'
    BY <1>11 DEF Return, Unlocked
  <2>5. (HandleInv /\ QuietAfterUnregister)'
    BY <1>11 DEF Return, Unlocked
  <2> QED
    BY <2>1, <2>2, <2>3, <2>4, <2>5
<1>12. CASE Notify
  BY <1>12 DEF Notify
<1>13. CASE ChangedLock
  BY <1>13 DEF ChangedLock
<1>14. CASE ChangedSpawn
  BY <1>14 DEF ChangedSpawn
<1>15. ASSUME NEW r \in Regs, CallbackDone(r) PROVE Inv'
  BY <1>15, SMTT(30) DEF CallbackDone
<1>16. CASE UNCHANGED vars
  BY <1>16 DEF vars
<1> QED
  BY <1>1, <1>2, <1>3, <1>4, <1>5, <1>6, <1>7, <1>8, <1>9, <1>10, <1>11,
     <1>12, <1>13, <1>14, <1>15, <1>16 DEF Next, UserStep, Changed

(* Inv holds of every state of the callback registry.                      *)
LEMMA InvAlways == Spec => []Inv
<1> QED
  BY InitInv, StepInv, PTL DEF Spec

(* Type correctness of the registry of route, address and interface change *)
(* callbacks, for any number of callers.                                   *)
THEOREM TypeCorrect == Spec => []TypeOK
<1>1. Inv => TypeOK
  BY DEF Inv
<1> QED
  BY <1>1, InvAlways, PTL

(* Unregister that has returned has left no goroutine of its callback      *)
(* behind, and no notification will start one: what it waited for under    *)
(* the outer mutex cannot come back.                                       *)
THEOREM UnregisteredIsQuiet == Spec => []QuietAfterUnregister
<1>1. Inv => QuietAfterUnregister
  BY DEF Inv
<1> QED
  BY <1>1, InvAlways, PTL

(* A callback that Register has returned is notified: the handle of        *)
(* NotifyXxxChange2 is there as long as one callback is registered, since  *)
(* only the last Unregister cancels it and both hold the outer mutex.      *)
THEOREM RegisteredHasHandle == Spec => []RegisteredAreNotified
<1>1. Inv => RegisteredAreNotified
  BY DEF Inv, HandleInv, RegisteredAreNotified
<1> QED
  BY <1>1, InvAlways, PTL
=============================================================================
