--------------------------- MODULE TunnelService ---------------------------
(***************************************************************************)
(* What the tunnel controller promises its callers (the contract of        *)
(* control.Handler's Connect and Disconnect): the tunnel is up under one   *)
(* name or it is down; a call takes effect in one step between the moment  *)
(* it is made and the moment it returns; and the tunnel goes down only     *)
(* because of a Disconnect, because a Connect is switching configurations, *)
(* or because the engine of the very session that is up has failed.        *)
(***************************************************************************)
CONSTANTS Callers, Names, NoName

VARIABLES
  live,    \* the name the tunnel is up under, or NoName
  fault,   \* the engine of the session that is up has reported an error
  call,    \* each caller's request, or the answer it is about to get
  arg      \* the name a caller asked to connect

vars == <<live, fault, call, arg>>

Init ==
  /\ live = NoName
  /\ fault = FALSE
  /\ call = [c \in Callers |-> "idle"]
  /\ arg = [c \in Callers |-> NoName]

CallConnect(c, n) ==
  /\ call[c] = "idle"
  /\ call' = [call EXCEPT ![c] = "connect"]
  /\ arg' = [arg EXCEPT ![c] = n]
  /\ UNCHANGED <<live, fault>>

CallDisconnect(c) ==
  /\ call[c] = "idle"
  /\ call' = [call EXCEPT ![c] = "disconnect"]
  /\ UNCHANGED <<live, fault, arg>>

(* The old tunnel, if any, has been dropped before the new one comes up;   *)
(* a Connect that fails leaves the tunnel down.                            *)
ConnectUp(c) ==
  /\ call[c] = "connect"
  /\ live = NoName
  /\ live' = arg[c]
  /\ fault' = FALSE
  /\ call' = [call EXCEPT ![c] = "ok"]
  /\ UNCHANGED arg

ConnectFails(c) ==
  /\ call[c] = "connect"
  /\ live = NoName
  /\ call' = [call EXCEPT ![c] = "err"]
  /\ UNCHANGED <<live, fault, arg>>

DisconnectDone(c) ==
  /\ call[c] = "disconnect"
  /\ live' = NoName
  /\ fault' = FALSE
  /\ call' = [call EXCEPT ![c] = "ok"]
  /\ UNCHANGED arg

Return(c) ==
  /\ call[c] \in {"ok", "err"}
  /\ call' = [call EXCEPT ![c] = "idle"]
  /\ arg' = [arg EXCEPT ![c] = NoName]
  /\ UNCHANGED <<live, fault>>

EngineFault ==
  /\ live # NoName
  /\ fault' = TRUE
  /\ UNCHANGED <<live, call, arg>>

Drop ==
  /\ live # NoName
  /\ fault \/ \E c \in Callers : call[c] = "connect"
  /\ live' = NoName
  /\ fault' = FALSE
  /\ UNCHANGED <<call, arg>>

Next ==
  \/ \E c \in Callers :
        \/ \E n \in Names : CallConnect(c, n)
        \/ CallDisconnect(c)
        \/ ConnectUp(c)
        \/ ConnectFails(c)
        \/ DisconnectDone(c)
        \/ Return(c)
  \/ EngineFault
  \/ Drop

Spec == Init /\ [][Next]_vars
=============================================================================
