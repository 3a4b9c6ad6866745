--------------------------- MODULE ControlChannel ---------------------------
(***************************************************************************)
(* The control channel (package control): Client.Do on the front-end's     *)
(* side of a connection, Server.Serve, ServeIO and dispatch on the other,  *)
(* with the tunnel behind them.                                            *)
(*                                                                         *)
(* Several goroutines of a front-end share one Client; a request and its   *)
(* reply carry no identifier, so what pairs them is the Client's mutex and *)
(* the order of the stream.  Every connection has a server goroutine, and  *)
(* all of them call one Handler.  The Handler's calls are atomic here:     *)
(* that is what WinTunnel shows of the implementation.                     *)
(***************************************************************************)
EXTENDS Naturals, Sequences

CONSTANTS
  Conns,      \* connections (one Client and one server goroutine each)
  Callers,    \* goroutines that call Do
  ClientOf    \* the connection of each caller

ASSUME ClientAssumption == ClientOf \in [Callers -> Conns]

(* "query" stands for status and logs, "config" for parseConfig and        *)
(* serializeConfig: dispatch treats the two of each pair alike.            *)
Cmds == {"query", "connect", "disconnect", "config", "unknown"}
States == {"up", "down"}
Nobody == "nobody"

ASSUME CallersAssumption == Nobody \notin Callers

(* A message names the caller it is from or for; the code never looks at   *)
(* that field.  A status of "nil" is an absent one.                        *)
Request  == [by : Callers, cmd : Cmds]
Response == [to : Callers, ok : BOOLEAN, status : States \cup {"nil"}]

VARIABLES
  mu,          \* holder of each Client's mutex
  open,        \* the connection works
  toServer, toClient,   \* complete messages under way
  pc,          \* where a caller is in Do
  reply,       \* what Do returned: one response, or <<>> for an error
  serving,     \* where a server goroutine is
  hand,        \* the request or the response it has in hand
  tunnel,      \* the state Handler.Status reports
  seen         \* states of the tunnel since a caller's command took effect

client == <<mu, pc, reply>>
server == <<serving, hand>>
stream == <<open, toServer, toClient>>
vars   == <<client, server, stream, tunnel, seen>>

Init ==
  /\ mu = [k \in Conns |-> Nobody]
  /\ open = [k \in Conns |-> FALSE]
  /\ toServer = [k \in Conns |-> <<>>]
  /\ toClient = [k \in Conns |-> <<>>]
  /\ pc = [c \in Callers |-> "idle"]
  /\ reply = [c \in Callers |-> <<>>]
  /\ serving = [k \in Conns |-> "accept"]
  /\ hand = [k \in Conns |-> <<>>]
  /\ tunnel = "down"
  /\ seen = [c \in Callers |-> {}]

-----------------------------------------------------------------------------
(* Client.Do.                                                              *)

(* A goroutine calls Do, for the first time or again; what it knows of its *)
(* last call is dropped.                                                   *)
Do(c) ==
  /\ pc[c] \in {"idle", "returned"}
  /\ serving[ClientOf[c]] # "accept"
  /\ pc' = [pc EXCEPT ![c] = "lock"]
  /\ reply' = [reply EXCEPT ![c] = <<>>]
  /\ seen' = [seen EXCEPT ![c] = {}]
  /\ UNCHANGED <<mu, server, stream, tunnel>>

(* Mutant: no mutex.                                                       *)
DoWithoutLock(c) ==
  /\ pc[c] = "lock"
  /\ pc' = [pc EXCEPT ![c] = "write"]
  /\ UNCHANGED <<mu, reply, server, stream, tunnel, seen>>

DoLock(c) ==
  /\ pc[c] = "lock"
  /\ mu[ClientOf[c]] = Nobody
  /\ mu' = [mu EXCEPT ![ClientOf[c]] = c]
  /\ pc' = [pc EXCEPT ![c] = "write"]
  /\ UNCHANGED <<reply, server, stream, tunnel, seen>>

DoWrite(c, m) ==
  LET k == ClientOf[c]
  IN  /\ pc[c] = "write"
      /\ open[k]
      /\ toServer' = [toServer EXCEPT ![k] = Append(@, [by |-> c, cmd |-> m])]
      /\ pc' = [pc EXCEPT ![c] = "read"]
      /\ UNCHANGED <<mu, reply, open, toClient, server, tunnel, seen>>

(* Do returns answer and unlocks.                                          *)
DoReturn(c, answer) ==
  /\ reply' = [reply EXCEPT ![c] = answer]
  /\ mu' = [mu EXCEPT ![ClientOf[c]] = Nobody]
  /\ pc' = [pc EXCEPT ![c] = "returned"]

DoRead(c) ==
  LET k == ClientOf[c]
  IN  /\ pc[c] = "read"
      /\ toClient[k] # <<>>
      /\ toClient' = [toClient EXCEPT ![k] = Tail(@)]
      /\ DoReturn(c, <<Head(toClient[k])>>)
      /\ UNCHANGED <<open, toServer, server, tunnel, seen>>

(* Mutant: the error path of the read keeps the mutex.                     *)
DoFailsLocked(c) ==
  /\ pc[c] \in {"write", "read"}
  /\ ~open[ClientOf[c]]
  /\ pc[c] = "read" => toClient[ClientOf[c]] = <<>>
  /\ pc' = [pc EXCEPT ![c] = "returned"]
  /\ UNCHANGED <<mu, reply, stream, server, tunnel, seen>>

(* The write or the read returns an error: the connection is broken.       *)
DoFails(c) ==
  /\ pc[c] \in {"write", "read"}
  /\ ~open[ClientOf[c]]
  /\ pc[c] = "read" => toClient[ClientOf[c]] = <<>>
  /\ DoReturn(c, <<>>)
  /\ UNCHANGED <<stream, server, tunnel, seen>>

Client(c) ==
  \/ DoLock(c) \/ DoRead(c) \/ DoFails(c)
  \/ \E m \in Cmds : DoWrite(c, m)

-----------------------------------------------------------------------------
(* Serve, serveConn and ServeIO.                                           *)

Serving(k, label, message) ==
  /\ serving' = [serving EXCEPT ![k] = label]
  /\ hand' = [hand EXCEPT ![k] = message]

Accept(k) ==
  /\ serving[k] = "accept"
  /\ open' = [open EXCEPT ![k] = TRUE]
  /\ Serving(k, "read", <<>>)
  /\ UNCHANGED <<client, toServer, toClient, tunnel, seen>>

ReadRequest(k) ==
  /\ serving[k] = "read"
  /\ toServer[k] # <<>>
  /\ toServer' = [toServer EXCEPT ![k] = Tail(@)]
  /\ Serving(k, "handle", <<Head(toServer[k])>>)
  /\ UNCHANGED <<client, open, toClient, tunnel, seen>>

WriteResponse(k) ==
  /\ serving[k] = "write"
  /\ open[k]
  /\ toClient' = [toClient EXCEPT ![k] = Append(@, hand[k][1])]
  /\ Serving(k, "read", <<>>)
  /\ UNCHANGED <<client, open, toServer, tunnel, seen>>

(* A read or write error ends the loop; serveConn closes the connection.   *)
ServeEnds(k) ==
  /\ serving[k] \in {"read", "write"}
  /\ ~open[k]
  /\ serving[k] = "read" => toServer[k] = <<>>
  /\ Serving(k, "closed", <<>>)
  /\ UNCHANGED <<client, stream, tunnel, seen>>

-----------------------------------------------------------------------------
(* dispatch, in two steps: the Handler's method for the command, and the   *)
(* call of Status that most commands end with.                             *)

Handling(k, m) == serving[k] = "handle" /\ hand[k][1].cmd = m

Respond(k, ok, status) ==
  Serving(k, "write",
          <<[to |-> hand[k][1].by, ok |-> ok, status |-> status]>>)

(* The tunnel is in state t from here on, and the commands of the callers  *)
(* in who have just taken effect.                                          *)
TunnelIs(t, who) ==
  /\ tunnel' = t
  /\ seen' = [c \in Callers |-> IF c \in who THEN {t}
                                ELSE IF seen[c] = {} THEN {}
                                ELSE seen[c] \cup {t}]

(* The Handler's method returns nil; dispatch goes on to Status.           *)
Connect(k) ==
  /\ Handling(k, "connect")
  /\ TunnelIs("up", {hand[k][1].by})
  /\ Serving(k, "finish", hand[k])
  /\ UNCHANGED <<client, stream>>

Disconnect(k) ==
  /\ Handling(k, "disconnect")
  /\ TunnelIs("down", {hand[k][1].by})
  /\ Serving(k, "finish", hand[k])
  /\ UNCHANGED <<client, stream>>

(* A failed Connect has dropped the tunnel that was up.                    *)
ConnectFails(k) ==
  /\ Handling(k, "connect")
  /\ TunnelIs("down", {hand[k][1].by})
  /\ Respond(k, FALSE, "nil")
  /\ UNCHANGED <<client, stream>>

(* Status and Logs change nothing.                                         *)
Query(k) ==
  /\ Handling(k, "query")
  /\ TunnelIs(tunnel, {hand[k][1].by})
  /\ Serving(k, "finish", hand[k])
  /\ UNCHANGED <<client, stream>>

(* ParseConfig and SerializeConfig answer without a status, or fail.       *)
Config(k, ok) ==
  /\ Handling(k, "config")
  /\ Respond(k, ok, "nil")
  /\ UNCHANGED <<client, stream, tunnel, seen>>

Unknown(k) ==
  /\ Handling(k, "unknown")
  /\ Respond(k, FALSE, "nil")
  /\ UNCHANGED <<client, stream, tunnel, seen>>

(* Mutant: the status reported is the one the command ought to lead to.    *)
FinishAssumed(k) ==
  /\ serving[k] = "finish"
  /\ Respond(k, TRUE, CASE hand[k][1].cmd = "connect" -> "up"
                        [] hand[k][1].cmd = "disconnect" -> "down"
                        [] OTHER -> "up")
  /\ UNCHANGED <<client, stream, tunnel, seen>>

Finish(k) ==
  /\ serving[k] = "finish"
  /\ Respond(k, TRUE, tunnel)
  /\ UNCHANGED <<client, stream, tunnel, seen>>

Dispatch(k) ==
  \/ Connect(k) \/ ConnectFails(k) \/ Disconnect(k) \/ Query(k)
  \/ Unknown(k) \/ Finish(k)
  \/ \E ok \in BOOLEAN : Config(k, ok)

Server(k) ==
  ReadRequest(k) \/ ServeEnds(k) \/ WriteResponse(k) \/ Dispatch(k)

-----------------------------------------------------------------------------
(* Client.Close, or the death of either process: what was under way to the *)
(* client may be lost.                                                     *)
Break(k) ==
  /\ open[k]
  /\ open' = [open EXCEPT ![k] = FALSE]
  /\ toClient' \in {toClient, [toClient EXCEPT ![k] = <<>>]}
  /\ UNCHANGED <<client, server, toServer, tunnel, seen>>

(* The watcher of the tunnel tears it down after an engine error; other    *)
(* connections connect and disconnect it.  They share nothing with this    *)
(* connection but the Handler.                                             *)
TunnelMoves ==
  /\ \E t \in States \ {tunnel} : TunnelIs(t, {})
  /\ UNCHANGED <<client, server, stream>>

Next ==
  \/ \E c \in Callers : Do(c) \/ Client(c)
  \/ \E k \in Conns : Accept(k) \/ Server(k) \/ Break(k)
  \/ TunnelMoves

Spec == Init /\ [][Next]_vars

(* Goroutines run and sync.Mutex is fair.  Nothing is assumed of the       *)
(* network or of the front-end's requests.                                 *)
Fairness ==
  /\ \A c \in Callers : SF_vars(Client(c))
  /\ \A k \in Conns : WF_vars(Server(k))

FairSpec == Spec /\ Fairness

-----------------------------------------------------------------------------
AtMostOne(S) == {<<>>} \cup {<<x>> : x \in S}

(* The variables have their types, and at most one message is under way in *)
(* each direction of a connection.                                         *)
TypeOK ==
  /\ mu \in [Conns -> Callers \cup {Nobody}]
  /\ open \in [Conns -> BOOLEAN]
  /\ toServer \in [Conns -> AtMostOne(Request)]
  /\ toClient \in [Conns -> AtMostOne(Response)]
  /\ pc \in [Callers -> {"idle", "lock", "write", "read", "returned"}]
  /\ reply \in [Callers -> AtMostOne(Response)]
  /\ serving \in [Conns -> {"accept", "read", "handle", "finish", "write",
                            "closed"}]
  /\ hand \in [Conns -> AtMostOne(Request \cup Response)]
  /\ tunnel \in States
  /\ seen \in [Callers -> SUBSET States]

(* Do returns the reply to its own request, however many goroutines share  *)
(* the Client and wherever the connection broke before: nothing in a       *)
(* message says so, only Client.mu and the order of the stream.            *)
RepliesMatch ==
  \A c \in Callers : reply[c] # <<>> => reply[c][1].to = c

(* The status a caller of Do is given is one the tunnel had after the      *)
(* caller's own command took effect, whatever other connections and the    *)
(* watcher did between the two Handler calls of dispatch.                  *)
StatusIsFresh ==
  \A c \in Callers :
    reply[c] # <<>> /\ reply[c][1].status # "nil"
      => reply[c][1].status \in seen[c]

(* Every Do returns, with a reply or an error, even when the connection    *)
(* breaks under another goroutine that holds the mutex, and the server     *)
(* goroutine of a broken connection ends, wherever it was.                 *)
EveryoneReturns ==
  /\ \A c \in Callers : pc[c] = "lock" ~> pc[c] = "returned"
  /\ \A k \in Conns :
       serving[k] # "accept" /\ ~open[k] ~> serving[k] = "closed"
=============================================================================
