----------------------- MODULE ControlChannelProofs -----------------------
(***************************************************************************)
(* Safety of ControlChannel for any number of connections, callers and     *)
(* calls.                                                                  *)
(***************************************************************************)
EXTENDS ControlChannel, TLAPS

(* Exactly the caller between its lock and its return holds the mutex.     *)
LockInv ==
  \A c \in Callers : pc[c] \in {"write", "read"} <=> mu[ClientOf[c]] = c

(* What a server goroutine has in hand where, and that a message of a      *)
(* connection is in one place only.                                        *)
ServerInv ==
  \A k \in Conns :
    /\ serving[k] \in {"handle", "finish"} =>
         \E q \in Request : hand[k] = <<q>>
    /\ serving[k] = "write" => \E r \in Response : hand[k] = <<r>>
    /\ serving[k] \in {"accept", "read", "closed"} => hand[k] = <<>>
    /\ serving[k] = "accept" => toServer[k] = <<>> /\ toClient[k] = <<>>
    /\ serving[k] \in {"accept", "closed"} => ~open[k]
    /\ toServer[k] # <<>> => hand[k] = <<>> /\ toClient[k] = <<>>
    /\ hand[k] # <<>> => toClient[k] = <<>>

(* A request of c, or the reply to it, is somewhere on connection k.       *)
Pending(k, c) ==
  \/ toServer[k] # <<>> /\ toServer[k][1].by = c
  \/ serving[k] \in {"handle", "finish"} /\ hand[k][1].by = c
  \/ serving[k] = "write" /\ hand[k][1].to = c
  \/ toClient[k] # <<>> /\ toClient[k][1].to = c

(* What is pending is so for a caller of that connection that has no reply *)
(* yet.  It waits in Do as long as the connection works; afterwards it may *)
(* have given up, but not once the reply has reached its end.              *)
PendingInv ==
  /\ \A k \in Conns, c \in Callers : Pending(k, c) =>
       ClientOf[c] = k /\ reply[c] = <<>> /\ (open[k] => pc[c] = "read")
  /\ \A k \in Conns : toClient[k] # <<>> => pc[toClient[k][1].to] = "read"
  /\ \A c \in Callers : reply[c] # <<>> => pc[c] = "returned"

(* What seen holds for a caller whose command has taken effect.            *)
SeenInv ==
  /\ \A c \in Callers : seen[c] # {} => tunnel \in seen[c]
  /\ \A k \in Conns :
       /\ serving[k] = "finish" /\ open[k] => tunnel \in seen[hand[k][1].by]
       /\ serving[k] = "write" /\ open[k] /\ hand[k][1].status # "nil"
            => hand[k][1].status \in seen[hand[k][1].to]
       /\ toClient[k] # <<>> /\ toClient[k][1].status # "nil"
            => toClient[k][1].status \in seen[toClient[k][1].to]

Inv ==
  /\ TypeOK /\ LockInv /\ ServerInv /\ PendingInv /\ SeenInv
  /\ RepliesMatch /\ StatusIsFresh

(* Sequences of at most one element.                                       *)
LEMMA Singleton ==
  ASSUME NEW x
  PROVE  /\ Append(<<>>, x) = <<x>> /\ Tail(<<x>>) = <<>> /\ Head(<<x>>) = x
         /\ <<x>>[1] = x /\ <<x>> # <<>>
OBVIOUS

(* The one message of a sequence that is not empty.                        *)
LEMMA AtMostOneElement ==
  ASSUME NEW S, NEW s \in AtMostOne(S), s # <<>>
  PROVE  /\ s[1] \in S /\ Head(s) = s[1] /\ Tail(s) = <<>> /\ s = <<s[1]>>
BY Singleton DEF AtMostOne

(* A server that accepts and callers that have called nothing satisfy Inv. *)
LEMMA InitInv == Init => Inv
<1> SUFFICES ASSUME Init PROVE Inv
  OBVIOUS
<1> USE CallersAssumption, ClientAssumption DEF Init
<1>1. TypeOK
  <2>1. open \in [Conns -> BOOLEAN]
    BY Zenon
  <2>2. \A S : <<>> \in AtMostOne(S)
    BY DEF AtMostOne
  <2>3. mu \in [Conns -> Callers \cup {Nobody}] /\ tunnel \in States
    BY DEF States
  <2> QED
    BY <2>1, <2>2, <2>3 DEF TypeOK
<1>2. LockInv /\ ServerInv /\ PendingInv /\ SeenInv
  BY DEF LockInv, ServerInv, PendingInv, Pending, SeenInv
<1>3. RepliesMatch /\ StatusIsFresh
  BY DEF RepliesMatch, StatusIsFresh
<1> QED
  BY <1>1, <1>2, <1>3 DEF Inv

(* Typed replies: what dispatch puts together is a Response.               *)
LEMMA ReplyTyped ==
  ASSUME NEW q \in Request, NEW ok \in BOOLEAN,
         NEW status \in States \cup {"nil"}
  PROVE  /\ [to |-> q.by, ok |-> ok, status |-> status] \in Response
         /\ q.by \in Callers
BY DEF Request, Response

(* Every step of Do, ServeIO, dispatch and of the tunnel preserves Inv.    *)
LEMMA StepInv == Inv /\ [Next]_vars => Inv'
<1> SUFFICES ASSUME Inv, [Next]_vars PROVE Inv'
  OBVIOUS
<1> USE CallersAssumption, ClientAssumption DEF Inv
<1>a. \A S : <<>> \in AtMostOne(S)
  BY DEF AtMostOne
<1>b. \A S : \A x \in S : <<x>> \in AtMostOne(S)
  BY DEF AtMostOne
<1>c. \A k \in Conns : toServer[k] # <<>> =>
        /\ toServer[k][1] \in Request /\ Head(toServer[k]) = toServer[k][1]
        /\ Tail(toServer[k]) = <<>>
  BY AtMostOneElement DEF TypeOK
<1>d. \A k \in Conns : toClient[k] # <<>> =>
        /\ toClient[k][1] \in Response /\ Head(toClient[k]) = toClient[k][1]
        /\ Tail(toClient[k]) = <<>> /\ toClient[k][1].to \in Callers
  <2> SUFFICES ASSUME NEW k \in Conns, toClient[k] # <<>>
               PROVE  /\ toClient[k][1] \in Response
                      /\ Head(toClient[k]) = toClient[k][1]
                      /\ Tail(toClient[k]) = <<>>
                      /\ toClient[k][1].to \in Callers
    OBVIOUS
  <2>1. toClient[k] \in AtMostOne(Response)
    BY DEF TypeOK
  <2>2. /\ toClient[k][1] \in Response
        /\ Head(toClient[k]) = toClient[k][1]
        /\ Tail(toClient[k]) = <<>>
    BY <2>1, AtMostOneElement
  <2> QED
    BY <2>2 DEF Response
<1>e. \A q \in Request : q.by \in Callers
  BY DEF Request
<1>f. \A r \in Response : r.to \in Callers
  BY DEF Response
<1>1. ASSUME NEW c \in Callers, Do(c) PROVE Inv'
  <2>1. TypeOK'
    <3>1. open' \in [Conns -> BOOLEAN]
      BY <1>1, Zenon DEF Do, TypeOK, client, server, stream
    <3> QED
      BY <1>1, <1>a, <1>b, <1>d, <3>1 DEF Do, TypeOK, client, server, stream
  <2>2. LockInv'
    BY <1>1 DEF Do, LockInv, TypeOK, client, server, stream
  <2>3. ServerInv'
    BY <1>1 DEF Do, ServerInv, TypeOK, client, server, stream
  <2>4. PendingInv'
    BY <1>1, <1>c, <1>d, <1>e, <1>f
    DEF Do, PendingInv, Pending, TypeOK, ServerInv, client, server, stream
  <2>5. SeenInv'
    BY <1>1, <1>c, <1>d, <1>e, <1>f
    DEF Do, SeenInv, PendingInv, Pending, ServerInv, TypeOK, client, server,
        stream
  <2>6. (RepliesMatch /\ StatusIsFresh)'
    BY <1>1
    DEF Do, RepliesMatch, StatusIsFresh, TypeOK, client, server, stream
  <2> QED
    BY <2>1, <2>2, <2>3, <2>4, <2>5, <2>6
<1>2. ASSUME NEW c \in Callers, DoLock(c) PROVE Inv'
  <2>1. TypeOK'
    <3>1. open' \in [Conns -> BOOLEAN]
      BY <1>2, Zenon DEF DoLock, TypeOK, client, server, stream
    <3> QED
      BY <1>2, <1>a, <1>b, <1>d, <3>1
      DEF DoLock, TypeOK, client, server, stream
  <2>2. LockInv'
    BY <1>2 DEF DoLock, LockInv, TypeOK, client, server, stream
  <2>3. ServerInv'
    BY <1>2 DEF DoLock, ServerInv, TypeOK, client, server, stream
  <2>4. PendingInv'
    BY <1>2, <1>c, <1>d, <1>e, <1>f
    DEF DoLock, PendingInv, Pending, TypeOK, ServerInv, client, server, stream
  <2>5. SeenInv'
    BY <1>2, <1>c, <1>d, <1>e, <1>f
    DEF DoLock, SeenInv, PendingInv, Pending, ServerInv, TypeOK, client,
        server, stream
  <2>6. (RepliesMatch /\ StatusIsFresh)'
    BY <1>2
    DEF DoLock, RepliesMatch, StatusIsFresh, TypeOK, client, server, stream
  <2> QED
    BY <2>1, <2>2, <2>3, <2>4, <2>5, <2>6
<1>3. ASSUME NEW c \in Callers, NEW m \in Cmds, DoWrite(c, m) PROVE Inv'
  <2>0. /\ ClientOf[c] \in Conns
        /\ mu[ClientOf[c]] = c
        /\ reply[c] = <<>>
        /\ [by |-> c, cmd |-> m] \in Request
    BY <1>3 DEF DoWrite, LockInv, PendingInv, Request
  <2>q. \A d \in Callers : ~Pending(ClientOf[c], d)
    BY <1>3, <2>0 DEF DoWrite, LockInv, PendingInv, TypeOK
  <2>r. /\ toServer[ClientOf[c]] = <<>> /\ hand[ClientOf[c]] = <<>>
        /\ toClient[ClientOf[c]] = <<>>
    BY <2>0, <2>q, <1>c, <1>d, <1>e, <1>f DEF Pending, ServerInv, TypeOK
  <2>s. toServer' =
          [toServer EXCEPT ![ClientOf[c]] = <<[by |-> c, cmd |-> m]>>]
    BY <1>3, <2>r, Singleton DEF DoWrite
  <2>1. TypeOK'
    <3>1. open' \in [Conns -> BOOLEAN]
      BY <1>3, Zenon DEF DoWrite, TypeOK, client, server, stream
    <3>2. toServer' \in [Conns -> AtMostOne(Request)]
      BY <2>0, <2>s, <1>b DEF TypeOK
    <3> QED
      BY <1>3, <2>0, <2>q, <2>r, <2>s, <3>1, <3>2
      DEF DoWrite, TypeOK, client, server, stream
  <2>2. LockInv'
    BY <1>3, <2>0, <2>q, <2>r, <2>s
    DEF DoWrite, LockInv, TypeOK, client, server, stream
  <2>3. ServerInv'
    BY <1>3, <2>0, <2>q, <2>r, <2>s
    DEF DoWrite, ServerInv, TypeOK, client, server, stream
  <2>4. PendingInv'
    BY <1>3, <2>0, <2>q, <2>r, <2>s, <1>c, <1>d, <1>e, <1>f
    DEF DoWrite, PendingInv, Pending, TypeOK, ServerInv, client, server,
        stream
  <2>5. SeenInv'
    BY <1>3, <2>0, <2>q, <2>r, <2>s, <1>c, <1>d, <1>e, <1>f
    DEF DoWrite, SeenInv, PendingInv, Pending, ServerInv, TypeOK, client,
        server, stream
  <2>6. (RepliesMatch /\ StatusIsFresh)'
    BY <1>3, <2>0, <2>q, <2>r, <2>s
    DEF DoWrite, RepliesMatch, StatusIsFresh, TypeOK, client, server, stream
  <2> QED
    BY <2>1, <2>2, <2>3, <2>4, <2>5, <2>6
<1>4. ASSUME NEW c \in Callers, DoRead(c) PROVE Inv'
  <2>0. /\ ClientOf[c] \in Conns
        /\ mu[ClientOf[c]] = c
        /\ toClient[ClientOf[c]] # <<>>
    BY <1>4 DEF DoRead, LockInv
  <2>q. /\ toClient[ClientOf[c]][1].to = c
        /\ toServer[ClientOf[c]] = <<>> /\ hand[ClientOf[c]] = <<>>
    BY <2>0, <1>d DEF LockInv, PendingInv, Pending, ServerInv, TypeOK
  <2>r. toClient' = [toClient EXCEPT ![ClientOf[c]] = <<>>]
    BY <1>4, <2>0, <1>d DEF DoRead
  <2>s. reply' = [reply EXCEPT ![c] = <<toClient[ClientOf[c]][1]>>]
    BY <1>4, <2>0, <1>d DEF DoRead, DoReturn
  <2>1. TypeOK'
    <3>1. open' \in [Conns -> BOOLEAN]
      BY <1>4, Zenon DEF DoRead, DoReturn, TypeOK, client, server, stream
    <3>2. toClient' \in [Conns -> AtMostOne(Response)]
      BY <2>0, <2>r, <1>a DEF TypeOK
    <3>3. reply' \in [Callers -> AtMostOne(Response)]
      BY <2>0, <2>s, <1>b, <1>d DEF TypeOK
    <3> QED
      BY <1>4, <2>0, <2>q, <2>r, <2>s, <3>1, <3>2, <3>3
      DEF DoRead, DoReturn, TypeOK, client, server, stream
  <2>2. LockInv'
    BY <1>4, <2>0, <2>q, <2>r, <2>s
    DEF DoRead, DoReturn, LockInv, TypeOK, client, server, stream
  <2>3. ServerInv'
    BY <1>4, <2>0, <2>q, <2>r, <2>s
    DEF DoRead, DoReturn, ServerInv, TypeOK, client, server, stream
  <2>4. PendingInv'
    BY <1>4, <2>0, <2>q, <2>r, <2>s, <1>c, <1>d, <1>e, <1>f
    DEF DoRead, DoReturn, PendingInv, Pending, TypeOK, ServerInv, client,
        server, stream
  <2>5. SeenInv'
    BY <1>4, <2>0, <2>q, <2>r, <2>s, <1>c, <1>d, <1>e, <1>f
    DEF DoRead, DoReturn, SeenInv, PendingInv, Pending, ServerInv, TypeOK,
        client, server, stream
  <2>6. (RepliesMatch /\ StatusIsFresh)'
    BY <1>4, <2>0, <2>q, <2>r, <2>s
    DEF DoRead, DoReturn, RepliesMatch, StatusIsFresh, TypeOK, SeenInv,
        client, server, stream
  <2> QED
    BY <2>1, <2>2, <2>3, <2>4, <2>5, <2>6
<1>5. ASSUME NEW c \in Callers, DoFails(c) PROVE Inv'
  <2>1. TypeOK'
    <3>1. open' \in [Conns -> BOOLEAN]
      BY <1>5, Zenon DEF DoFails, DoReturn, TypeOK, client, server, stream
    <3> QED
      BY <1>5, <1>a, <1>b, <1>d, <3>1
      DEF DoFails, DoReturn, TypeOK, client, server, stream
  <2>2. LockInv'
    BY <1>5 DEF DoFails, DoReturn, LockInv, TypeOK, client, server, stream
  <2>3. ServerInv'
    BY <1>5 DEF DoFails, DoReturn, ServerInv, TypeOK, client, server, stream
  <2>4. PendingInv'
    BY <1>5, <1>c, <1>d, <1>e, <1>f
    DEF DoFails, DoReturn, PendingInv, Pending, TypeOK, ServerInv, client,
        server, stream
  <2>5. SeenInv'
    BY <1>5, <1>c, <1>d, <1>e, <1>f
    DEF DoFails, DoReturn, SeenInv, PendingInv, Pending, ServerInv, TypeOK,
        client, server, stream
  <2>6. (RepliesMatch /\ StatusIsFresh)'
    BY <1>5
    DEF DoFails, DoReturn, RepliesMatch, StatusIsFresh, TypeOK, client,
        server, stream
  <2> QED
    BY <2>1, <2>2, <2>3, <2>4, <2>5, <2>6
<1>6. ASSUME NEW k \in Conns, Accept(k) PROVE Inv'
  <2>1. TypeOK'
    <3>1. open' \in [Conns -> BOOLEAN]
      BY <1>6, Zenon DEF Accept, Serving, TypeOK, client, server, stream
    <3> QED
      BY <1>6, <1>a, <1>b, <1>d, <3>1
      DEF Accept, Serving, TypeOK, client, server, stream
  <2>2. LockInv'
    BY <1>6 DEF Accept, Serving, LockInv, TypeOK, client, server, stream
  <2>3. ServerInv'
    BY <1>6 DEF Accept, Serving, ServerInv, TypeOK, client, server, stream
  <2>4. PendingInv'
    BY <1>6, <1>c, <1>d, <1>e, <1>f
    DEF Accept, Serving, PendingInv, Pending, TypeOK, ServerInv, client,
        server, stream
  <2>5. SeenInv'
    BY <1>6, <1>c, <1>d, <1>e, <1>f
    DEF Accept, Serving, SeenInv, PendingInv, Pending, ServerInv, TypeOK,
        client, server, stream
  <2>6. (RepliesMatch /\ StatusIsFresh)'
    BY <1>6
    DEF Accept, Serving, RepliesMatch, StatusIsFresh, TypeOK, client, server,
        stream
  <2> QED
    BY <2>1, <2>2, <2>3, <2>4, <2>5, <2>6
<1>7. ASSUME NEW k \in Conns, ReadRequest(k) PROVE Inv'
  <2>0. /\ toServer' = [toServer EXCEPT ![k] = <<>>]
        /\ hand' = [hand EXCEPT ![k] = <<toServer[k][1]>>]
        /\ toServer[k][1] \in Request /\ toServer[k] # <<>>
    BY <1>7, <1>c DEF ReadRequest, Serving
  <2>1. TypeOK'
    <3>1. open' \in [Conns -> BOOLEAN]
      BY <1>7, Zenon DEF ReadRequest, Serving, TypeOK, client, server, stream
    <3>2. toServer' \in [Conns -> AtMostOne(Request)]
      BY <2>0, <1>a DEF TypeOK
    <3>3. hand' \in [Conns -> AtMostOne(Request \cup Response)]
      BY <2>0, <1>b DEF TypeOK
    <3> QED
      BY <1>7, <2>0, <3>1, <3>2, <3>3
      DEF ReadRequest, Serving, TypeOK, client, server, stream
  <2>2. LockInv'
    BY <1>7, <2>0
    DEF ReadRequest, Serving, LockInv, TypeOK, client, server, stream
  <2>3. ServerInv'
    BY <1>7, <2>0
    DEF ReadRequest, Serving, ServerInv, TypeOK, client, server, stream
  <2>4. PendingInv'
    BY <1>7, <2>0, <1>c, <1>d, <1>e, <1>f
    DEF ReadRequest, Serving, PendingInv, Pending, TypeOK, ServerInv, client,
        server, stream
  <2>5. SeenInv'
    BY <1>7, <2>0, <1>c, <1>d, <1>e, <1>f
    DEF ReadRequest, Serving, SeenInv, PendingInv, Pending, ServerInv,
        TypeOK, client, server, stream
  <2>6. (RepliesMatch /\ StatusIsFresh)'
    BY <1>7, <2>0
    DEF ReadRequest, Serving, RepliesMatch, StatusIsFresh, TypeOK, client,
        server, stream
  <2> QED
    BY <2>1, <2>2, <2>3, <2>4, <2>5, <2>6
<1>8. ASSUME NEW k \in Conns, WriteResponse(k) PROVE Inv'
  <2>0. PICK r \in Response : hand[k] = <<r>>
    BY <1>8 DEF WriteResponse, ServerInv
  <2>q. /\ hand[k][1] = r /\ r.to \in Callers
        /\ toClient[k] = <<>> /\ toServer[k] = <<>>
    BY <2>0, <1>f DEF ServerInv
  <2>r. toClient' = [toClient EXCEPT ![k] = <<r>>]
    BY <1>8, <2>q, Singleton DEF WriteResponse
  <2>1. TypeOK'
    <3>1. open' \in [Conns -> BOOLEAN]
      BY <1>8, Zenon
      DEF WriteResponse, Serving, TypeOK, client, server, stream
    <3>2. toClient' \in [Conns -> AtMostOne(Response)]
      BY <2>r, <1>b DEF TypeOK
    <3>3. hand' \in [Conns -> AtMostOne(Request \cup Response)]
      BY <1>8, <1>a DEF WriteResponse, Serving, TypeOK
    <3> QED
      BY <1>8, <2>0, <2>q, <2>r, <3>1, <3>2, <3>3
      DEF WriteResponse, Serving, TypeOK, client, server, stream
  <2>2. LockInv'
    BY <1>8, <2>0, <2>q, <2>r
    DEF WriteResponse, Serving, LockInv, TypeOK, client, server, stream
  <2>3. ServerInv'
    BY <1>8, <2>0, <2>q, <2>r
    DEF WriteResponse, Serving, ServerInv, TypeOK, client, server, stream
  <2>4. PendingInv'
    BY <1>8, <2>0, <2>q, <2>r, <1>c, <1>d, <1>e, <1>f
    DEF WriteResponse, Serving, PendingInv, Pending, TypeOK, ServerInv,
        client, server, stream
  <2>5. SeenInv'
    BY <1>8, <2>0, <2>q, <2>r, <1>c, <1>d, <1>e, <1>f
    DEF WriteResponse, Serving, SeenInv, PendingInv, Pending, ServerInv,
        TypeOK, client, server, stream
  <2>6. (RepliesMatch /\ StatusIsFresh)'
    BY <1>8, <2>0, <2>q, <2>r
    DEF WriteResponse, Serving, RepliesMatch, StatusIsFresh, TypeOK, client,
        server, stream
  <2> QED
    BY <2>1, <2>2, <2>3, <2>4, <2>5, <2>6
<1>9. ASSUME NEW k \in Conns, ServeEnds(k) PROVE Inv'
  <2>1. TypeOK'
    <3>1. open' \in [Conns -> BOOLEAN]
      BY <1>9, Zenon DEF ServeEnds, Serving, TypeOK, client, server, stream
    <3> QED
      BY <1>9, <1>a, <1>b, <1>d, <3>1
      DEF ServeEnds, Serving, TypeOK, client, server, stream
  <2>2. LockInv'
    BY <1>9 DEF ServeEnds, Serving, LockInv, TypeOK, client, server, stream
  <2>3. ServerInv'
    BY <1>9 DEF ServeEnds, Serving, ServerInv, TypeOK, client, server, stream
  <2>4. PendingInv'
    BY <1>9, <1>c, <1>d, <1>e, <1>f
    DEF ServeEnds, Serving, PendingInv, Pending, TypeOK, ServerInv, client,
        server, stream
  <2>5. SeenInv'
    BY <1>9, <1>c, <1>d, <1>e, <1>f
    DEF ServeEnds, Serving, SeenInv, PendingInv, Pending, ServerInv, TypeOK,
        client, server, stream
  <2>6. (RepliesMatch /\ StatusIsFresh)'
    BY <1>9
    DEF ServeEnds, Serving, RepliesMatch, StatusIsFresh, TypeOK, client,
        server, stream
  <2> QED
    BY <2>1, <2>2, <2>3, <2>4, <2>5, <2>6
<1>10. ASSUME NEW k \in Conns, Connect(k) PROVE Inv'
  <2>0. PICK q \in Request : hand[k] = <<q>>
    BY <1>10 DEF Handling, ServerInv, Connect
  <2>q. /\ hand[k][1] = q /\ q.by \in Callers
        /\ toServer[k] = <<>> /\ toClient[k] = <<>>
    BY <2>0, <1>e DEF ServerInv
  <2>1. TypeOK'
    <3>1. open' \in [Conns -> BOOLEAN]
      BY <1>10, Zenon
      DEF Connect, Serving, Handling, TunnelIs, TypeOK, client, server, stream
    <3> QED
      BY <1>10, <2>0, <2>q, <1>a, <1>b, <1>d, <3>1
      DEF Connect, Serving, Handling, TunnelIs, TypeOK, client, server,
          stream, States
  <2>2. LockInv'
    BY <1>10, <2>0, <2>q
    DEF Connect, Serving, Handling, TunnelIs, LockInv, TypeOK, client,
        server, stream
  <2>3. ServerInv'
    BY <1>10, <2>0, <2>q
    DEF Connect, Serving, Handling, TunnelIs, ServerInv, TypeOK, client,
        server, stream
  <2>4. PendingInv'
    BY <1>10, <2>0, <2>q, <1>c, <1>d, <1>e, <1>f
    DEF Connect, Serving, Handling, TunnelIs, PendingInv, Pending, TypeOK,
        ServerInv, client, server, stream
  <2>5. SeenInv'
    BY <1>10, <2>0, <2>q, <1>c, <1>d, <1>e, <1>f
    DEF Connect, Serving, Handling, TunnelIs, SeenInv, PendingInv, Pending,
        ServerInv, TypeOK, client, server, stream
  <2>6. (RepliesMatch /\ StatusIsFresh)'
    BY <1>10, <2>0, <2>q
    DEF Connect, Serving, Handling, TunnelIs, RepliesMatch, StatusIsFresh,
        TypeOK, PendingInv, SeenInv, Pending, client, server, stream
  <2> QED
    BY <2>1, <2>2, <2>3, <2>4, <2>5, <2>6
<1>11. ASSUME NEW k \in Conns, ConnectFails(k) PROVE Inv'
  <2>0. PICK q \in Request : hand[k] = <<q>>
    BY <1>11 DEF Handling, ServerInv, ConnectFails
  <2>q. /\ hand[k][1] = q /\ q.by \in Callers
        /\ toServer[k] = <<>> /\ toClient[k] = <<>>
    BY <2>0, <1>e DEF ServerInv
  <2>r. [to |-> q.by, ok |-> FALSE, status |-> "nil"] \in Response
    BY ReplyTyped DEF TypeOK
  <2>1. TypeOK'
    <3>1. open' \in [Conns -> BOOLEAN]
      BY <1>11, Zenon
      DEF ConnectFails, Respond, Serving, Handling, TunnelIs, TypeOK, client,
          server, stream
    <3> QED
      BY <1>11, <2>0, <2>q, <2>r, <1>a, <1>b, <1>d, <3>1
      DEF ConnectFails, Respond, Serving, Handling, TunnelIs, TypeOK, client,
          server, stream, States
  <2>2. LockInv'
    BY <1>11, <2>0, <2>q, <2>r
    DEF ConnectFails, Respond, Serving, Handling, TunnelIs, LockInv, TypeOK,
        client, server, stream
  <2>3. ServerInv'
    BY <1>11, <2>0, <2>q, <2>r
    DEF ConnectFails, Respond, Serving, Handling, TunnelIs, ServerInv,
        TypeOK, client, server, stream
  <2>4. PendingInv'
    BY <1>11, <2>0, <2>q, <2>r, <1>c, <1>d, <1>e, <1>f
    DEF ConnectFails, Respond, Serving, Handling, TunnelIs, PendingInv,
        Pending, TypeOK, ServerInv, client, server, stream
  <2>5. SeenInv'
    BY <1>11, <2>0, <2>q, <2>r, <1>c, <1>d, <1>e, <1>f
    DEF ConnectFails, Respond, Serving, Handling, TunnelIs, SeenInv,
        PendingInv, Pending, ServerInv, TypeOK, client, server, stream
  <2>6. (RepliesMatch /\ StatusIsFresh)'
    BY <1>11, <2>0, <2>q, <2>r
    DEF ConnectFails, Respond, Serving, Handling, TunnelIs, RepliesMatch,
        StatusIsFresh, TypeOK, PendingInv, SeenInv, Pending, client, server,
        stream
  <2> QED
    BY <2>1, <2>2, <2>3, <2>4, <2>5, <2>6
<1>12. ASSUME NEW k \in Conns, Disconnect(k) PROVE Inv'
  <2>0. PICK q \in Request : hand[k] = <<q>>
    BY <1>12 DEF Handling, ServerInv, Disconnect
  <2>q. /\ hand[k][1] = q /\ q.by \in Callers
        /\ toServer[k] = <<>> /\ toClient[k] = <<>>
    BY <2>0, <1>e DEF ServerInv
  <2>1. TypeOK'
    <3>1. open' \in [Conns -> BOOLEAN]
      BY <1>12, Zenon
      DEF Disconnect, Serving, Handling, TunnelIs, TypeOK, client, server,
          stream
    <3> QED
      BY <1>12, <2>0, <2>q, <1>a, <1>b, <1>d, <3>1
      DEF Disconnect, Serving, Handling, TunnelIs, TypeOK, client, server,
          stream, States
  <2>2. LockInv'
    BY <1>12, <2>0, <2>q
    DEF Disconnect, Serving, Handling, TunnelIs, LockInv, TypeOK, client,
        server, stream
  <2>3. ServerInv'
    BY <1>12, <2>0, <2>q
    DEF Disconnect, Serving, Handling, TunnelIs, ServerInv, TypeOK, client,
        server, stream
  <2>4. PendingInv'
    BY <1>12, <2>0, <2>q, <1>c, <1>d, <1>e, <1>f
    DEF Disconnect, Serving, Handling, TunnelIs, PendingInv, Pending, TypeOK,
        ServerInv, client, server, stream
  <2>5. SeenInv'
    BY <1>12, <2>0, <2>q, <1>c, <1>d, <1>e, <1>f
    DEF Disconnect, Serving, Handling, TunnelIs, SeenInv, PendingInv,
        Pending, ServerInv, TypeOK, client, server, stream
  <2>6. (RepliesMatch /\ StatusIsFresh)'
    BY <1>12, <2>0, <2>q
    DEF Disconnect, Serving, Handling, TunnelIs, RepliesMatch, StatusIsFresh,
        TypeOK, PendingInv, SeenInv, Pending, client, server, stream
  <2> QED
    BY <2>1, <2>2, <2>3, <2>4, <2>5, <2>6
<1>13. ASSUME NEW k \in Conns, Query(k) PROVE Inv'
  <2>0. PICK q \in Request : hand[k] = <<q>>
    BY <1>13 DEF Handling, ServerInv, Query
  <2>q. /\ hand[k][1] = q /\ q.by \in Callers
        /\ toServer[k] = <<>> /\ toClient[k] = <<>>
    BY <2>0, <1>e DEF ServerInv
  <2>1. TypeOK'
    <3>1. open' \in [Conns -> BOOLEAN]
      BY <1>13, Zenon
      DEF Query, Serving, Handling, TunnelIs, TypeOK, client, server, stream
    <3> QED
      BY <1>13, <2>0, <2>q, <1>a, <1>b, <1>d, <3>1
      DEF Query, Serving, Handling, TunnelIs, TypeOK, client, server, stream,
          States
  <2>2. LockInv'
    BY <1>13, <2>0, <2>q
    DEF Query, Serving, Handling, TunnelIs, LockInv, TypeOK, client, server,
        stream
  <2>3. ServerInv'
    BY <1>13, <2>0, <2>q
    DEF Query, Serving, Handling, TunnelIs, ServerInv, TypeOK, client,
        server, stream
  <2>4. PendingInv'
    BY <1>13, <2>0, <2>q, <1>c, <1>d, <1>e, <1>f
    DEF Query, Serving, Handling, TunnelIs, PendingInv, Pending, TypeOK,
        ServerInv, client, server, stream
  <2>5. SeenInv'
    BY <1>13, <2>0, <2>q, <1>c, <1>d, <1>e, <1>f
    DEF Query, Serving, Handling, TunnelIs, SeenInv, PendingInv, Pending,
        ServerInv, TypeOK, client, server, stream
  <2>6. (RepliesMatch /\ StatusIsFresh)'
    BY <1>13, <2>0, <2>q
    DEF Query, Serving, Handling, TunnelIs, RepliesMatch, StatusIsFresh,
        TypeOK, PendingInv, SeenInv, Pending, client, server, stream
  <2> QED
    BY <2>1, <2>2, <2>3, <2>4, <2>5, <2>6
<1>14. ASSUME NEW k \in Conns, NEW ok \in BOOLEAN, Config(k, ok) PROVE Inv'
  <2>0. PICK q \in Request : hand[k] = <<q>>
    BY <1>14 DEF Handling, ServerInv, Config
  <2>q. /\ hand[k][1] = q /\ q.by \in Callers
        /\ toServer[k] = <<>> /\ toClient[k] = <<>>
    BY <2>0, <1>e DEF ServerInv
  <2>r. [to |-> q.by, ok |-> ok, status |-> "nil"] \in Response
    BY ReplyTyped DEF TypeOK
  <2>1. TypeOK'
    <3>1. open' \in [Conns -> BOOLEAN]
      BY <1>14, Zenon
      DEF Config, Respond, Serving, Handling, TypeOK, client, server, stream
    <3> QED
      BY <1>14, <2>0, <2>q, <2>r, <1>a, <1>b, <1>d, <3>1
      DEF Config, Respond, Serving, Handling, TypeOK, client, server, stream
  <2>2. LockInv'
    BY <1>14, <2>0, <2>q, <2>r
    DEF Config, Respond, Serving, Handling, LockInv, TypeOK, client, server,
        stream
  <2>3. ServerInv'
    BY <1>14, <2>0, <2>q, <2>r
    DEF Config, Respond, Serving, Handling, ServerInv, TypeOK, client,
        server, stream
  <2>4. PendingInv'
    BY <1>14, <2>0, <2>q, <2>r, <1>c, <1>d, <1>e, <1>f
    DEF Config, Respond, Serving, Handling, PendingInv, Pending, TypeOK,
        ServerInv, client, server, stream
  <2>5. SeenInv'
    BY <1>14, <2>0, <2>q, <2>r, <1>c, <1>d, <1>e, <1>f
    DEF Config, Respond, Serving, Handling, SeenInv, PendingInv, Pending,
        ServerInv, TypeOK, client, server, stream
  <2>6. (RepliesMatch /\ StatusIsFresh)'
    BY <1>14, <2>0, <2>q, <2>r
    DEF Config, Respond, Serving, Handling, RepliesMatch, StatusIsFresh,
        TypeOK, client, server, stream
  <2> QED
    BY <2>1, <2>2, <2>3, <2>4, <2>5, <2>6
<1>15. ASSUME NEW k \in Conns, Unknown(k) PROVE Inv'
  <2>0. PICK q \in Request : hand[k] = <<q>>
    BY <1>15 DEF Handling, ServerInv, Unknown
  <2>q. /\ hand[k][1] = q /\ q.by \in Callers
        /\ toServer[k] = <<>> /\ toClient[k] = <<>>
    BY <2>0, <1>e DEF ServerInv
  <2>r. [to |-> q.by, ok |-> FALSE, status |-> "nil"] \in Response
    BY ReplyTyped DEF TypeOK
  <2>1. TypeOK'
    <3>1. open' \in [Conns -> BOOLEAN]
      BY <1>15, Zenon
      DEF Unknown, Respond, Serving, Handling, TypeOK, client, server, stream
    <3> QED
      BY <1>15, <2>0, <2>q, <2>r, <1>a, <1>b, <1>d, <3>1
      DEF Unknown, Respond, Serving, Handling, TypeOK, client, server, stream
  <2>2. LockInv'
    BY <1>15, <2>0, <2>q, <2>r
    DEF Unknown, Respond, Serving, Handling, LockInv, TypeOK, client, server,
        stream
  <2>3. ServerInv'
    BY <1>15, <2>0, <2>q, <2>r
    DEF Unknown, Respond, Serving, Handling, ServerInv, TypeOK, client,
        server, stream
  <2>4. PendingInv'
    BY <1>15, <2>0, <2>q, <2>r, <1>c, <1>d, <1>e, <1>f
    DEF Unknown, Respond, Serving, Handling, PendingInv, Pending, TypeOK,
        ServerInv, client, server, stream
  <2>5. SeenInv'
    BY <1>15, <2>0, <2>q, <2>r, <1>c, <1>d, <1>e, <1>f
    DEF Unknown, Respond, Serving, Handling, SeenInv, PendingInv, Pending,
        ServerInv, TypeOK, client, server, stream
  <2>6. (RepliesMatch /\ StatusIsFresh)'
    BY <1>15, <2>0, <2>q, <2>r
    DEF Unknown, Respond, Serving, Handling, RepliesMatch, StatusIsFresh,
        TypeOK, client, server, stream
  <2> QED
    BY <2>1, <2>2, <2>3, <2>4, <2>5, <2>6
<1>16. ASSUME NEW k \in Conns, Finish(k) PROVE Inv'
  <2>0. PICK q \in Request : hand[k] = <<q>>
    BY <1>16 DEF Handling, ServerInv, Finish
  <2>q. /\ hand[k][1] = q /\ q.by \in Callers
        /\ toServer[k] = <<>> /\ toClient[k] = <<>>
    BY <2>0, <1>e DEF ServerInv
  <2>r. [to |-> q.by, ok |-> TRUE, status |-> tunnel] \in Response
    BY ReplyTyped DEF TypeOK
  <2>1. TypeOK'
    <3>1. open' \in [Conns -> BOOLEAN]
      BY <1>16, Zenon
      DEF Finish, Respond, Serving, TypeOK, client, server, stream
    <3> QED
      BY <1>16, <2>0, <2>q, <2>r, <1>a, <1>b, <1>d, <3>1
      DEF Finish, Respond, Serving, TypeOK, client, server, stream
  <2>2. LockInv'
    BY <1>16, <2>0, <2>q, <2>r
    DEF Finish, Respond, Serving, LockInv, TypeOK, client, server, stream
  <2>3. ServerInv'
    BY <1>16, <2>0, <2>q, <2>r
    DEF Finish, Respond, Serving, ServerInv, TypeOK, client, server, stream
  <2>4. PendingInv'
    BY <1>16, <2>0, <2>q, <2>r, <1>c, <1>d, <1>e, <1>f
    DEF Finish, Respond, Serving, PendingInv, Pending, TypeOK, ServerInv,
        client, server, stream
  <2>5. SeenInv'
    BY <1>16, <2>0, <2>q, <2>r, <1>c, <1>d, <1>e, <1>f
    DEF Finish, Respond, Serving, SeenInv, PendingInv, Pending, ServerInv,
        TypeOK, client, server, stream
  <2>6. (RepliesMatch /\ StatusIsFresh)'
    BY <1>16, <2>0, <2>q, <2>r
    DEF Finish, Respond, Serving, RepliesMatch, StatusIsFresh, TypeOK,
        client, server, stream
  <2> QED
    BY <2>1, <2>2, <2>3, <2>4, <2>5, <2>6
<1>17. ASSUME NEW k \in Conns, Break(k) PROVE Inv'
  <2>1. TypeOK'
    <3>1. open' \in [Conns -> BOOLEAN]
      BY <1>17, Zenon DEF Break, TypeOK, client, server, stream
    <3>2. toClient' \in [Conns -> AtMostOne(Response)]
      BY <1>17, <1>a DEF Break, TypeOK
    <3> QED
      BY <1>17, <3>1, <3>2 DEF Break, TypeOK, client, server, stream
  <2>2. LockInv'
    BY <1>17 DEF Break, LockInv, TypeOK, client, server, stream
  <2>3. ServerInv'
    BY <1>17 DEF Break, ServerInv, TypeOK, client, server, stream
  <2>4. PendingInv'
    BY <1>17, <1>c, <1>d, <1>e, <1>f
    DEF Break, PendingInv, Pending, TypeOK, ServerInv, client, server, stream
  <2>5. SeenInv'
    BY <1>17, <1>c, <1>d, <1>e, <1>f
    DEF Break, SeenInv, PendingInv, Pending, ServerInv, TypeOK, client,
        server, stream
  <2>6. (RepliesMatch /\ StatusIsFresh)'
    BY <1>17
    DEF Break, RepliesMatch, StatusIsFresh, TypeOK, client, server, stream
  <2> QED
    BY <2>1, <2>2, <2>3, <2>4, <2>5, <2>6
<1>18. ASSUME TunnelMoves PROVE Inv'
  <2>1. TypeOK'
    <3>1. open' \in [Conns -> BOOLEAN]
      BY <1>18, Zenon
      DEF TunnelMoves, TunnelIs, TypeOK, client, server, stream
    <3>2. seen' \in [Callers -> SUBSET States] /\ tunnel' \in States
      BY <1>18 DEF TunnelMoves, TunnelIs, TypeOK
    <3> QED
      BY <1>18, <3>1, <3>2
      DEF TunnelMoves, TunnelIs, TypeOK, client, server, stream, States
  <2>2. LockInv'
    BY <1>18
    DEF TunnelMoves, TunnelIs, LockInv, TypeOK, client, server, stream
  <2>3. ServerInv'
    BY <1>18
    DEF TunnelMoves, TunnelIs, ServerInv, TypeOK, client, server, stream
  <2>4. PendingInv'
    BY <1>18, <1>c, <1>d, <1>e, <1>f
    DEF TunnelMoves, TunnelIs, PendingInv, Pending, TypeOK, ServerInv,
        client, server, stream
  <2>5. SeenInv'
    BY <1>18, <1>c, <1>d, <1>e, <1>f
    DEF TunnelMoves, TunnelIs, SeenInv, PendingInv, Pending, ServerInv,
        TypeOK, client, server, stream
  <2>6. (RepliesMatch /\ StatusIsFresh)'
    BY <1>18
    DEF TunnelMoves, TunnelIs, RepliesMatch, StatusIsFresh, TypeOK,
        PendingInv, SeenInv, Pending, client, server, stream
  <2> QED
    BY <2>1, <2>2, <2>3, <2>4, <2>5, <2>6
<1>19. ASSUME UNCHANGED vars PROVE Inv'
  <2>1. TypeOK'
    <3>1. open' \in [Conns -> BOOLEAN]
      BY <1>19, Zenon DEF vars, TypeOK, client, server, stream
    <3> QED
      BY <1>19, <1>a, <1>b, <1>d, <3>1
      DEF vars, TypeOK, client, server, stream
  <2>2. LockInv'
    BY <1>19 DEF vars, LockInv, TypeOK, client, server, stream
  <2>3. ServerInv'
    BY <1>19 DEF vars, ServerInv, TypeOK, client, server, stream
  <2>4. PendingInv'
    BY <1>19, <1>c, <1>d, <1>e, <1>f
    DEF vars, PendingInv, Pending, TypeOK, ServerInv, client, server, stream
  <2>5. SeenInv'
    BY <1>19, <1>c, <1>d, <1>e, <1>f
    DEF vars, SeenInv, PendingInv, Pending, ServerInv, TypeOK, client,
        server, stream
  <2>6. (RepliesMatch /\ StatusIsFresh)'
    BY <1>19
    DEF vars, RepliesMatch, StatusIsFresh, TypeOK, client, server, stream
  <2> QED
    BY <2>1, <2>2, <2>3, <2>4, <2>5, <2>6
<1> HIDE DEF Inv
<1> QED
  BY <1>1, <1>2, <1>3, <1>4, <1>5, <1>6, <1>7, <1>8, <1>9, <1>10, <1>11,
     <1>12, <1>13, <1>14, <1>15, <1>16, <1>17, <1>18, <1>19
  DEF Next, Client, Server, Dispatch

(* Inv holds of every state of the channel.                                *)
LEMMA InvAlways == Spec => []Inv
BY InitInv, StepInv, PTL DEF Spec

(* Type correctness of Do, ServeIO and dispatch, for any number of         *)
(* connections and callers: in particular at most one complete message is  *)
(* ever under way in each direction of a connection, so neither end can    *)
(* fall behind the other.                                                  *)
THEOREM TypeCorrect == Spec => []TypeOK
<1>1. Inv => TypeOK
  BY DEF Inv
<1> QED
  BY <1>1, InvAlways, PTL

(* Client.Do gives every caller the reply to its own request, for any      *)
(* number of goroutines sharing any number of Clients, although a message  *)
(* carries no identifier: RepliesMatch.                                    *)
THEOREM RepliesReachTheirCaller == Spec => []RepliesMatch
<1>1. Inv => RepliesMatch
  BY DEF Inv
<1> QED
  BY <1>1, InvAlways, PTL

(* The status in a reply is one the tunnel had after the caller's command  *)
(* took effect, whatever ran between the two Handler calls of dispatch:    *)
(* StatusIsFresh.                                                          *)
THEOREM RepliesAreFresh == Spec => []StatusIsFresh
<1>1. Inv => StatusIsFresh
  BY DEF Inv
<1> QED
  BY <1>1, InvAlways, PTL
=============================================================================
