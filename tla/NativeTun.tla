----------------------------- MODULE NativeTun -----------------------------
(***************************************************************************)
(* The TUN device of package veiltun (veiltun/device.go, session.go):      *)
(* Read, Write and Close of NativeTun over the driver's session.           *)
(*                                                                         *)
(* The engine's two loops call Read and Write, one goroutine each; any     *)
(* goroutine may call Close.  There is no lock: what keeps a Read or Write *)
(* from touching the session after it has been ended is an atomic flag, a  *)
(* wait group and the wake-up of the driver's event.  The wait group is    *)
(* modelled with its two counters, because Read and Write add to it        *)
(* without regard to a Wait in progress.                                   *)
(***************************************************************************)
EXTENDS Naturals, Sequences

CONSTANTS
  Closers,      \* goroutines that may call Close
  BatchSize,    \* bound: buffers given to one Read or Write
  RingCap,      \* bound: packets a ring holds
  MaxArrivals   \* bound: packets the driver receives

ASSUME BoundsAssumption ==
  /\ BatchSize \in Nat \ {0}
  /\ RingCap \in Nat \ {0}
  /\ MaxArrivals \in Nat
ASSUME ClosersAssumption == Closers \cap {"creator", "reader", "writer"} = {}

IO    == {"reader", "writer"}
Procs == {"creator"} \cup IO \cup Closers

VARIABLES
  \* NativeTun
  closed,      \* the atomic flag
  once,        \* closeOnce: "free", "busy" or "done"
  wg,          \* the wait group: its counter, its waiters, wake-ups not consumed
  drv,         \* the driver, see below
  \* the goroutines
  pc,
  batch,       \* packets copied by the Read in progress
  todo,        \* buffers the Write in progress has left
  ret,         \* the error the Read or Write is about to return
  delivered,   \* packets Read has returned
  panicked     \* the process has died in the wait group

flags == <<closed, once>>
io    == <<batch, todo, ret, delivered>>
vars  == <<flags, wg, drv, pc, io, panicked>>

(* The state of the driver.                                                *)
adapter == drv.adapter
session == drv.session
ring    == drv.ring      \* what a ring call answers besides packets: ok, eof, bad
event   == drv.event     \* the read-wait event (auto-reset)
rx      == drv.rx        \* the receive ring
tx      == drv.tx        \* slots in use in the send ring
arrived == drv.arrived   \* packets put in the receive ring so far

Init ==
  /\ closed = FALSE /\ once = "free"
  /\ wg = [count |-> 0, waiters |-> 0, sema |-> 0]
  /\ drv = [adapter |-> "none", session |-> "none", ring |-> "ok",
            event |-> FALSE, rx |-> <<>>, tx |-> 0, arrived |-> 0]
  /\ pc = [p \in Procs |-> IF p = "creator" THEN "new" ELSE "idle"]
  /\ batch = <<>> /\ todo = 0 /\ delivered = <<>>
  /\ ret = [p \in IO |-> "nil"]
  /\ panicked = FALSE

At(p, label)   == ~panicked /\ pc[p] = label
Goto(p, label) == pc' = [pc EXCEPT ![p] = label]
Up == pc["creator"] = "up"

(* A step of p alone, and one of p and the driver.                         *)
Moves(p, label) ==
  Goto(p, label) /\ UNCHANGED <<flags, wg, drv, io, panicked>>
Calls(p, label, d) ==
  Goto(p, label) /\ drv' = d /\ UNCHANGED <<flags, wg, io, panicked>>

-----------------------------------------------------------------------------
(* CreateTUN.                                                              *)

CreateAdapter ==
  /\ At("creator", "new")
  /\ \/ Calls("creator", "start", [drv EXCEPT !.adapter = "open"])
     \/ Moves("creator", "failed")

StartSession ==
  /\ At("creator", "start")
  /\ \/ Calls("creator", "up", [drv EXCEPT !.session = "open"])
     \/ Calls("creator", "failed", [drv EXCEPT !.adapter = "removed"])

-----------------------------------------------------------------------------
(* sync.WaitGroup (external).  An Add that finds the counter at zero while *)
(* there are waiters, and a waiter that wakes up to a group in use again,  *)
(* panic.                                                                  *)

Add(p, label) ==
  /\ wg' = [wg EXCEPT !.count = @ + 1]
  /\ panicked' = (wg.count = 0 /\ wg.waiters > 0)
  /\ Goto(p, label)

(* Done: the one that brings the counter to zero goes on to release the    *)
(* waiters.                                                                *)
Done(p) ==
  /\ At(p, "done")
  /\ wg' = [wg EXCEPT !.count = @ - 1]
  /\ Goto(p, IF wg.count = 1 /\ wg.waiters > 0 THEN "release" ELSE "return")
  /\ UNCHANGED <<flags, drv, io, panicked>>

Release(p) ==
  /\ At(p, "release")
  /\ wg' = [wg EXCEPT !.waiters = 0, !.sema = @ + wg.waiters]
  /\ Goto(p, "return")
  /\ UNCHANGED <<flags, drv, io, panicked>>

(* Mutant: Close does not wait for the calls in flight.                    *)
WaitNot(k) == At(k, "wait") /\ Moves(k, "end")

Wait(k) ==
  /\ At(k, "wait")
  /\ \/ wg.count = 0 /\ Moves(k, "end")
     \/ /\ wg.count > 0
        /\ wg' = [wg EXCEPT !.waiters = @ + 1]
        /\ Goto(k, "asleep")
        /\ UNCHANGED <<flags, drv, io, panicked>>

Wake(k) ==
  /\ At(k, "asleep")
  /\ wg.sema > 0
  /\ wg' = [wg EXCEPT !.sema = @ - 1]
  /\ panicked' = (wg.count > 0 \/ wg.waiters > 0)
  /\ Goto(k, "end")
  /\ UNCHANGED <<flags, drv, io>>

-----------------------------------------------------------------------------
(* Read.                                                                   *)

ReadCall ==
  /\ At("reader", "idle")
  /\ Up
  /\ Add("reader", "retry")
  /\ batch' = <<>>
  /\ UNCHANGED <<flags, drv, todo, ret, delivered>>

(* Mutant: an error discards the packets already copied.                   *)
ReadReturnsErrorFirst(error) ==
  /\ ret' = [ret EXCEPT !["reader"] = error]
  /\ batch' = IF error = "nil" THEN batch ELSE <<>>
  /\ Goto("reader", "done")
  /\ UNCHANGED <<flags, wg, drv, todo, delivered, panicked>>

(* Leave Read: an error is reported only by a Read without packets.        *)
ReadReturns(error) ==
  /\ ret' = [ret EXCEPT !["reader"] = IF batch = <<>> THEN error ELSE "nil"]
  /\ Goto("reader", "done")
  /\ UNCHANGED <<flags, wg, drv, batch, todo, delivered, panicked>>

(* The test of closed at retry and at the top of the loop.                 *)
ReadCheck ==
  /\ At("reader", "retry") \/ At("reader", "loop")
  /\ IF closed THEN ReadReturns("closed") ELSE Moves("reader", "recv")

(* ReceivePacket finds a packet, ...                                       *)
ReadReceive ==
  At("reader", "recv") /\ ring = "ok" /\ rx # <<>> /\ Moves("reader", "copy")

(* ... which is copied before its slot is released.  A full batch returns. *)
ReadCopyOf(size) ==
  /\ At("reader", "copy")
  /\ batch' = Append(batch, Head(rx))
  /\ drv' = [drv EXCEPT !.rx = Tail(@)]
  /\ ret' = [ret EXCEPT !["reader"] = "nil"]
  /\ Goto("reader", IF Len(batch) + 1 = size THEN "done" ELSE "loop")
  /\ UNCHANGED <<flags, wg, todo, delivered, panicked>>

(* Mutant: one packet more than there are buffers.                         *)
ReadCopyOverrun == ReadCopyOf(BatchSize + 1)

ReadCopy == ReadCopyOf(BatchSize)

(* ERROR_NO_MORE_ITEMS: return what there is, poll again while spinning    *)
(* may last, or park on the event.                                         *)
ReadEmpty ==
  /\ At("reader", "recv")
  /\ ring = "ok"
  /\ rx = <<>>
  /\ IF batch # <<>> THEN ReadReturns("nil")
     ELSE Moves("reader", "loop") \/ Moves("reader", "park")

(* ERROR_HANDLE_EOF and the other errors of ReceivePacket.                 *)
ReadError ==
  /\ At("reader", "recv")
  /\ ring # "ok"
  /\ ReadReturns(IF ring = "eof" THEN "closed" ELSE "error")

(* Mutant: the ring is not looked at again after a wake-up.                *)
ReadWaitsAgain ==
  At("reader", "park") /\ event
    /\ Calls("reader", "park", [drv EXCEPT !.event = FALSE])

(* WaitForSingleObject returns and resets the event.                       *)
ReadWait ==
  At("reader", "park") /\ event
    /\ Calls("reader", "retry", [drv EXCEPT !.event = FALSE])

(* Back in the engine's loop, which exits after an error.                  *)
ReadReturn ==
  /\ At("reader", "return")
  /\ delivered' = delivered \o batch
  /\ batch' = <<>>
  /\ Goto("reader", IF ret["reader"] = "nil" THEN "idle" ELSE "exited")
  /\ UNCHANGED <<flags, wg, drv, todo, ret, panicked>>

Reader ==
  \/ ReadCall \/ ReadCheck \/ ReadReceive \/ ReadCopy \/ ReadEmpty \/ ReadError
  \/ ReadWait \/ ReadReturn \/ Done("reader") \/ Release("reader")

-----------------------------------------------------------------------------
(* Write.                                                                  *)

WriteCall(n) ==
  /\ At("writer", "idle")
  /\ Up
  /\ Add("writer", "check")
  /\ todo' = n
  /\ UNCHANGED <<flags, drv, batch, ret, delivered>>

WriteReturns(error) ==
  /\ ret' = [ret EXCEPT !["writer"] = error]
  /\ Goto("writer", "done")
  /\ UNCHANGED <<flags, wg, drv, batch, todo, delivered, panicked>>

WriteCheck ==
  /\ At("writer", "check")
  /\ IF closed THEN WriteReturns("closed") ELSE Moves("writer", "loop")

(* The writer is done with a buffer.                                       *)
WriteNext ==
  /\ todo' = todo - 1
  /\ Goto("writer", "loop")
  /\ UNCHANGED <<flags, wg, drv, batch, ret, delivered, panicked>>

(* A buffer whose size does not fit a packet, or that finds the send ring  *)
(* full, is passed over.                                                   *)
WriteSkip == At("writer", "loop") /\ todo > 0 /\ WriteNext

WriteAllocate ==
  /\ At("writer", "loop")
  /\ todo > 0
  /\ ring = "ok"
  /\ tx < RingCap
  /\ Calls("writer", "send", [drv EXCEPT !.tx = @ + 1])

WriteSend == At("writer", "send") /\ WriteNext

WriteError ==
  /\ At("writer", "loop")
  /\ todo > 0
  /\ ring # "ok"
  /\ WriteReturns(IF ring = "eof" THEN "closed" ELSE "error")

WriteDone == At("writer", "loop") /\ todo = 0 /\ WriteReturns("nil")

WriteReturn ==
  /\ At("writer", "return")
  /\ todo' = 0
  /\ Goto("writer", IF ret["writer"] = "nil" THEN "idle" ELSE "exited")
  /\ UNCHANGED <<flags, wg, drv, batch, ret, delivered, panicked>>

Writer ==
  \/ WriteCheck \/ WriteSkip \/ WriteAllocate \/ WriteSend \/ WriteError
  \/ WriteDone \/ WriteReturn \/ Done("writer") \/ Release("writer")

-----------------------------------------------------------------------------
(* Close.                                                                  *)

CloseCall(k) == At(k, "idle") /\ Up /\ Moves(k, "close")

(* closeOnce.Do runs its function in the first caller; the others wait for *)
(* it to finish.                                                           *)
CloseStore(k) ==
  /\ At(k, "close")
  /\ once = "free"
  /\ once' = "busy"
  /\ closed' = TRUE
  /\ Goto(k, "signal")
  /\ UNCHANGED <<wg, drv, io, panicked>>

(* Mutant: a flag instead of sync.Once, so a second Close returns at once. *)
CloseAgainEarly(k) == At(k, "close") /\ once # "free" /\ Moves(k, "closed")

CloseAgain(k) == At(k, "close") /\ once = "done" /\ Moves(k, "closed")

(* Mutant: the blocked Read is not woken up.                               *)
CloseSignalNot(k) == At(k, "signal") /\ Moves(k, "wait")

CloseSignal(k) ==
  At(k, "signal") /\ Calls(k, "wait", [drv EXCEPT !.event = TRUE])

CloseSession(k) ==
  At(k, "end") /\ Calls(k, "remove", [drv EXCEPT !.session = "ended"])

CloseAdapter(k) ==
  /\ At(k, "remove")
  /\ drv' = [drv EXCEPT !.adapter = "removed"]
  /\ once' = "done"
  /\ Goto(k, "closed")
  /\ UNCHANGED <<closed, wg, io, panicked>>

Closer(k) ==
  \/ CloseStore(k) \/ CloseAgain(k) \/ CloseSignal(k) \/ Wait(k) \/ Wake(k)
  \/ CloseSession(k) \/ CloseAdapter(k)

-----------------------------------------------------------------------------
(* The driver (external).  Putting a packet in an open session's ring sets *)
(* the event; so does the end of the adapter, after which ring calls       *)
(* answer an error.                                                        *)

Drives(d) ==
  session = "open" /\ ~panicked /\ drv' = d
    /\ UNCHANGED <<flags, wg, pc, io, panicked>>

Arrive ==
  /\ ring = "ok"
  /\ arrived < MaxArrivals
  /\ Len(rx) < RingCap
  /\ Drives([drv EXCEPT !.arrived = @ + 1, !.rx = Append(@, arrived + 1),
                        !.event = TRUE])

Transmit ==
  /\ tx > IF pc["writer"] = "send" THEN 1 ELSE 0
  /\ Drives([drv EXCEPT !.tx = @ - 1])

RingFails ==
  /\ ring = "ok"
  /\ \E e \in {"eof", "bad"} : Drives([drv EXCEPT !.ring = e, !.event = TRUE])

-----------------------------------------------------------------------------
Next ==
  \/ CreateAdapter
  \/ StartSession
  \/ Reader
  \/ \E n \in 1..BatchSize : WriteCall(n)
  \/ Writer
  \/ \E k \in Closers : CloseCall(k) \/ Closer(k)
  \/ Arrive
  \/ Transmit
  \/ RingFails

Spec == Init /\ [][Next]_vars

(* A goroutine that can run does, and the engine's loop calls Read again   *)
(* after every batch.  Nothing is assumed of the callers of Write and      *)
(* Close or of the driver.                                                 *)
Fairness ==
  /\ WF_vars(Reader)
  /\ WF_vars(Writer)
  /\ \A k \in Closers : WF_vars(Closer(k))

FairSpec == Spec /\ Fairness

-----------------------------------------------------------------------------
(* The variables have their types.                                         *)
TypeOK ==
  /\ closed \in BOOLEAN
  /\ once \in {"free", "busy", "done"}
  /\ wg \in [count : 0..2, waiters : 0..1, sema : 0..1]
  /\ adapter \in {"none", "open", "removed"}
  /\ session \in {"none", "open", "ended"}
  /\ ring \in {"ok", "eof", "bad"}
  /\ event \in BOOLEAN
  /\ rx \in Seq(1..MaxArrivals) /\ Len(rx) <= RingCap
  /\ tx \in 0..RingCap
  /\ arrived \in 0..MaxArrivals
  /\ pc["creator"] \in {"new", "start", "up", "failed"}
  /\ pc["reader"] \in {"idle", "retry", "loop", "recv", "copy", "park", "done",
                       "release", "return", "exited"}
  /\ pc["writer"] \in {"idle", "check", "loop", "send", "done", "release",
                       "return", "exited"}
  /\ \A k \in Closers :
       pc[k] \in {"idle", "close", "signal", "wait", "asleep", "end", "remove",
                 "closed"}
  /\ batch \in Seq(1..MaxArrivals) /\ Len(batch) <= BatchSize
  /\ todo \in 0..BatchSize
  /\ ret \in [IO -> {"nil", "closed", "error"}]
  /\ delivered \in Seq(1..MaxArrivals)
  /\ panicked \in BOOLEAN

(* Neither loop is at a call into the driver's session once End has been   *)
(* called ("After End the handle must not be used again").                 *)
NoUseAfterEnd ==
  session = "ended" =>
    /\ pc["reader"] \notin {"recv", "copy"}
    /\ pc["writer"] \notin {"loop", "send"}

(* Every packet taken out of the receive ring is handed to the engine, in  *)
(* order, once: an error or a Close in the middle of a batch loses none.   *)
(* A Read that returns without an error has at least one (it blocks "until *)
(* at least one packet is available"), so the engine never spins.          *)
NoPacketLost ==
  /\ delivered \o batch \o rx = [i \in 1..arrived |-> i]
  /\ pc["reader"] \in {"done", "release", "return"} /\ ret["reader"] = "nil"
       => batch # <<>>

(* When any Close has returned the session is ended and the adapter gone,  *)
(* in the caller that lost the race for closeOnce too.                     *)
ClosedMeansGone ==
  (\E k \in Closers : pc[k] = "closed")
    => session = "ended" /\ adapter = "removed"

(* "Close ends the session and removes the adapter. It waits for any       *)
(* in-flight Read/Write to return first": it does not bring the process    *)
(* down instead.                                                           *)
CloseDoesNotPanic == ~panicked

(* Close returns, even with a Read parked on an idle device, unless the    *)
(* wait group panics.                                                      *)
CloseReturns ==
  \A k \in Closers : pc[k] = "close" ~> pc[k] = "closed" \/ panicked

(* A packet in the ring reaches the engine unless the device fails or is   *)
(* closed: no wake-up of a parked Read is lost.                            *)
PacketsDelivered ==
  \A i \in 1..MaxArrivals :
    arrived >= i ~> Len(delivered) >= i \/ closed \/ ring # "ok"
=============================================================================
