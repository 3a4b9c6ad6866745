--------------------------- MODULE NativeTunProofs ---------------------------
(***************************************************************************)
(* Safety of NativeTun for any number of closing goroutines, any batch and *)
(* ring sizes and any traffic.                                             *)
(***************************************************************************)
EXTENDS NativeTun, SequenceTheorems, TLAPS

Labels ==
  {"new", "start", "up", "failed", "idle", "retry", "loop", "recv", "copy",
   "park", "done", "release", "return", "exited", "check", "send", "close",
   "signal", "wait", "asleep", "end", "remove", "closed"}
Packets == 1 .. MaxArrivals

(* The types again, with the shape of the records and of pc.               *)
ShapeInv ==
  /\ pc \in [Procs -> Labels]
  /\ wg \in [count : Nat, waiters : Nat, sema : Nat]
  /\ drv \in [adapter : {"none", "open", "removed"},
              session : {"none", "open", "ended"},
              ring : {"ok", "eof", "bad"}, event : BOOLEAN,
              rx : Seq(Packets), tx : 0 .. RingCap, arrived : 0 .. MaxArrivals]
  /\ Len(rx) <= RingCap

(* Between its wgAdd and its Done, where the session is used, and where a  *)
(* goroutine is in the function that closeOnce runs.                       *)
ReaderIn == {"retry", "loop", "recv", "copy", "park", "done"}
WriterIn == {"check", "loop", "send", "done"}
ClosePcs == {"signal", "wait", "asleep", "end", "remove"}

(* The device is used and closed once CreateTUN has returned it.           *)
CreateInv ==
  /\ ~Up => /\ once = "free" /\ session # "ended"
            /\ \A p \in IO \cup Closers : pc[p] = "idle"

(* The counter of the wait group counts the calls in flight.               *)
CountInv ==
  wg.count = (IF pc["reader"] \in ReaderIn THEN 1 ELSE 0)
             + (IF pc["writer"] \in WriterIn THEN 1 ELSE 0)

(* One goroutine runs the function of closeOnce, and its progress shows.   *)
OnceInv ==
  /\ closed <=> once # "free"
  /\ \A j, k \in Closers : pc[j] \in ClosePcs /\ pc[k] \in ClosePcs => j = k
  /\ \A k \in Closers : /\ pc[k] \in ClosePcs => once = "busy"
                        /\ pc[k] = "closed" => once = "done"
                        /\ pc[k] = "remove" => session = "ended"
  /\ once = "done" => session = "ended" /\ adapter = "removed"
  /\ session = "ended" =>
       once = "done" \/ \E k \in Closers : pc[k] = "remove"

(* A Close that sleeps is a waiter or has been granted its wake-up.        *)
SleepInv ==
  \/ wg.waiters = 0 /\ wg.sema = 0
  \/ /\ \E k \in Closers : pc[k] = "asleep"
     /\ \/ wg.waiters = 1 /\ wg.sema = 0
        \/ wg.waiters = 0 /\ wg.sema = 1

(* The last Done has left nobody in flight when it releases the waiter:    *)
(* whoever comes in meanwhile dies in Add.                                 *)
ReleaseInv ==
  ~panicked =>
    /\ \A p \in IO : pc[p] = "release" => wg.count = 0 /\ wg.waiters = 1
    /\ ~(pc["reader"] = "release" /\ pc["writer"] = "release")

(* Close has been let through the wait group, or is about to be: from then *)
(* on the session is used no more, since whoever comes in finds closed.    *)
Passed ==
  \/ wg.sema > 0
  \/ once = "done"
  \/ \E k \in Closers : pc[k] \in {"end", "remove"}
PassedInv ==
  Passed => /\ pc["reader"] \notin {"recv", "copy"}
            /\ pc["writer"] \notin {"loop", "send"}

(* What the Read and the Write under way have in hand.                     *)
BatchInv ==
  /\ batch \in Seq(Packets) /\ delivered \in Seq(Packets)
  /\ Len(batch) <= BatchSize
  /\ pc["reader"] \in ReaderIn \ {"done"} => Len(batch) < BatchSize
  /\ pc["reader"] = "copy" => rx # <<>>
  /\ pc["reader"] \in {"idle", "exited"} => batch = <<>>

(* The rest of the types.                                                  *)
PcInv ==
  /\ closed \in BOOLEAN /\ panicked \in BOOLEAN
  /\ once \in {"free", "busy", "done"}
  /\ pc["creator"] \in {"new", "start", "up", "failed"}
  /\ pc["reader"] \in ReaderIn \cup {"idle", "release", "return", "exited"}
  /\ pc["writer"] \in WriterIn \cup {"idle", "release", "return", "exited"}
  /\ \A k \in Closers : pc[k] \in ClosePcs \cup {"idle", "close", "closed"}
  /\ todo \in 0 .. BatchSize
  /\ pc["writer"] = "send" => todo > 0
  /\ ret \in [IO -> {"nil", "closed", "error"}]

Inv ==
  /\ ShapeInv /\ PcInv /\ CreateInv /\ CountInv /\ OnceInv /\ SleepInv
  /\ ReleaseInv /\ PassedInv /\ BatchInv /\ NoPacketLost

-----------------------------------------------------------------------------
(* Appending to the last of two sequences.                                 *)
LEMMA AppendLast ==
  ASSUME NEW S, NEW s \in Seq(S), NEW r \in Seq(S), NEW x \in S
  PROVE  s \o Append(r, x) = Append(s \o r, x)
<1>1. Append(r, x) = r \o <<x>> /\ <<x>> \in Seq(S)
  BY AppendIsConcat
<1>2. s \o r \in Seq(S)
  BY ConcatProperties
<1>3. (s \o r) \o <<x>> = s \o (r \o <<x>>)
  BY <1>1, ConcatAssociative
<1>4. (s \o r) \o <<x>> = Append(s \o r, x)
  BY <1>2, AppendIsConcat
<1> QED
  BY <1>1, <1>3, <1>4

(* Moving the first packet of the ring to the end of what was taken out    *)
(* keeps the packets in order.                                             *)
LEMMA MoveFirst ==
  ASSUME NEW S, NEW s \in Seq(S), NEW r \in Seq(S), r # <<>>
  PROVE  Append(s, Head(r)) \o Tail(r) = s \o r
<1>1. Head(r) \in S /\ Tail(r) \in Seq(S) /\ <<Head(r)>> \in Seq(S)
  OBVIOUS
<1>2. r = <<Head(r)>> \o Tail(r)
  OBVIOUS
<1>3. Append(s, Head(r)) = s \o <<Head(r)>>
  BY <1>1, AppendIsConcat
<1>4. (s \o <<Head(r)>>) \o Tail(r) = s \o (<<Head(r)>> \o Tail(r))
  BY <1>1, ConcatAssociative
<1> QED
  BY <1>2, <1>3, <1>4

(* A device not yet created satisfies Inv.                                 *)
LEMMA InitInv == Init => Inv
<1> SUFFICES ASSUME Init PROVE Inv
  OBVIOUS
<1> USE BoundsAssumption, ClosersAssumption DEF Init
<1>0. pc["creator"] = "new" /\ \A p \in IO \cup Closers : pc[p] = "idle"
  BY DEF Procs, IO
<1>1. ShapeInv
  BY DEF ShapeInv, Labels, Packets, rx
<1>2. PcInv
  <2>1. closed \in BOOLEAN /\ panicked \in BOOLEAN
    BY Zenon
  <2>2. pc["reader"] = "idle" /\ pc["writer"] = "idle"
    BY <1>0 DEF IO
  <2>3. ret \in [IO -> {"nil", "closed", "error"}]
    OBVIOUS
  <2> QED
    BY <1>0, <2>1, <2>2, <2>3 DEF PcInv
<1>3. CreateInv /\ SleepInv
  BY <1>0 DEF CreateInv, SleepInv, session
<1>6. CountInv
  BY <1>0 DEF CountInv, ReaderIn, WriterIn, IO
<1>7. OnceInv
  <2>1. closed <=> once # "free"
    BY Zenon
  <2> QED
    BY <1>0, <2>1 DEF OnceInv, ClosePcs, session, adapter
<1>4. ReleaseInv /\ PassedInv
  BY <1>0 DEF ReleaseInv, PassedInv, Passed, IO
<1>5. BatchInv /\ NoPacketLost
  BY <1>0 DEF BatchInv, NoPacketLost, IO, ReaderIn, rx, arrived, Packets
<1> QED
  BY <1>1, <1>2, <1>3, <1>4, <1>5, <1>6, <1>7 DEF Inv

(* Every step of Read, Write, Close, CreateTUN and the driver preserves    *)
(* Inv.                                                                    *)
LEMMA StepInv == Inv /\ [Next]_vars => Inv'
<1> SUFFICES ASSUME Inv, [Next]_vars PROVE Inv'
  OBVIOUS
<1> USE BoundsAssumption, ClosersAssumption DEF Inv, flags, io
<1>p. /\ "creator" \in Procs /\ "reader" \in Procs /\ "writer" \in Procs
      /\ Closers \subseteq Procs /\ IO \subseteq Procs
      /\ "creator" \notin Closers /\ "reader" \notin Closers
      /\ "writer" \notin Closers
      /\ IO = {"reader", "writer"}
  BY DEF Procs, IO
<1>d. DOMAIN pc = Procs
  BY DEF ShapeInv
<1>1. ASSUME CreateAdapter PROVE Inv'
  <2>1. ShapeInv'
    BY <1>1, <1>p, <1>d
    DEF CreateAdapter, At, Goto, Moves, Calls, ShapeInv, Labels, adapter,
        session, ring, event, rx, tx, arrived
  <2>2. PcInv'
    <3>1. closed' \in BOOLEAN /\ panicked' \in BOOLEAN
      BY <1>1, Zenon DEF CreateAdapter, At, Goto, Moves, Calls, PcInv
    <3> QED
      BY <1>1, <1>p, <1>d, <3>1
      DEF CreateAdapter, At, Goto, Moves, Calls, PcInv, ReaderIn, WriterIn,
          ClosePcs
  <2>3. CreateInv'
    BY <1>1, <1>p, <1>d
    DEF CreateAdapter, At, Goto, Moves, Calls, CreateInv, Up, session,
        ShapeInv
  <2>4. CountInv'
    BY <1>1, <1>p, <1>d
    DEF CreateAdapter, At, Goto, Moves, Calls, CountInv, ReaderIn, WriterIn,
        ShapeInv
  <2>5. OnceInv'
    BY <1>1, <1>p, <1>d
    DEF CreateAdapter, At, Goto, Moves, Calls, OnceInv, ClosePcs, session,
        adapter, CreateInv, Up, ShapeInv, PcInv
  <2>6. SleepInv'
    BY <1>1, <1>p, <1>d
    DEF CreateAdapter, At, Goto, Moves, Calls, SleepInv, ShapeInv, OnceInv,
        ClosePcs
  <2>7. ReleaseInv'
    BY <1>1, <1>p, <1>d
    DEF CreateAdapter, At, Goto, Moves, Calls, ReleaseInv, ShapeInv,
        CountInv, SleepInv, ReaderIn, WriterIn, PcInv
  <2>8. PassedInv'
    BY <1>1, <1>p, <1>d
    DEF CreateAdapter, At, Goto, Moves, Calls, PassedInv, Passed, OnceInv,
        ReleaseInv, SleepInv, CountInv, ShapeInv, ReaderIn, WriterIn,
        ClosePcs, PcInv
  <2>9. BatchInv'
    BY <1>1, <1>p, <1>d
    DEF CreateAdapter, At, Goto, Moves, Calls, BatchInv, ReaderIn, rx,
        ShapeInv, PcInv
  <2>10. NoPacketLost'
    BY <1>1, <1>p, <1>d, ZenonT(30)
    DEF CreateAdapter, At, Goto, Moves, Calls, NoPacketLost, BatchInv, rx,
        arrived, ShapeInv, ReaderIn, PcInv
  <2> QED
    BY <2>1, <2>2, <2>3, <2>4, <2>5, <2>6, <2>7, <2>8, <2>9, <2>10
<1>2. ASSUME StartSession PROVE Inv'
  <2>1. ShapeInv'
    BY <1>2, <1>p, <1>d, SMTT(30)
    DEF StartSession, At, Goto, Moves, Calls, ShapeInv, Labels, adapter,
        session, ring, event, rx, tx, arrived
  <2>2. PcInv'
    <3>1. closed' \in BOOLEAN /\ panicked' \in BOOLEAN
      BY <1>2, Zenon DEF StartSession, At, Goto, Moves, Calls, PcInv
    <3> QED
      BY <1>2, <1>p, <1>d, <3>1
      DEF StartSession, At, Goto, Moves, Calls, PcInv, ReaderIn, WriterIn,
          ClosePcs
  <2>3. CreateInv'
    BY <1>2, <1>p, <1>d
    DEF StartSession, At, Goto, Moves, Calls, CreateInv, Up, session, ShapeInv
  <2>4. CountInv'
    BY <1>2, <1>p, <1>d
    DEF StartSession, At, Goto, Moves, Calls, CountInv, ReaderIn, WriterIn,
        ShapeInv
  <2>5. OnceInv'
    BY <1>2, <1>p, <1>d
    DEF StartSession, At, Goto, Moves, Calls, OnceInv, ClosePcs, session,
        adapter, CreateInv, Up, ShapeInv, PcInv
  <2>6. SleepInv'
    BY <1>2, <1>p, <1>d
    DEF StartSession, At, Goto, Moves, Calls, SleepInv, ShapeInv, OnceInv,
        ClosePcs
  <2>7. ReleaseInv'
    BY <1>2, <1>p, <1>d
    DEF StartSession, At, Goto, Moves, Calls, ReleaseInv, ShapeInv, CountInv,
        SleepInv, ReaderIn, WriterIn, PcInv
  <2>8. PassedInv'
    BY <1>2, <1>p, <1>d
    DEF StartSession, At, Goto, Moves, Calls, PassedInv, Passed, OnceInv,
        ReleaseInv, SleepInv, CountInv, ShapeInv, ReaderIn, WriterIn,
        ClosePcs, PcInv
  <2>9. BatchInv'
    BY <1>2, <1>p, <1>d
    DEF StartSession, At, Goto, Moves, Calls, BatchInv, ReaderIn, rx,
        ShapeInv, PcInv
  <2>10. NoPacketLost'
    BY <1>2, <1>p, <1>d, ZenonT(30)
    DEF StartSession, At, Goto, Moves, Calls, NoPacketLost, BatchInv, rx,
        arrived, ShapeInv, ReaderIn, PcInv
  <2> QED
    BY <2>1, <2>2, <2>3, <2>4, <2>5, <2>6, <2>7, <2>8, <2>9, <2>10
<1>3. ASSUME NEW p \in IO, Done(p) PROVE Inv'
  <2>0. wg.count \in Nat \ {0} /\ wg.count - 1 \in Nat
    BY <1>3, <1>p DEF Done, At, CountInv, ReaderIn, WriterIn
  <2>1. ShapeInv'
    BY <1>3, <1>p, <1>d, <2>0
    DEF Done, At, Goto, ShapeInv, Labels, adapter, session, ring, event, rx,
        tx, arrived
  <2>2. PcInv'
    <3>1. closed' \in BOOLEAN /\ panicked' \in BOOLEAN
      BY <1>3, Zenon DEF Done, At, Goto, PcInv
    <3> QED
      BY <1>3, <1>p, <1>d, <3>1
      DEF Done, At, Goto, PcInv, ReaderIn, WriterIn, ClosePcs
  <2>3. CreateInv'
    BY <1>3, <1>p, <1>d DEF Done, At, Goto, CreateInv, Up, session, ShapeInv
  <2>4. CountInv'
    BY <1>3, <1>p, <1>d
    DEF Done, At, Goto, CountInv, ReaderIn, WriterIn, ShapeInv
  <2>5. OnceInv'
    BY <1>3, <1>p, <1>d
    DEF Done, At, Goto, OnceInv, ClosePcs, session, adapter, CreateInv, Up,
        ShapeInv, PcInv
  <2>6. SleepInv'
    BY <1>3, <1>p, <1>d
    DEF Done, At, Goto, SleepInv, ShapeInv, OnceInv, ClosePcs
  <2>7. ReleaseInv'
    BY <1>3, <1>p, <1>d
    DEF Done, At, Goto, ReleaseInv, ShapeInv, CountInv, SleepInv, ReaderIn,
        WriterIn, PcInv
  <2>8. PassedInv'
    BY <1>3, <1>p, <1>d
    DEF Done, At, Goto, PassedInv, Passed, OnceInv, ReleaseInv, SleepInv,
        CountInv, ShapeInv, ReaderIn, WriterIn, ClosePcs, PcInv
  <2>9. BatchInv'
    BY <1>3, <1>p, <1>d
    DEF Done, At, Goto, BatchInv, ReaderIn, rx, ShapeInv, PcInv
  <2>10. NoPacketLost'
    BY <1>3, <1>p, <1>d
    DEF Done, At, Goto, NoPacketLost, BatchInv, rx, arrived, ShapeInv,
        ReaderIn, PcInv
  <2> QED
    BY <2>1, <2>2, <2>3, <2>4, <2>5, <2>6, <2>7, <2>8, <2>9, <2>10
<1>4. ASSUME NEW p \in IO, Release(p) PROVE Inv'
  <2>0. wg.sema + wg.waiters \in Nat
    BY DEF ShapeInv
  <2>1. ShapeInv'
    BY <1>4, <1>p, <1>d, <2>0
    DEF Release, At, Goto, ShapeInv, Labels, adapter, session, ring, event,
        rx, tx, arrived
  <2>2. PcInv'
    <3>1. closed' \in BOOLEAN /\ panicked' \in BOOLEAN
      BY <1>4, Zenon DEF Release, At, Goto, PcInv
    <3> QED
      BY <1>4, <1>p, <1>d, <3>1
      DEF Release, At, Goto, PcInv, ReaderIn, WriterIn, ClosePcs
  <2>3. CreateInv'
    BY <1>4, <1>p, <1>d
    DEF Release, At, Goto, CreateInv, Up, session, ShapeInv
  <2>4. CountInv'
    BY <1>4, <1>p, <1>d
    DEF Release, At, Goto, CountInv, ReaderIn, WriterIn, ShapeInv
  <2>5. OnceInv'
    BY <1>4, <1>p, <1>d
    DEF Release, At, Goto, OnceInv, ClosePcs, session, adapter, CreateInv,
        Up, ShapeInv, PcInv
  <2>6. SleepInv'
    BY <1>4, <1>p, <1>d
    DEF Release, At, Goto, SleepInv, ShapeInv, OnceInv, ClosePcs
  <2>7. ReleaseInv'
    BY <1>4, <1>p, <1>d
    DEF Release, At, Goto, ReleaseInv, ShapeInv, CountInv, SleepInv,
        ReaderIn, WriterIn, PcInv
  <2>8. PassedInv'
    BY <1>4, <1>p, <1>d
    DEF Release, At, Goto, PassedInv, Passed, OnceInv, ReleaseInv, SleepInv,
        CountInv, ShapeInv, ReaderIn, WriterIn, ClosePcs, PcInv
  <2>9. BatchInv'
    BY <1>4, <1>p, <1>d
    DEF Release, At, Goto, BatchInv, ReaderIn, rx, ShapeInv, PcInv
  <2>10. NoPacketLost'
    BY <1>4, <1>p, <1>d
    DEF Release, At, Goto, NoPacketLost, BatchInv, rx, arrived, ShapeInv,
        ReaderIn, PcInv
  <2> QED
    BY <2>1, <2>2, <2>3, <2>4, <2>5, <2>6, <2>7, <2>8, <2>9, <2>10
<1>5. ASSUME NEW k \in Closers, Wait(k) PROVE Inv'
  <2>1. ShapeInv'
    BY <1>5, <1>p, <1>d, SMTT(30)
    DEF Wait, At, Goto, Moves, ShapeInv, Labels, adapter, session, ring,
        event, rx, tx, arrived
  <2>2. PcInv'
    <3>1. closed' \in BOOLEAN /\ panicked' \in BOOLEAN
      BY <1>5, Zenon DEF Wait, At, Goto, Moves, PcInv
    <3> QED
      BY <1>5, <1>p, <1>d, <3>1
      DEF Wait, At, Goto, Moves, PcInv, ReaderIn, WriterIn, ClosePcs
  <2>3. CreateInv'
    BY <1>5, <1>p, <1>d
    DEF Wait, At, Goto, Moves, CreateInv, Up, session, ShapeInv
  <2>4. CountInv'
    BY <1>5, <1>p, <1>d
    DEF Wait, At, Goto, Moves, CountInv, ReaderIn, WriterIn, ShapeInv
  <2>5. OnceInv'
    BY <1>5, <1>p, <1>d
    DEF Wait, At, Goto, Moves, OnceInv, ClosePcs, session, adapter,
        CreateInv, Up, ShapeInv, PcInv
  <2>6. SleepInv'
    BY <1>5, <1>p, <1>d
    DEF Wait, At, Goto, Moves, SleepInv, ShapeInv, OnceInv, ClosePcs
  <2>7. ReleaseInv'
    BY <1>5, <1>p, <1>d
    DEF Wait, At, Goto, Moves, ReleaseInv, ShapeInv, CountInv, SleepInv,
        ReaderIn, WriterIn, PcInv
  <2>8. PassedInv'
    BY <1>5, <1>p, <1>d, SMTT(30)
    DEF Wait, At, Goto, Moves, PassedInv, Passed, OnceInv, ReleaseInv,
        SleepInv, CountInv, ShapeInv, ReaderIn, WriterIn, ClosePcs, PcInv
  <2>9. BatchInv'
    BY <1>5, <1>p, <1>d
    DEF Wait, At, Goto, Moves, BatchInv, ReaderIn, rx, ShapeInv, PcInv
  <2>10. NoPacketLost'
    BY <1>5, <1>p, <1>d, ZenonT(30)
    DEF Wait, At, Goto, Moves, NoPacketLost, BatchInv, rx, arrived, ShapeInv,
        ReaderIn, PcInv
  <2> QED
    BY <2>1, <2>2, <2>3, <2>4, <2>5, <2>6, <2>7, <2>8, <2>9, <2>10
<1>6. ASSUME NEW k \in Closers, Wake(k) PROVE Inv'
  <2>1. ShapeInv'
    BY <1>6, <1>p, <1>d, SMTT(30)
    DEF Wake, At, Goto, ShapeInv, Labels, adapter, session, ring, event, rx,
        tx, arrived
  <2>2. PcInv'
    <3>1. closed' \in BOOLEAN /\ panicked' \in BOOLEAN
      BY <1>6, Zenon DEF Wake, At, Goto, PcInv
    <3> QED
      BY <1>6, <1>p, <1>d, <3>1
      DEF Wake, At, Goto, PcInv, ReaderIn, WriterIn, ClosePcs
  <2>3. CreateInv'
    BY <1>6, <1>p, <1>d DEF Wake, At, Goto, CreateInv, Up, session, ShapeInv
  <2>4. CountInv'
    BY <1>6, <1>p, <1>d
    DEF Wake, At, Goto, CountInv, ReaderIn, WriterIn, ShapeInv
  <2>5. OnceInv'
    BY <1>6, <1>p, <1>d
    DEF Wake, At, Goto, OnceInv, ClosePcs, session, adapter, CreateInv, Up,
        ShapeInv, PcInv
  <2>6. SleepInv'
    BY <1>6, <1>p, <1>d
    DEF Wake, At, Goto, SleepInv, ShapeInv, OnceInv, ClosePcs
  <2>7. ReleaseInv'
    BY <1>6, <1>p, <1>d
    DEF Wake, At, Goto, ReleaseInv, ShapeInv, CountInv, SleepInv, ReaderIn,
        WriterIn, PcInv
  <2>8. PassedInv'
    BY <1>6, <1>p, <1>d
    DEF Wake, At, Goto, PassedInv, Passed, OnceInv, ReleaseInv, SleepInv,
        CountInv, ShapeInv, ReaderIn, WriterIn, ClosePcs, PcInv
  <2>9. BatchInv'
    BY <1>6, <1>p, <1>d
    DEF Wake, At, Goto, BatchInv, ReaderIn, rx, ShapeInv, PcInv
  <2>10. NoPacketLost'
    BY <1>6, <1>p, <1>d
    DEF Wake, At, Goto, NoPacketLost, BatchInv, rx, arrived, ShapeInv,
        ReaderIn, PcInv
  <2> QED
    BY <2>1, <2>2, <2>3, <2>4, <2>5, <2>6, <2>7, <2>8, <2>9, <2>10
<1>7. ASSUME ReadCall PROVE Inv'
  <2>0. ~panicked' => ~(wg.count = 0 /\ wg.waiters > 0)
    BY <1>7, Zenon DEF ReadCall, Add
  <2>1. ShapeInv'
    BY <1>7, <1>p, <1>d
    DEF ReadCall, Add, At, Goto, Up, ShapeInv, Labels, adapter, session,
        ring, event, rx, tx, arrived
  <2>2. PcInv'
    <3>1. closed' \in BOOLEAN /\ panicked' \in BOOLEAN
      BY <1>7, Zenon DEF ReadCall, Add, At, Goto, Up, PcInv
    <3> QED
      BY <1>7, <1>p, <1>d, <3>1
      DEF ReadCall, Add, At, Goto, Up, PcInv, ReaderIn, WriterIn, ClosePcs
  <2>3. CreateInv'
    BY <1>7, <1>p, <1>d
    DEF ReadCall, Add, At, Goto, Up, CreateInv, Up, session, ShapeInv
  <2>4. CountInv'
    BY <1>7, <1>p, <1>d
    DEF ReadCall, Add, At, Goto, Up, CountInv, ReaderIn, WriterIn, ShapeInv
  <2>5. OnceInv'
    BY <1>7, <1>p, <1>d
    DEF ReadCall, Add, At, Goto, Up, OnceInv, ClosePcs, session, adapter,
        CreateInv, Up, ShapeInv, PcInv
  <2>6. SleepInv'
    BY <1>7, <1>p, <1>d
    DEF ReadCall, Add, At, Goto, Up, SleepInv, ShapeInv, OnceInv, ClosePcs
  <2>7. ReleaseInv'
    <3>1. ~panicked' => \A p \in IO : pc[p] # "release"
      BY <1>7, <2>0 DEF ReadCall, At, ReleaseInv
    <3> QED
      BY <1>7, <1>p, <1>d, <3>1 DEF ReadCall, Add, At, Goto, Up, ReleaseInv
  <2>8. PassedInv'
    BY <1>7, <1>p, <1>d
    DEF ReadCall, Add, At, Goto, Up, PassedInv, Passed, OnceInv, ReleaseInv,
        SleepInv, CountInv, ShapeInv, ReaderIn, WriterIn, ClosePcs, PcInv
  <2>9. BatchInv'
    BY <1>7, <1>p, <1>d
    DEF ReadCall, Add, At, Goto, Up, BatchInv, ReaderIn, rx, ShapeInv, PcInv
  <2>10. NoPacketLost'
    BY <1>7, <1>p, <1>d
    DEF ReadCall, Add, At, Goto, Up, NoPacketLost, BatchInv, rx, arrived,
        ShapeInv, ReaderIn, PcInv
  <2> QED
    BY <2>1, <2>2, <2>3, <2>4, <2>5, <2>6, <2>7, <2>8, <2>9, <2>10
<1>8. ASSUME ReadCheck PROVE Inv'
  <2>1. ShapeInv'
    BY <1>8, <1>p, <1>d
    DEF ReadCheck, ReadReturns, At, Goto, Moves, ShapeInv, Labels, adapter,
        session, ring, event, rx, tx, arrived
  <2>2. PcInv'
    <3>1. closed' \in BOOLEAN /\ panicked' \in BOOLEAN
      BY <1>8, Zenon DEF ReadCheck, ReadReturns, At, Goto, Moves, PcInv
    <3> QED
      BY <1>8, <1>p, <1>d, <3>1
      DEF ReadCheck, ReadReturns, At, Goto, Moves, PcInv, ReaderIn, WriterIn,
          ClosePcs
  <2>3. CreateInv'
    BY <1>8, <1>p, <1>d
    DEF ReadCheck, ReadReturns, At, Goto, Moves, CreateInv, Up, session,
        ShapeInv
  <2>4. CountInv'
    BY <1>8, <1>p, <1>d
    DEF ReadCheck, ReadReturns, At, Goto, Moves, CountInv, ReaderIn,
        WriterIn, ShapeInv
  <2>5. OnceInv'
    BY <1>8, <1>p, <1>d
    DEF ReadCheck, ReadReturns, At, Goto, Moves, OnceInv, ClosePcs, session,
        adapter, CreateInv, Up, ShapeInv, PcInv
  <2>6. SleepInv'
    BY <1>8, <1>p, <1>d
    DEF ReadCheck, ReadReturns, At, Goto, Moves, SleepInv, ShapeInv, OnceInv,
        ClosePcs
  <2>7. ReleaseInv'
    BY <1>8, <1>p, <1>d
    DEF ReadCheck, ReadReturns, At, Goto, Moves, ReleaseInv, ShapeInv,
        CountInv, SleepInv, ReaderIn, WriterIn, PcInv
  <2>8. PassedInv'
    BY <1>8, <1>p, <1>d
    DEF ReadCheck, ReadReturns, At, Goto, Moves, PassedInv, Passed, OnceInv,
        ReleaseInv, SleepInv, CountInv, ShapeInv, ReaderIn, WriterIn,
        ClosePcs, PcInv
  <2>9. BatchInv'
    BY <1>8, <1>p, <1>d
    DEF ReadCheck, ReadReturns, At, Goto, Moves, BatchInv, ReaderIn, rx,
        ShapeInv, PcInv
  <2>10. NoPacketLost'
    <3>1. (delivered \o batch \o rx = [i \in 1..arrived |-> i])'
      BY <1>8
      DEF ReadCheck, ReadReturns, At, Goto, Moves, NoPacketLost, rx, arrived
    <3>2. /\ pc'["reader"] \in {"done", "release", "return"}
          /\ ret'["reader"] = "nil"
          => batch' # <<>>
      BY <1>8, <1>p, <1>d DEF ReadCheck, ReadReturns, At, Goto, Moves, PcInv
    <3> QED
      BY <3>1, <3>2 DEF NoPacketLost
  <2> QED
    BY <2>1, <2>2, <2>3, <2>4, <2>5, <2>6, <2>7, <2>8, <2>9, <2>10
<1>9. ASSUME ReadReceive PROVE Inv'
  <2>1. ShapeInv'
    BY <1>9, <1>p, <1>d
    DEF ReadReceive, At, Goto, Moves, ShapeInv, Labels, adapter, session,
        ring, event, rx, tx, arrived
  <2>2. PcInv'
    <3>1. closed' \in BOOLEAN /\ panicked' \in BOOLEAN
      BY <1>9, Zenon DEF ReadReceive, At, Goto, Moves, PcInv
    <3> QED
      BY <1>9, <1>p, <1>d, <3>1
      DEF ReadReceive, At, Goto, Moves, PcInv, ReaderIn, WriterIn, ClosePcs
  <2>3. CreateInv'
    BY <1>9, <1>p, <1>d
    DEF ReadReceive, At, Goto, Moves, CreateInv, Up, session, ShapeInv
  <2>4. CountInv'
    BY <1>9, <1>p, <1>d
    DEF ReadReceive, At, Goto, Moves, CountInv, ReaderIn, WriterIn, ShapeInv
  <2>5. OnceInv'
    BY <1>9, <1>p, <1>d
    DEF ReadReceive, At, Goto, Moves, OnceInv, ClosePcs, session, adapter,
        CreateInv, Up, ShapeInv, PcInv
  <2>6. SleepInv'
    BY <1>9, <1>p, <1>d
    DEF ReadReceive, At, Goto, Moves, SleepInv, ShapeInv, OnceInv, ClosePcs
  <2>7. ReleaseInv'
    BY <1>9, <1>p, <1>d
    DEF ReadReceive, At, Goto, Moves, ReleaseInv, ShapeInv, CountInv,
        SleepInv, ReaderIn, WriterIn, PcInv
  <2>8. PassedInv'
    BY <1>9, <1>p, <1>d
    DEF ReadReceive, At, Goto, Moves, PassedInv, Passed, OnceInv, ReleaseInv,
        SleepInv, CountInv, ShapeInv, ReaderIn, WriterIn, ClosePcs, PcInv
  <2>9. BatchInv'
    BY <1>9, <1>p, <1>d
    DEF ReadReceive, At, Goto, Moves, BatchInv, ReaderIn, rx, ShapeInv, PcInv
  <2>10. NoPacketLost'
    BY <1>9, <1>p, <1>d
    DEF ReadReceive, At, Goto, Moves, NoPacketLost, BatchInv, rx, arrived,
        ShapeInv, ReaderIn, PcInv
  <2> QED
    BY <2>1, <2>2, <2>3, <2>4, <2>5, <2>6, <2>7, <2>8, <2>9, <2>10
<1>10. ASSUME ReadCopy PROVE Inv'
  <2>0. /\ rx # <<>> /\ rx \in Seq(Packets) /\ batch \in Seq(Packets)
        /\ delivered \in Seq(Packets) /\ Len(batch) < BatchSize
    BY <1>10 DEF ReadCopy, ReadCopyOf, At, BatchInv, ReaderIn, ShapeInv, rx
  <2>q. /\ delivered \o Append(batch, Head(rx)) \o Tail(rx)
             = delivered \o batch \o rx
        /\ Tail(rx) \in Seq(Packets) /\ Len(Tail(rx)) = Len(rx) - 1
        /\ Append(batch, Head(rx)) \in Seq(Packets)
        /\ Append(batch, Head(rx)) # <<>>
        /\ Len(Append(batch, Head(rx))) = Len(batch) + 1
    <3>1. /\ Head(rx) \in Packets /\ Tail(rx) \in Seq(Packets)
          /\ Len(Tail(rx)) = Len(rx) - 1
      BY <2>0, HeadTailProperties
    <3>2. delivered \o batch \in Seq(Packets)
      BY <2>0, ConcatProperties
    <3>4. delivered \o Append(batch, Head(rx))
            = Append(delivered \o batch, Head(rx))
      BY <2>0, <3>1, AppendLast
    <3>5. Append(delivered \o batch, Head(rx)) \o Tail(rx)
            = (delivered \o batch) \o rx
      BY <2>0, <3>2, MoveFirst
    <3>3. /\ Append(batch, Head(rx)) \in Seq(Packets)
          /\ Append(batch, Head(rx)) # <<>>
          /\ Len(Append(batch, Head(rx))) = Len(batch) + 1
      BY <2>0, <3>1, AppendProperties
    <3> QED
      BY <3>1, <3>3, <3>4, <3>5
  <2>r. drv' = [drv EXCEPT !.rx = Tail(rx)] /\ batch' = Append(batch, Head(rx))
    BY <1>10 DEF ReadCopy, ReadCopyOf, rx
  <2>1. ShapeInv'
    <3>1. Len(Tail(rx)) <= RingCap
      BY <2>0, <2>q DEF ShapeInv
    <3>2. drv'.rx = Tail(rx)
      BY <2>r DEF ShapeInv
    <3>3. pc' \in [Procs -> Labels]
      BY <1>10, <1>p DEF ReadCopy, ReadCopyOf, At, Goto, ShapeInv, Labels
    <3> QED
      BY <1>10, <2>q, <2>r, <3>1, <3>2, <3>3
      DEF ReadCopy, ReadCopyOf, ShapeInv, rx
  <2>2. PcInv'
    <3>1. closed' \in BOOLEAN /\ panicked' \in BOOLEAN
      BY <1>10, Zenon DEF ReadCopy, ReadCopyOf, At, Goto, PcInv
    <3> QED
      BY <1>10, <1>p, <1>d, <3>1
      DEF ReadCopy, ReadCopyOf, At, Goto, PcInv, ReaderIn, WriterIn, ClosePcs
  <2>3. CreateInv'
    BY <1>10, <1>p, <1>d
    DEF ReadCopy, ReadCopyOf, At, Goto, CreateInv, Up, session, ShapeInv
  <2>4. CountInv'
    BY <1>10, <1>p, <1>d
    DEF ReadCopy, ReadCopyOf, At, Goto, CountInv, ReaderIn, WriterIn, ShapeInv
  <2>5. OnceInv'
    BY <1>10, <1>p, <1>d
    DEF ReadCopy, ReadCopyOf, At, Goto, OnceInv, ClosePcs, session, adapter,
        CreateInv, Up, ShapeInv, PcInv
  <2>6. SleepInv'
    BY <1>10, <1>p, <1>d
    DEF ReadCopy, ReadCopyOf, At, Goto, SleepInv, ShapeInv, OnceInv, ClosePcs
  <2>7. ReleaseInv'
    BY <1>10, <1>p, <1>d
    DEF ReadCopy, ReadCopyOf, At, Goto, ReleaseInv, ShapeInv, CountInv,
        SleepInv, ReaderIn, WriterIn, PcInv
  <2>8. PassedInv'
    BY <1>10, <1>p, <1>d
    DEF ReadCopy, ReadCopyOf, At, Goto, PassedInv, Passed, OnceInv,
        ReleaseInv, SleepInv, CountInv, ShapeInv, ReaderIn, WriterIn,
        ClosePcs, PcInv
  <2>9. BatchInv'
    BY <1>10, <1>p, <1>d
    DEF ReadCopy, ReadCopyOf, At, Goto, BatchInv, ReaderIn, rx, ShapeInv,
        PcInv
  <2>10. NoPacketLost'
    <3>1. drv'.rx = Tail(rx) /\ drv'.arrived = drv.arrived
      BY <2>r DEF ShapeInv
    <3>2. (delivered \o batch \o rx = [i \in 1..arrived |-> i])'
      BY <1>10, <2>q, <2>r, <3>1
      DEF ReadCopy, ReadCopyOf, NoPacketLost, rx, arrived
    <3> QED
      BY <2>q, <2>r, <3>2 DEF NoPacketLost
  <2> QED
    BY <2>1, <2>2, <2>3, <2>4, <2>5, <2>6, <2>7, <2>8, <2>9, <2>10
<1>11. ASSUME ReadEmpty PROVE Inv'
  <2>1. ShapeInv'
    BY <1>11, <1>p, <1>d
    DEF ReadEmpty, ReadReturns, At, Goto, Moves, ShapeInv, Labels, adapter,
        session, ring, event, rx, tx, arrived
  <2>2. PcInv'
    <3>1. closed' \in BOOLEAN /\ panicked' \in BOOLEAN
      BY <1>11, Zenon DEF ReadEmpty, ReadReturns, At, Goto, Moves, PcInv
    <3> QED
      BY <1>11, <1>p, <1>d, <3>1
      DEF ReadEmpty, ReadReturns, At, Goto, Moves, PcInv, ReaderIn, WriterIn,
          ClosePcs
  <2>3. CreateInv'
    BY <1>11, <1>p, <1>d
    DEF ReadEmpty, ReadReturns, At, Goto, Moves, CreateInv, Up, session,
        ShapeInv
  <2>4. CountInv'
    BY <1>11, <1>p, <1>d
    DEF ReadEmpty, ReadReturns, At, Goto, Moves, CountInv, ReaderIn,
        WriterIn, ShapeInv
  <2>5. OnceInv'
    BY <1>11, <1>p, <1>d
    DEF ReadEmpty, ReadReturns, At, Goto, Moves, OnceInv, ClosePcs, session,
        adapter, CreateInv, Up, ShapeInv, PcInv
  <2>6. SleepInv'
    BY <1>11, <1>p, <1>d
    DEF ReadEmpty, ReadReturns, At, Goto, Moves, SleepInv, ShapeInv, OnceInv,
        ClosePcs
  <2>7. ReleaseInv'
    BY <1>11, <1>p, <1>d
    DEF ReadEmpty, ReadReturns, At, Goto, Moves, ReleaseInv, ShapeInv,
        CountInv, SleepInv, ReaderIn, WriterIn, PcInv
  <2>8. PassedInv'
    BY <1>11, <1>p, <1>d
    DEF ReadEmpty, ReadReturns, At, Goto, Moves, PassedInv, Passed, OnceInv,
        ReleaseInv, SleepInv, CountInv, ShapeInv, ReaderIn, WriterIn,
        ClosePcs, PcInv
  <2>9. BatchInv'
    BY <1>11, <1>p, <1>d
    DEF ReadEmpty, ReadReturns, At, Goto, Moves, BatchInv, ReaderIn, rx,
        ShapeInv, PcInv
  <2>10. NoPacketLost'
    <3>1. (delivered \o batch \o rx = [i \in 1..arrived |-> i])'
      BY <1>11
      DEF ReadEmpty, ReadReturns, At, Goto, Moves, NoPacketLost, rx, arrived
    <3>2. /\ pc'["reader"] \in {"done", "release", "return"}
          /\ ret'["reader"] = "nil"
          => batch' # <<>>
      BY <1>11, <1>p, <1>d DEF ReadEmpty, ReadReturns, At, Goto, Moves, PcInv
    <3> QED
      BY <3>1, <3>2 DEF NoPacketLost
  <2> QED
    BY <2>1, <2>2, <2>3, <2>4, <2>5, <2>6, <2>7, <2>8, <2>9, <2>10
<1>12. ASSUME ReadError PROVE Inv'
  <2>1. ShapeInv'
    BY <1>12, <1>p, <1>d
    DEF ReadError, ReadReturns, At, Goto, ShapeInv, Labels, adapter, session,
        ring, event, rx, tx, arrived
  <2>2. PcInv'
    <3>1. closed' \in BOOLEAN /\ panicked' \in BOOLEAN
      BY <1>12, Zenon DEF ReadError, ReadReturns, At, Goto, PcInv
    <3> QED
      BY <1>12, <1>p, <1>d, <3>1
      DEF ReadError, ReadReturns, At, Goto, PcInv, ReaderIn, WriterIn,
          ClosePcs
  <2>3. CreateInv'
    BY <1>12, <1>p, <1>d
    DEF ReadError, ReadReturns, At, Goto, CreateInv, Up, session, ShapeInv
  <2>4. CountInv'
    BY <1>12, <1>p, <1>d
    DEF ReadError, ReadReturns, At, Goto, CountInv, ReaderIn, WriterIn,
        ShapeInv
  <2>5. OnceInv'
    BY <1>12, <1>p, <1>d
    DEF ReadError, ReadReturns, At, Goto, OnceInv, ClosePcs, session,
        adapter, CreateInv, Up, ShapeInv, PcInv
  <2>6. SleepInv'
    BY <1>12, <1>p, <1>d
    DEF ReadError, ReadReturns, At, Goto, SleepInv, ShapeInv, OnceInv,
        ClosePcs
  <2>7. ReleaseInv'
    BY <1>12, <1>p, <1>d
    DEF ReadError, ReadReturns, At, Goto, ReleaseInv, ShapeInv, CountInv,
        SleepInv, ReaderIn, WriterIn, PcInv
  <2>8. PassedInv'
    BY <1>12, <1>p, <1>d
    DEF ReadError, ReadReturns, At, Goto, PassedInv, Passed, OnceInv,
        ReleaseInv, SleepInv, CountInv, ShapeInv, ReaderIn, WriterIn,
        ClosePcs, PcInv
  <2>9. BatchInv'
    BY <1>12, <1>p, <1>d
    DEF ReadError, ReadReturns, At, Goto, BatchInv, ReaderIn, rx, ShapeInv,
        PcInv
  <2>10. NoPacketLost'
    <3>1. (delivered \o batch \o rx = [i \in 1..arrived |-> i])'
      BY <1>12 DEF ReadError, ReadReturns, At, Goto, NoPacketLost, rx, arrived
    <3>2. /\ pc'["reader"] \in {"done", "release", "return"}
          /\ ret'["reader"] = "nil"
          => batch' # <<>>
      BY <1>12, <1>p, <1>d DEF ReadError, ReadReturns, At, Goto, PcInv
    <3> QED
      BY <3>1, <3>2 DEF NoPacketLost
  <2> QED
    BY <2>1, <2>2, <2>3, <2>4, <2>5, <2>6, <2>7, <2>8, <2>9, <2>10
<1>13. ASSUME ReadWait PROVE Inv'
  <2>1. ShapeInv'
    BY <1>13, <1>p, <1>d
    DEF ReadWait, At, Goto, Calls, ShapeInv, Labels, adapter, session, ring,
        event, rx, tx, arrived
  <2>2. PcInv'
    <3>1. closed' \in BOOLEAN /\ panicked' \in BOOLEAN
      BY <1>13, Zenon DEF ReadWait, At, Goto, Calls, PcInv
    <3> QED
      BY <1>13, <1>p, <1>d, <3>1
      DEF ReadWait, At, Goto, Calls, PcInv, ReaderIn, WriterIn, ClosePcs
  <2>3. CreateInv'
    BY <1>13, <1>p, <1>d
    DEF ReadWait, At, Goto, Calls, CreateInv, Up, session, ShapeInv
  <2>4. CountInv'
    BY <1>13, <1>p, <1>d
    DEF ReadWait, At, Goto, Calls, CountInv, ReaderIn, WriterIn, ShapeInv
  <2>5. OnceInv'
    BY <1>13, <1>p, <1>d
    DEF ReadWait, At, Goto, Calls, OnceInv, ClosePcs, session, adapter,
        CreateInv, Up, ShapeInv, PcInv
  <2>6. SleepInv'
    BY <1>13, <1>p, <1>d
    DEF ReadWait, At, Goto, Calls, SleepInv, ShapeInv, OnceInv, ClosePcs
  <2>7. ReleaseInv'
    BY <1>13, <1>p, <1>d
    DEF ReadWait, At, Goto, Calls, ReleaseInv, ShapeInv, CountInv, SleepInv,
        ReaderIn, WriterIn, PcInv
  <2>8. PassedInv'
    BY <1>13, <1>p, <1>d
    DEF ReadWait, At, Goto, Calls, PassedInv, Passed, OnceInv, ReleaseInv,
        SleepInv, CountInv, ShapeInv, ReaderIn, WriterIn, ClosePcs, PcInv
  <2>9. BatchInv'
    BY <1>13, <1>p, <1>d
    DEF ReadWait, At, Goto, Calls, BatchInv, ReaderIn, rx, ShapeInv, PcInv
  <2>10. NoPacketLost'
    BY <1>13, <1>p, <1>d
    DEF ReadWait, At, Goto, Calls, NoPacketLost, BatchInv, rx, arrived,
        ShapeInv, ReaderIn, PcInv
  <2> QED
    BY <2>1, <2>2, <2>3, <2>4, <2>5, <2>6, <2>7, <2>8, <2>9, <2>10
<1>14. ASSUME ReadReturn PROVE Inv'
  <2>1. ShapeInv'
    BY <1>14, <1>p, <1>d
    DEF ReadReturn, At, Goto, ShapeInv, Labels, adapter, session, ring,
        event, rx, tx, arrived
  <2>2. PcInv'
    <3>1. closed' \in BOOLEAN /\ panicked' \in BOOLEAN
      BY <1>14, Zenon DEF ReadReturn, At, Goto, PcInv
    <3> QED
      BY <1>14, <1>p, <1>d, <3>1
      DEF ReadReturn, At, Goto, PcInv, ReaderIn, WriterIn, ClosePcs
  <2>3. CreateInv'
    BY <1>14, <1>p, <1>d
    DEF ReadReturn, At, Goto, CreateInv, Up, session, ShapeInv
  <2>4. CountInv'
    BY <1>14, <1>p, <1>d
    DEF ReadReturn, At, Goto, CountInv, ReaderIn, WriterIn, ShapeInv
  <2>5. OnceInv'
    BY <1>14, <1>p, <1>d
    DEF ReadReturn, At, Goto, OnceInv, ClosePcs, session, adapter, CreateInv,
        Up, ShapeInv, PcInv
  <2>6. SleepInv'
    BY <1>14, <1>p, <1>d
    DEF ReadReturn, At, Goto, SleepInv, ShapeInv, OnceInv, ClosePcs
  <2>7. ReleaseInv'
    BY <1>14, <1>p, <1>d
    DEF ReadReturn, At, Goto, ReleaseInv, ShapeInv, CountInv, SleepInv,
        ReaderIn, WriterIn, PcInv
  <2>8. PassedInv'
    BY <1>14, <1>p, <1>d
    DEF ReadReturn, At, Goto, PassedInv, Passed, OnceInv, ReleaseInv,
        SleepInv, CountInv, ShapeInv, ReaderIn, WriterIn, ClosePcs, PcInv
  <2>9. BatchInv'
    BY <1>14, <1>p, <1>d
    DEF ReadReturn, At, Goto, BatchInv, ReaderIn, rx, ShapeInv, PcInv
  <2>10. NoPacketLost'
    <3>1. /\ batch \in Seq(Packets) /\ delivered \in Seq(Packets)
          /\ delivered \o batch \in Seq(Packets)
      BY ConcatProperties DEF BatchInv
    <3>2. (delivered \o batch) \o <<>> = delivered \o batch
      BY <3>1, ConcatEmptySeq
    <3>3. (delivered \o batch \o rx = [i \in 1..arrived |-> i])'
      BY <1>14, <3>2 DEF ReadReturn, NoPacketLost, rx, arrived
    <3>4. pc'["reader"] \in {"idle", "exited"}
      BY <1>14, <1>p, <1>d DEF ReadReturn, Goto
    <3> QED
      BY <3>3, <3>4 DEF NoPacketLost
  <2> QED
    BY <2>1, <2>2, <2>3, <2>4, <2>5, <2>6, <2>7, <2>8, <2>9, <2>10
<1>15. ASSUME NEW n \in 1..BatchSize, WriteCall(n) PROVE Inv'
  <2>0. ~panicked' => ~(wg.count = 0 /\ wg.waiters > 0)
    BY <1>15, Zenon DEF WriteCall, Add
  <2>1. ShapeInv'
    BY <1>15, <1>p, <1>d
    DEF WriteCall, Add, At, Goto, Up, ShapeInv, Labels, adapter, session,
        ring, event, rx, tx, arrived
  <2>2. PcInv'
    <3>1. closed' \in BOOLEAN /\ panicked' \in BOOLEAN
      BY <1>15, Zenon DEF WriteCall, Add, At, Goto, Up, PcInv
    <3> QED
      BY <1>15, <1>p, <1>d, <3>1
      DEF WriteCall, Add, At, Goto, Up, PcInv, ReaderIn, WriterIn, ClosePcs
  <2>3. CreateInv'
    BY <1>15, <1>p, <1>d
    DEF WriteCall, Add, At, Goto, Up, CreateInv, Up, session, ShapeInv
  <2>4. CountInv'
    BY <1>15, <1>p, <1>d
    DEF WriteCall, Add, At, Goto, Up, CountInv, ReaderIn, WriterIn, ShapeInv
  <2>5. OnceInv'
    BY <1>15, <1>p, <1>d
    DEF WriteCall, Add, At, Goto, Up, OnceInv, ClosePcs, session, adapter,
        CreateInv, Up, ShapeInv, PcInv
  <2>6. SleepInv'
    BY <1>15, <1>p, <1>d
    DEF WriteCall, Add, At, Goto, Up, SleepInv, ShapeInv, OnceInv, ClosePcs
  <2>7. ReleaseInv'
    <3>1. ~panicked' => \A p \in IO : pc[p] # "release"
      BY <1>15, <2>0 DEF WriteCall, At, ReleaseInv
    <3> QED
      BY <1>15, <1>p, <1>d, <3>1 DEF WriteCall, Add, At, Goto, Up, ReleaseInv
  <2>8. PassedInv'
    BY <1>15, <1>p, <1>d
    DEF WriteCall, Add, At, Goto, Up, PassedInv, Passed, OnceInv, ReleaseInv,
        SleepInv, CountInv, ShapeInv, ReaderIn, WriterIn, ClosePcs, PcInv
  <2>9. BatchInv'
    BY <1>15, <1>p, <1>d
    DEF WriteCall, Add, At, Goto, Up, BatchInv, ReaderIn, rx, ShapeInv, PcInv
  <2>10. NoPacketLost'
    BY <1>15, <1>p, <1>d
    DEF WriteCall, Add, At, Goto, Up, NoPacketLost, BatchInv, rx, arrived,
        ShapeInv, ReaderIn, PcInv
  <2> QED
    BY <2>1, <2>2, <2>3, <2>4, <2>5, <2>6, <2>7, <2>8, <2>9, <2>10
<1>16. ASSUME WriteCheck PROVE Inv'
  <2>1. ShapeInv'
    BY <1>16, <1>p, <1>d
    DEF WriteCheck, WriteReturns, At, Goto, Moves, ShapeInv, Labels, adapter,
        session, ring, event, rx, tx, arrived
  <2>2. PcInv'
    <3>1. closed' \in BOOLEAN /\ panicked' \in BOOLEAN
      BY <1>16, Zenon DEF WriteCheck, WriteReturns, At, Goto, Moves, PcInv
    <3> QED
      BY <1>16, <1>p, <1>d, <3>1
      DEF WriteCheck, WriteReturns, At, Goto, Moves, PcInv, ReaderIn,
          WriterIn, ClosePcs
  <2>3. CreateInv'
    BY <1>16, <1>p, <1>d
    DEF WriteCheck, WriteReturns, At, Goto, Moves, CreateInv, Up, session,
        ShapeInv
  <2>4. CountInv'
    BY <1>16, <1>p, <1>d
    DEF WriteCheck, WriteReturns, At, Goto, Moves, CountInv, ReaderIn,
        WriterIn, ShapeInv
  <2>5. OnceInv'
    BY <1>16, <1>p, <1>d
    DEF WriteCheck, WriteReturns, At, Goto, Moves, OnceInv, ClosePcs,
        session, adapter, CreateInv, Up, ShapeInv, PcInv
  <2>6. SleepInv'
    BY <1>16, <1>p, <1>d
    DEF WriteCheck, WriteReturns, At, Goto, Moves, SleepInv, ShapeInv,
        OnceInv, ClosePcs
  <2>7. ReleaseInv'
    BY <1>16, <1>p, <1>d
    DEF WriteCheck, WriteReturns, At, Goto, Moves, ReleaseInv, ShapeInv,
        CountInv, SleepInv, ReaderIn, WriterIn, PcInv
  <2>8. PassedInv'
    BY <1>16, <1>p, <1>d
    DEF WriteCheck, WriteReturns, At, Goto, Moves, PassedInv, Passed,
        OnceInv, ReleaseInv, SleepInv, CountInv, ShapeInv, ReaderIn,
        WriterIn, ClosePcs, PcInv
  <2>9. BatchInv'
    BY <1>16, <1>p, <1>d
    DEF WriteCheck, WriteReturns, At, Goto, Moves, BatchInv, ReaderIn, rx,
        ShapeInv, PcInv
  <2>10. NoPacketLost'
    BY <1>16, <1>p, <1>d, ZenonT(30)
    DEF WriteCheck, WriteReturns, At, Goto, Moves, NoPacketLost, BatchInv,
        rx, arrived, ShapeInv, ReaderIn, PcInv
  <2> QED
    BY <2>1, <2>2, <2>3, <2>4, <2>5, <2>6, <2>7, <2>8, <2>9, <2>10
<1>17. ASSUME WriteSkip PROVE Inv'
  <2>1. ShapeInv'
    BY <1>17, <1>p, <1>d
    DEF WriteSkip, WriteNext, At, Goto, ShapeInv, Labels, adapter, session,
        ring, event, rx, tx, arrived
  <2>2. PcInv'
    <3>1. closed' \in BOOLEAN /\ panicked' \in BOOLEAN
      BY <1>17, Zenon DEF WriteSkip, WriteNext, At, Goto, PcInv
    <3> QED
      BY <1>17, <1>p, <1>d, <3>1
      DEF WriteSkip, WriteNext, At, Goto, PcInv, ReaderIn, WriterIn, ClosePcs
  <2>3. CreateInv'
    BY <1>17, <1>p, <1>d
    DEF WriteSkip, WriteNext, At, Goto, CreateInv, Up, session, ShapeInv
  <2>4. CountInv'
    BY <1>17, <1>p, <1>d
    DEF WriteSkip, WriteNext, At, Goto, CountInv, ReaderIn, WriterIn, ShapeInv
  <2>5. OnceInv'
    BY <1>17, <1>p, <1>d
    DEF WriteSkip, WriteNext, At, Goto, OnceInv, ClosePcs, session, adapter,
        CreateInv, Up, ShapeInv, PcInv
  <2>6. SleepInv'
    BY <1>17, <1>p, <1>d
    DEF WriteSkip, WriteNext, At, Goto, SleepInv, ShapeInv, OnceInv, ClosePcs
  <2>7. ReleaseInv'
    BY <1>17, <1>p, <1>d
    DEF WriteSkip, WriteNext, At, Goto, ReleaseInv, ShapeInv, CountInv,
        SleepInv, ReaderIn, WriterIn, PcInv
  <2>8. PassedInv'
    BY <1>17, <1>p, <1>d
    DEF WriteSkip, WriteNext, At, Goto, PassedInv, Passed, OnceInv,
        ReleaseInv, SleepInv, CountInv, ShapeInv, ReaderIn, WriterIn,
        ClosePcs, PcInv
  <2>9. BatchInv'
    BY <1>17, <1>p, <1>d
    DEF WriteSkip, WriteNext, At, Goto, BatchInv, ReaderIn, rx, ShapeInv,
        PcInv
  <2>10. NoPacketLost'
    BY <1>17, <1>p, <1>d
    DEF WriteSkip, WriteNext, At, Goto, NoPacketLost, BatchInv, rx, arrived,
        ShapeInv, ReaderIn, PcInv
  <2> QED
    BY <2>1, <2>2, <2>3, <2>4, <2>5, <2>6, <2>7, <2>8, <2>9, <2>10
<1>18. ASSUME WriteAllocate PROVE Inv'
  <2>1. ShapeInv'
    BY <1>18, <1>p, <1>d, SMTT(30)
    DEF WriteAllocate, At, Goto, Calls, ShapeInv, Labels, adapter, session,
        ring, event, rx, tx, arrived
  <2>2. PcInv'
    <3>1. closed' \in BOOLEAN /\ panicked' \in BOOLEAN
      BY <1>18, Zenon DEF WriteAllocate, At, Goto, Calls, PcInv
    <3> QED
      BY <1>18, <1>p, <1>d, <3>1
      DEF WriteAllocate, At, Goto, Calls, PcInv, ReaderIn, WriterIn, ClosePcs
  <2>3. CreateInv'
    BY <1>18, <1>p, <1>d
    DEF WriteAllocate, At, Goto, Calls, CreateInv, Up, session, ShapeInv
  <2>4. CountInv'
    BY <1>18, <1>p, <1>d
    DEF WriteAllocate, At, Goto, Calls, CountInv, ReaderIn, WriterIn, ShapeInv
  <2>5. OnceInv'
    BY <1>18, <1>p, <1>d
    DEF WriteAllocate, At, Goto, Calls, OnceInv, ClosePcs, session, adapter,
        CreateInv, Up, ShapeInv, PcInv
  <2>6. SleepInv'
    BY <1>18, <1>p, <1>d
    DEF WriteAllocate, At, Goto, Calls, SleepInv, ShapeInv, OnceInv, ClosePcs
  <2>7. ReleaseInv'
    BY <1>18, <1>p, <1>d
    DEF WriteAllocate, At, Goto, Calls, ReleaseInv, ShapeInv, CountInv,
        SleepInv, ReaderIn, WriterIn, PcInv
  <2>8. PassedInv'
    BY <1>18, <1>p, <1>d
    DEF WriteAllocate, At, Goto, Calls, PassedInv, Passed, OnceInv,
        ReleaseInv, SleepInv, CountInv, ShapeInv, ReaderIn, WriterIn,
        ClosePcs, PcInv
  <2>9. BatchInv'
    BY <1>18, <1>p, <1>d
    DEF WriteAllocate, At, Goto, Calls, BatchInv, ReaderIn, rx, ShapeInv,
        PcInv
  <2>10. NoPacketLost'
    BY <1>18, <1>p, <1>d
    DEF WriteAllocate, At, Goto, Calls, NoPacketLost, BatchInv, rx, arrived,
        ShapeInv, ReaderIn, PcInv
  <2> QED
    BY <2>1, <2>2, <2>3, <2>4, <2>5, <2>6, <2>7, <2>8, <2>9, <2>10
<1>19. ASSUME WriteSend PROVE Inv'
  <2>1. ShapeInv'
    BY <1>19, <1>p, <1>d
    DEF WriteSend, WriteNext, At, Goto, ShapeInv, Labels, adapter, session,
        ring, event, rx, tx, arrived
  <2>2. PcInv'
    <3>1. closed' \in BOOLEAN /\ panicked' \in BOOLEAN
      BY <1>19, Zenon DEF WriteSend, WriteNext, At, Goto, PcInv
    <3> QED
      BY <1>19, <1>p, <1>d, <3>1
      DEF WriteSend, WriteNext, At, Goto, PcInv, ReaderIn, WriterIn, ClosePcs
  <2>3. CreateInv'
    BY <1>19, <1>p, <1>d
    DEF WriteSend, WriteNext, At, Goto, CreateInv, Up, session, ShapeInv
  <2>4. CountInv'
    BY <1>19, <1>p, <1>d
    DEF WriteSend, WriteNext, At, Goto, CountInv, ReaderIn, WriterIn, ShapeInv
  <2>5. OnceInv'
    BY <1>19, <1>p, <1>d
    DEF WriteSend, WriteNext, At, Goto, OnceInv, ClosePcs, session, adapter,
        CreateInv, Up, ShapeInv, PcInv
  <2>6. SleepInv'
    BY <1>19, <1>p, <1>d
    DEF WriteSend, WriteNext, At, Goto, SleepInv, ShapeInv, OnceInv, ClosePcs
  <2>7. ReleaseInv'
    BY <1>19, <1>p, <1>d
    DEF WriteSend, WriteNext, At, Goto, ReleaseInv, ShapeInv, CountInv,
        SleepInv, ReaderIn, WriterIn, PcInv
  <2>8. PassedInv'
    BY <1>19, <1>p, <1>d
    DEF WriteSend, WriteNext, At, Goto, PassedInv, Passed, OnceInv,
        ReleaseInv, SleepInv, CountInv, ShapeInv, ReaderIn, WriterIn,
        ClosePcs, PcInv
  <2>9. BatchInv'
    BY <1>19, <1>p, <1>d
    DEF WriteSend, WriteNext, At, Goto, BatchInv, ReaderIn, rx, ShapeInv,
        PcInv
  <2>10. NoPacketLost'
    BY <1>19, <1>p, <1>d
    DEF WriteSend, WriteNext, At, Goto, NoPacketLost, BatchInv, rx, arrived,
        ShapeInv, ReaderIn, PcInv
  <2> QED
    BY <2>1, <2>2, <2>3, <2>4, <2>5, <2>6, <2>7, <2>8, <2>9, <2>10
<1>20. ASSUME WriteError PROVE Inv'
  <2>1. ShapeInv'
    BY <1>20, <1>p, <1>d
    DEF WriteError, WriteReturns, At, Goto, ShapeInv, Labels, adapter,
        session, ring, event, rx, tx, arrived
  <2>2. PcInv'
    <3>1. closed' \in BOOLEAN /\ panicked' \in BOOLEAN
      BY <1>20, Zenon DEF WriteError, WriteReturns, At, Goto, PcInv
    <3> QED
      BY <1>20, <1>p, <1>d, <3>1
      DEF WriteError, WriteReturns, At, Goto, PcInv, ReaderIn, WriterIn,
          ClosePcs
  <2>3. CreateInv'
    BY <1>20, <1>p, <1>d
    DEF WriteError, WriteReturns, At, Goto, CreateInv, Up, session, ShapeInv
  <2>4. CountInv'
    BY <1>20, <1>p, <1>d
    DEF WriteError, WriteReturns, At, Goto, CountInv, ReaderIn, WriterIn,
        ShapeInv
  <2>5. OnceInv'
    BY <1>20, <1>p, <1>d
    DEF WriteError, WriteReturns, At, Goto, OnceInv, ClosePcs, session,
        adapter, CreateInv, Up, ShapeInv, PcInv
  <2>6. SleepInv'
    BY <1>20, <1>p, <1>d
    DEF WriteError, WriteReturns, At, Goto, SleepInv, ShapeInv, OnceInv,
        ClosePcs
  <2>7. ReleaseInv'
    BY <1>20, <1>p, <1>d
    DEF WriteError, WriteReturns, At, Goto, ReleaseInv, ShapeInv, CountInv,
        SleepInv, ReaderIn, WriterIn, PcInv
  <2>8. PassedInv'
    BY <1>20, <1>p, <1>d
    DEF WriteError, WriteReturns, At, Goto, PassedInv, Passed, OnceInv,
        ReleaseInv, SleepInv, CountInv, ShapeInv, ReaderIn, WriterIn,
        ClosePcs, PcInv
  <2>9. BatchInv'
    BY <1>20, <1>p, <1>d
    DEF WriteError, WriteReturns, At, Goto, BatchInv, ReaderIn, rx, ShapeInv,
        PcInv
  <2>10. NoPacketLost'
    BY <1>20, <1>p, <1>d
    DEF WriteError, WriteReturns, At, Goto, NoPacketLost, BatchInv, rx,
        arrived, ShapeInv, ReaderIn, PcInv
  <2> QED
    BY <2>1, <2>2, <2>3, <2>4, <2>5, <2>6, <2>7, <2>8, <2>9, <2>10
<1>21. ASSUME WriteDone PROVE Inv'
  <2>1. ShapeInv'
    BY <1>21, <1>p, <1>d
    DEF WriteDone, WriteReturns, At, Goto, ShapeInv, Labels, adapter,
        session, ring, event, rx, tx, arrived
  <2>2. PcInv'
    <3>1. closed' \in BOOLEAN /\ panicked' \in BOOLEAN
      BY <1>21, Zenon DEF WriteDone, WriteReturns, At, Goto, PcInv
    <3> QED
      BY <1>21, <1>p, <1>d, <3>1
      DEF WriteDone, WriteReturns, At, Goto, PcInv, ReaderIn, WriterIn,
          ClosePcs
  <2>3. CreateInv'
    BY <1>21, <1>p, <1>d
    DEF WriteDone, WriteReturns, At, Goto, CreateInv, Up, session, ShapeInv
  <2>4. CountInv'
    BY <1>21, <1>p, <1>d
    DEF WriteDone, WriteReturns, At, Goto, CountInv, ReaderIn, WriterIn,
        ShapeInv
  <2>5. OnceInv'
    BY <1>21, <1>p, <1>d
    DEF WriteDone, WriteReturns, At, Goto, OnceInv, ClosePcs, session,
        adapter, CreateInv, Up, ShapeInv, PcInv
  <2>6. SleepInv'
    BY <1>21, <1>p, <1>d
    DEF WriteDone, WriteReturns, At, Goto, SleepInv, ShapeInv, OnceInv,
        ClosePcs
  <2>7. ReleaseInv'
    BY <1>21, <1>p, <1>d
    DEF WriteDone, WriteReturns, At, Goto, ReleaseInv, ShapeInv, CountInv,
        SleepInv, ReaderIn, WriterIn, PcInv
  <2>8. PassedInv'
    BY <1>21, <1>p, <1>d
    DEF WriteDone, WriteReturns, At, Goto, PassedInv, Passed, OnceInv,
        ReleaseInv, SleepInv, CountInv, ShapeInv, ReaderIn, WriterIn,
        ClosePcs, PcInv
  <2>9. BatchInv'
    BY <1>21, <1>p, <1>d
    DEF WriteDone, WriteReturns, At, Goto, BatchInv, ReaderIn, rx, ShapeInv,
        PcInv
  <2>10. NoPacketLost'
    BY <1>21, <1>p, <1>d
    DEF WriteDone, WriteReturns, At, Goto, NoPacketLost, BatchInv, rx,
        arrived, ShapeInv, ReaderIn, PcInv
  <2> QED
    BY <2>1, <2>2, <2>3, <2>4, <2>5, <2>6, <2>7, <2>8, <2>9, <2>10
<1>22. ASSUME WriteReturn PROVE Inv'
  <2>1. ShapeInv'
    BY <1>22, <1>p, <1>d
    DEF WriteReturn, At, Goto, ShapeInv, Labels, adapter, session, ring,
        event, rx, tx, arrived
  <2>2. PcInv'
    <3>1. closed' \in BOOLEAN /\ panicked' \in BOOLEAN
      BY <1>22, Zenon DEF WriteReturn, At, Goto, PcInv
    <3> QED
      BY <1>22, <1>p, <1>d, <3>1
      DEF WriteReturn, At, Goto, PcInv, ReaderIn, WriterIn, ClosePcs
  <2>3. CreateInv'
    BY <1>22, <1>p, <1>d
    DEF WriteReturn, At, Goto, CreateInv, Up, session, ShapeInv
  <2>4. CountInv'
    BY <1>22, <1>p, <1>d
    DEF WriteReturn, At, Goto, CountInv, ReaderIn, WriterIn, ShapeInv
  <2>5. OnceInv'
    BY <1>22, <1>p, <1>d
    DEF WriteReturn, At, Goto, OnceInv, ClosePcs, session, adapter,
        CreateInv, Up, ShapeInv, PcInv
  <2>6. SleepInv'
    BY <1>22, <1>p, <1>d
    DEF WriteReturn, At, Goto, SleepInv, ShapeInv, OnceInv, ClosePcs
  <2>7. ReleaseInv'
    BY <1>22, <1>p, <1>d
    DEF WriteReturn, At, Goto, ReleaseInv, ShapeInv, CountInv, SleepInv,
        ReaderIn, WriterIn, PcInv
  <2>8. PassedInv'
    BY <1>22, <1>p, <1>d
    DEF WriteReturn, At, Goto, PassedInv, Passed, OnceInv, ReleaseInv,
        SleepInv, CountInv, ShapeInv, ReaderIn, WriterIn, ClosePcs, PcInv
  <2>9. BatchInv'
    BY <1>22, <1>p, <1>d
    DEF WriteReturn, At, Goto, BatchInv, ReaderIn, rx, ShapeInv, PcInv
  <2>10. NoPacketLost'
    BY <1>22, <1>p, <1>d
    DEF WriteReturn, At, Goto, NoPacketLost, BatchInv, rx, arrived, ShapeInv,
        ReaderIn, PcInv
  <2> QED
    BY <2>1, <2>2, <2>3, <2>4, <2>5, <2>6, <2>7, <2>8, <2>9, <2>10
<1>23. ASSUME NEW k \in Closers, CloseCall(k) PROVE Inv'
  <2>1. ShapeInv'
    BY <1>23, <1>p, <1>d
    DEF CloseCall, At, Goto, Moves, Up, ShapeInv, Labels, adapter, session,
        ring, event, rx, tx, arrived
  <2>2. PcInv'
    <3>1. closed' \in BOOLEAN /\ panicked' \in BOOLEAN
      BY <1>23, Zenon DEF CloseCall, At, Goto, Moves, Up, PcInv
    <3> QED
      BY <1>23, <1>p, <1>d, <3>1
      DEF CloseCall, At, Goto, Moves, Up, PcInv, ReaderIn, WriterIn, ClosePcs
  <2>3. CreateInv'
    BY <1>23, <1>p, <1>d
    DEF CloseCall, At, Goto, Moves, Up, CreateInv, Up, session, ShapeInv
  <2>4. CountInv'
    BY <1>23, <1>p, <1>d
    DEF CloseCall, At, Goto, Moves, Up, CountInv, ReaderIn, WriterIn, ShapeInv
  <2>5. OnceInv'
    BY <1>23, <1>p, <1>d
    DEF CloseCall, At, Goto, Moves, Up, OnceInv, ClosePcs, session, adapter,
        CreateInv, Up, ShapeInv, PcInv
  <2>6. SleepInv'
    BY <1>23, <1>p, <1>d
    DEF CloseCall, At, Goto, Moves, Up, SleepInv, ShapeInv, OnceInv, ClosePcs
  <2>7. ReleaseInv'
    BY <1>23, <1>p, <1>d
    DEF CloseCall, At, Goto, Moves, Up, ReleaseInv, ShapeInv, CountInv,
        SleepInv, ReaderIn, WriterIn, PcInv
  <2>8. PassedInv'
    BY <1>23, <1>p, <1>d
    DEF CloseCall, At, Goto, Moves, Up, PassedInv, Passed, OnceInv,
        ReleaseInv, SleepInv, CountInv, ShapeInv, ReaderIn, WriterIn,
        ClosePcs, PcInv
  <2>9. BatchInv'
    BY <1>23, <1>p, <1>d
    DEF CloseCall, At, Goto, Moves, Up, BatchInv, ReaderIn, rx, ShapeInv,
        PcInv
  <2>10. NoPacketLost'
    BY <1>23, <1>p, <1>d
    DEF CloseCall, At, Goto, Moves, Up, NoPacketLost, BatchInv, rx, arrived,
        ShapeInv, ReaderIn, PcInv
  <2> QED
    BY <2>1, <2>2, <2>3, <2>4, <2>5, <2>6, <2>7, <2>8, <2>9, <2>10
<1>24. ASSUME NEW k \in Closers, CloseStore(k) PROVE Inv'
  <2>1. ShapeInv'
    BY <1>24, <1>p, <1>d
    DEF CloseStore, At, Goto, ShapeInv, Labels, adapter, session, ring,
        event, rx, tx, arrived
  <2>2. PcInv'
    <3>1. closed' \in BOOLEAN /\ panicked' \in BOOLEAN
      BY <1>24, Zenon DEF CloseStore, At, Goto, PcInv
    <3> QED
      BY <1>24, <1>p, <1>d, <3>1
      DEF CloseStore, At, Goto, PcInv, ReaderIn, WriterIn, ClosePcs
  <2>3. CreateInv'
    BY <1>24, <1>p, <1>d
    DEF CloseStore, At, Goto, CreateInv, Up, session, ShapeInv
  <2>4. CountInv'
    BY <1>24, <1>p, <1>d
    DEF CloseStore, At, Goto, CountInv, ReaderIn, WriterIn, ShapeInv
  <2>5. OnceInv'
    BY <1>24, <1>p, <1>d
    DEF CloseStore, At, Goto, OnceInv, ClosePcs, session, adapter, CreateInv,
        Up, ShapeInv, PcInv
  <2>6. SleepInv'
    BY <1>24, <1>p, <1>d
    DEF CloseStore, At, Goto, SleepInv, ShapeInv, OnceInv, ClosePcs
  <2>7. ReleaseInv'
    BY <1>24, <1>p, <1>d
    DEF CloseStore, At, Goto, ReleaseInv, ShapeInv, CountInv, SleepInv,
        ReaderIn, WriterIn, PcInv
  <2>8. PassedInv'
    BY <1>24, <1>p, <1>d
    DEF CloseStore, At, Goto, PassedInv, Passed, OnceInv, ReleaseInv,
        SleepInv, CountInv, ShapeInv, ReaderIn, WriterIn, ClosePcs, PcInv
  <2>9. BatchInv'
    BY <1>24, <1>p, <1>d
    DEF CloseStore, At, Goto, BatchInv, ReaderIn, rx, ShapeInv, PcInv
  <2>10. NoPacketLost'
    BY <1>24, <1>p, <1>d
    DEF CloseStore, At, Goto, NoPacketLost, BatchInv, rx, arrived, ShapeInv,
        ReaderIn, PcInv
  <2> QED
    BY <2>1, <2>2, <2>3, <2>4, <2>5, <2>6, <2>7, <2>8, <2>9, <2>10
<1>25. ASSUME NEW k \in Closers, CloseAgain(k) PROVE Inv'
  <2>1. ShapeInv'
    BY <1>25, <1>p, <1>d
    DEF CloseAgain, At, Goto, Moves, ShapeInv, Labels, adapter, session,
        ring, event, rx, tx, arrived
  <2>2. PcInv'
    <3>1. closed' \in BOOLEAN /\ panicked' \in BOOLEAN
      BY <1>25, Zenon DEF CloseAgain, At, Goto, Moves, PcInv
    <3> QED
      BY <1>25, <1>p, <1>d, <3>1
      DEF CloseAgain, At, Goto, Moves, PcInv, ReaderIn, WriterIn, ClosePcs
  <2>3. CreateInv'
    BY <1>25, <1>p, <1>d
    DEF CloseAgain, At, Goto, Moves, CreateInv, Up, session, ShapeInv
  <2>4. CountInv'
    BY <1>25, <1>p, <1>d
    DEF CloseAgain, At, Goto, Moves, CountInv, ReaderIn, WriterIn, ShapeInv
  <2>5. OnceInv'
    BY <1>25, <1>p, <1>d
    DEF CloseAgain, At, Goto, Moves, OnceInv, ClosePcs, session, adapter,
        CreateInv, Up, ShapeInv, PcInv
  <2>6. SleepInv'
    BY <1>25, <1>p, <1>d
    DEF CloseAgain, At, Goto, Moves, SleepInv, ShapeInv, OnceInv, ClosePcs
  <2>7. ReleaseInv'
    BY <1>25, <1>p, <1>d
    DEF CloseAgain, At, Goto, Moves, ReleaseInv, ShapeInv, CountInv,
        SleepInv, ReaderIn, WriterIn, PcInv
  <2>8. PassedInv'
    BY <1>25, <1>p, <1>d
    DEF CloseAgain, At, Goto, Moves, PassedInv, Passed, OnceInv, ReleaseInv,
        SleepInv, CountInv, ShapeInv, ReaderIn, WriterIn, ClosePcs, PcInv
  <2>9. BatchInv'
    BY <1>25, <1>p, <1>d
    DEF CloseAgain, At, Goto, Moves, BatchInv, ReaderIn, rx, ShapeInv, PcInv
  <2>10. NoPacketLost'
    BY <1>25, <1>p, <1>d
    DEF CloseAgain, At, Goto, Moves, NoPacketLost, BatchInv, rx, arrived,
        ShapeInv, ReaderIn, PcInv
  <2> QED
    BY <2>1, <2>2, <2>3, <2>4, <2>5, <2>6, <2>7, <2>8, <2>9, <2>10
<1>26. ASSUME NEW k \in Closers, CloseSignal(k) PROVE Inv'
  <2>1. ShapeInv'
    BY <1>26, <1>p, <1>d
    DEF CloseSignal, At, Goto, Calls, ShapeInv, Labels, adapter, session,
        ring, event, rx, tx, arrived
  <2>2. PcInv'
    <3>1. closed' \in BOOLEAN /\ panicked' \in BOOLEAN
      BY <1>26, Zenon DEF CloseSignal, At, Goto, Calls, PcInv
    <3> QED
      BY <1>26, <1>p, <1>d, <3>1
      DEF CloseSignal, At, Goto, Calls, PcInv, ReaderIn, WriterIn, ClosePcs
  <2>3. CreateInv'
    BY <1>26, <1>p, <1>d
    DEF CloseSignal, At, Goto, Calls, CreateInv, Up, session, ShapeInv
  <2>4. CountInv'
    BY <1>26, <1>p, <1>d
    DEF CloseSignal, At, Goto, Calls, CountInv, ReaderIn, WriterIn, ShapeInv
  <2>5. OnceInv'
    BY <1>26, <1>p, <1>d
    DEF CloseSignal, At, Goto, Calls, OnceInv, ClosePcs, session, adapter,
        CreateInv, Up, ShapeInv, PcInv
  <2>6. SleepInv'
    BY <1>26, <1>p, <1>d
    DEF CloseSignal, At, Goto, Calls, SleepInv, ShapeInv, OnceInv, ClosePcs
  <2>7. ReleaseInv'
    BY <1>26, <1>p, <1>d
    DEF CloseSignal, At, Goto, Calls, ReleaseInv, ShapeInv, CountInv,
        SleepInv, ReaderIn, WriterIn, PcInv
  <2>8. PassedInv'
    BY <1>26, <1>p, <1>d
    DEF CloseSignal, At, Goto, Calls, PassedInv, Passed, OnceInv, ReleaseInv,
        SleepInv, CountInv, ShapeInv, ReaderIn, WriterIn, ClosePcs, PcInv
  <2>9. BatchInv'
    BY <1>26, <1>p, <1>d
    DEF CloseSignal, At, Goto, Calls, BatchInv, ReaderIn, rx, ShapeInv, PcInv
  <2>10. NoPacketLost'
    BY <1>26, <1>p, <1>d
    DEF CloseSignal, At, Goto, Calls, NoPacketLost, BatchInv, rx, arrived,
        ShapeInv, ReaderIn, PcInv
  <2> QED
    BY <2>1, <2>2, <2>3, <2>4, <2>5, <2>6, <2>7, <2>8, <2>9, <2>10
<1>27. ASSUME NEW k \in Closers, CloseSession(k) PROVE Inv'
  <2>1. ShapeInv'
    BY <1>27, <1>p, <1>d
    DEF CloseSession, At, Goto, Calls, ShapeInv, Labels, adapter, session,
        ring, event, rx, tx, arrived
  <2>2. PcInv'
    <3>1. closed' \in BOOLEAN /\ panicked' \in BOOLEAN
      BY <1>27, Zenon DEF CloseSession, At, Goto, Calls, PcInv
    <3> QED
      BY <1>27, <1>p, <1>d, <3>1
      DEF CloseSession, At, Goto, Calls, PcInv, ReaderIn, WriterIn, ClosePcs
  <2>3. CreateInv'
    BY <1>27, <1>p, <1>d
    DEF CloseSession, At, Goto, Calls, CreateInv, Up, session, ShapeInv
  <2>4. CountInv'
    BY <1>27, <1>p, <1>d
    DEF CloseSession, At, Goto, Calls, CountInv, ReaderIn, WriterIn, ShapeInv
  <2>5. OnceInv'
    BY <1>27, <1>p, <1>d
    DEF CloseSession, At, Goto, Calls, OnceInv, ClosePcs, session, adapter,
        CreateInv, Up, ShapeInv, PcInv
  <2>6. SleepInv'
    BY <1>27, <1>p, <1>d
    DEF CloseSession, At, Goto, Calls, SleepInv, ShapeInv, OnceInv, ClosePcs
  <2>7. ReleaseInv'
    BY <1>27, <1>p, <1>d
    DEF CloseSession, At, Goto, Calls, ReleaseInv, ShapeInv, CountInv,
        SleepInv, ReaderIn, WriterIn, PcInv
  <2>8. PassedInv'
    BY <1>27, <1>p, <1>d
    DEF CloseSession, At, Goto, Calls, PassedInv, Passed, OnceInv,
        ReleaseInv, SleepInv, CountInv, ShapeInv, ReaderIn, WriterIn,
        ClosePcs, PcInv
  <2>9. BatchInv'
    BY <1>27, <1>p, <1>d
    DEF CloseSession, At, Goto, Calls, BatchInv, ReaderIn, rx, ShapeInv, PcInv
  <2>10. NoPacketLost'
    BY <1>27, <1>p, <1>d
    DEF CloseSession, At, Goto, Calls, NoPacketLost, BatchInv, rx, arrived,
        ShapeInv, ReaderIn, PcInv
  <2> QED
    BY <2>1, <2>2, <2>3, <2>4, <2>5, <2>6, <2>7, <2>8, <2>9, <2>10
<1>28. ASSUME NEW k \in Closers, CloseAdapter(k) PROVE Inv'
  <2>1. ShapeInv'
    BY <1>28, <1>p, <1>d
    DEF CloseAdapter, At, Goto, ShapeInv, Labels, adapter, session, ring,
        event, rx, tx, arrived
  <2>2. PcInv'
    <3>1. closed' \in BOOLEAN /\ panicked' \in BOOLEAN
      BY <1>28, Zenon DEF CloseAdapter, At, Goto, PcInv
    <3> QED
      BY <1>28, <1>p, <1>d, <3>1
      DEF CloseAdapter, At, Goto, PcInv, ReaderIn, WriterIn, ClosePcs
  <2>3. CreateInv'
    BY <1>28, <1>p, <1>d
    DEF CloseAdapter, At, Goto, CreateInv, Up, session, ShapeInv
  <2>4. CountInv'
    BY <1>28, <1>p, <1>d
    DEF CloseAdapter, At, Goto, CountInv, ReaderIn, WriterIn, ShapeInv
  <2>5. OnceInv'
    BY <1>28, <1>p, <1>d
    DEF CloseAdapter, At, Goto, OnceInv, ClosePcs, session, adapter,
        CreateInv, Up, ShapeInv, PcInv
  <2>6. SleepInv'
    BY <1>28, <1>p, <1>d
    DEF CloseAdapter, At, Goto, SleepInv, ShapeInv, OnceInv, ClosePcs
  <2>7. ReleaseInv'
    BY <1>28, <1>p, <1>d
    DEF CloseAdapter, At, Goto, ReleaseInv, ShapeInv, CountInv, SleepInv,
        ReaderIn, WriterIn, PcInv
  <2>8. PassedInv'
    BY <1>28, <1>p, <1>d
    DEF CloseAdapter, At, Goto, PassedInv, Passed, OnceInv, ReleaseInv,
        SleepInv, CountInv, ShapeInv, ReaderIn, WriterIn, ClosePcs, PcInv
  <2>9. BatchInv'
    BY <1>28, <1>p, <1>d
    DEF CloseAdapter, At, Goto, BatchInv, ReaderIn, rx, ShapeInv, PcInv
  <2>10. NoPacketLost'
    BY <1>28, <1>p, <1>d
    DEF CloseAdapter, At, Goto, NoPacketLost, BatchInv, rx, arrived,
        ShapeInv, ReaderIn, PcInv
  <2> QED
    BY <2>1, <2>2, <2>3, <2>4, <2>5, <2>6, <2>7, <2>8, <2>9, <2>10
<1>29. ASSUME Arrive PROVE Inv'
  <2>0. /\ rx \in Seq(Packets) /\ Len(rx) < RingCap
        /\ arrived \in Nat /\ arrived + 1 \in Packets
        /\ arrived + 1 \in 0 .. MaxArrivals
    BY <1>29 DEF Arrive, ShapeInv, rx, arrived, Packets
  <2>q. /\ Append(rx, arrived + 1) \in Seq(Packets)
        /\ Append(rx, arrived + 1) # <<>>
        /\ Len(Append(rx, arrived + 1)) = Len(rx) + 1
    BY <2>0, AppendProperties
  <2>r. drv' = [drv EXCEPT !.arrived = arrived + 1,
                           !.rx = Append(rx, arrived + 1), !.event = TRUE]
    BY <1>29 DEF Arrive, Drives, rx, arrived
  <2>s. drv'.rx = Append(rx, arrived + 1) /\ drv'.arrived = arrived + 1
    BY <2>r DEF ShapeInv
  <2>1. ShapeInv'
    <3>1. Len(rx') <= RingCap
      BY <2>0, <2>q, <2>s DEF rx
    <3>2. drv' \in [adapter : {"none", "open", "removed"},
                    session : {"none", "open", "ended"},
                    ring : {"ok", "eof", "bad"}, event : BOOLEAN,
                    rx : Seq(Packets), tx : 0 .. RingCap,
                    arrived : 0 .. MaxArrivals]
      BY <2>0, <2>q, <2>r DEF ShapeInv
    <3> QED
      BY <1>29, <3>1, <3>2 DEF Arrive, Drives, ShapeInv
  <2>2. PcInv'
    <3>1. closed' \in BOOLEAN /\ panicked' \in BOOLEAN
      BY <1>29, Zenon DEF Arrive, Drives, PcInv
    <3> QED
      BY <1>29, <1>p, <1>d, <3>1
      DEF Arrive, Drives, PcInv, ReaderIn, WriterIn, ClosePcs
  <2>3. CreateInv'
    BY <1>29, <1>p, <1>d DEF Arrive, Drives, CreateInv, Up, session, ShapeInv
  <2>4. CountInv'
    BY <1>29, <1>p, <1>d
    DEF Arrive, Drives, CountInv, ReaderIn, WriterIn, ShapeInv
  <2>5. OnceInv'
    BY <1>29, <1>p, <1>d
    DEF Arrive, Drives, OnceInv, ClosePcs, session, adapter, CreateInv, Up,
        ShapeInv, PcInv
  <2>6. SleepInv'
    BY <1>29, <1>p, <1>d
    DEF Arrive, Drives, SleepInv, ShapeInv, OnceInv, ClosePcs
  <2>7. ReleaseInv'
    BY <1>29, <1>p, <1>d
    DEF Arrive, Drives, ReleaseInv, ShapeInv, CountInv, SleepInv, ReaderIn,
        WriterIn, PcInv
  <2>8. PassedInv'
    BY <1>29, <1>p, <1>d
    DEF Arrive, Drives, PassedInv, Passed, OnceInv, ReleaseInv, SleepInv,
        CountInv, ShapeInv, ReaderIn, WriterIn, ClosePcs, PcInv
  <2>9. BatchInv'
    BY <1>29, <2>q, <2>s DEF Arrive, Drives, BatchInv, rx
  <2>10. NoPacketLost'
    <3>1. delivered \o batch \in Seq(Packets)
      BY ConcatProperties DEF BatchInv
    <3>2. (delivered \o batch) \o rx = [i \in 1..arrived |-> i]
      BY DEF NoPacketLost
    <3>3. (delivered \o batch) \o Append(rx, arrived + 1)
            = [i \in 1 .. arrived + 1 |-> i]
      <4>1. (delivered \o batch) \o Append(rx, arrived + 1)
              = Append((delivered \o batch) \o rx, arrived + 1)
        BY <2>0, <3>1, AppendLast
      <4>2. Append([i \in 1..arrived |-> i], arrived + 1)
              = [i \in 1 .. arrived + 1 |-> i]
        BY <2>0
      <4> QED
        BY <3>2, <4>1, <4>2
    <3>4. (delivered \o batch \o rx = [i \in 1..arrived |-> i])'
      BY <1>29, <2>s, <3>3 DEF Arrive, Drives, rx, arrived
    <3> QED
      BY <1>29, <3>4 DEF Arrive, Drives, NoPacketLost
  <2> QED
    BY <2>1, <2>2, <2>3, <2>4, <2>5, <2>6, <2>7, <2>8, <2>9, <2>10
<1>30. ASSUME Transmit PROVE Inv'
  <2>1. ShapeInv'
    BY <1>30, <1>p, <1>d, SMTT(30)
    DEF Transmit, Drives, ShapeInv, Labels, adapter, session, ring, event,
        rx, tx, arrived
  <2>2. PcInv'
    <3>1. closed' \in BOOLEAN /\ panicked' \in BOOLEAN
      BY <1>30, Zenon DEF Transmit, Drives, PcInv
    <3> QED
      BY <1>30, <1>p, <1>d, <3>1
      DEF Transmit, Drives, PcInv, ReaderIn, WriterIn, ClosePcs
  <2>3. CreateInv'
    BY <1>30, <1>p, <1>d
    DEF Transmit, Drives, CreateInv, Up, session, ShapeInv
  <2>4. CountInv'
    BY <1>30, <1>p, <1>d
    DEF Transmit, Drives, CountInv, ReaderIn, WriterIn, ShapeInv
  <2>5. OnceInv'
    BY <1>30, <1>p, <1>d
    DEF Transmit, Drives, OnceInv, ClosePcs, session, adapter, CreateInv, Up,
        ShapeInv, PcInv
  <2>6. SleepInv'
    BY <1>30, <1>p, <1>d
    DEF Transmit, Drives, SleepInv, ShapeInv, OnceInv, ClosePcs
  <2>7. ReleaseInv'
    BY <1>30, <1>p, <1>d
    DEF Transmit, Drives, ReleaseInv, ShapeInv, CountInv, SleepInv, ReaderIn,
        WriterIn, PcInv
  <2>8. PassedInv'
    BY <1>30, <1>p, <1>d
    DEF Transmit, Drives, PassedInv, Passed, OnceInv, ReleaseInv, SleepInv,
        CountInv, ShapeInv, ReaderIn, WriterIn, ClosePcs, PcInv
  <2>9. BatchInv'
    BY <1>30, <1>p, <1>d
    DEF Transmit, Drives, BatchInv, ReaderIn, rx, ShapeInv, PcInv
  <2>10. NoPacketLost'
    BY <1>30, <1>p, <1>d
    DEF Transmit, Drives, NoPacketLost, BatchInv, rx, arrived, ShapeInv,
        ReaderIn, PcInv
  <2> QED
    BY <2>1, <2>2, <2>3, <2>4, <2>5, <2>6, <2>7, <2>8, <2>9, <2>10
<1>31. ASSUME RingFails PROVE Inv'
  <2>1. ShapeInv'
    BY <1>31, <1>p, <1>d, ZenonT(30)
    DEF RingFails, Drives, ShapeInv, Labels, adapter, session, ring, event,
        rx, tx, arrived
  <2>2. PcInv'
    <3>1. closed' \in BOOLEAN /\ panicked' \in BOOLEAN
      BY <1>31, Zenon DEF RingFails, Drives, PcInv
    <3> QED
      BY <1>31, <1>p, <1>d, <3>1
      DEF RingFails, Drives, PcInv, ReaderIn, WriterIn, ClosePcs
  <2>3. CreateInv'
    BY <1>31, <1>p, <1>d
    DEF RingFails, Drives, CreateInv, Up, session, ShapeInv
  <2>4. CountInv'
    BY <1>31, <1>p, <1>d
    DEF RingFails, Drives, CountInv, ReaderIn, WriterIn, ShapeInv
  <2>5. OnceInv'
    BY <1>31, <1>p, <1>d
    DEF RingFails, Drives, OnceInv, ClosePcs, session, adapter, CreateInv,
        Up, ShapeInv, PcInv
  <2>6. SleepInv'
    BY <1>31, <1>p, <1>d
    DEF RingFails, Drives, SleepInv, ShapeInv, OnceInv, ClosePcs
  <2>7. ReleaseInv'
    BY <1>31, <1>p, <1>d
    DEF RingFails, Drives, ReleaseInv, ShapeInv, CountInv, SleepInv,
        ReaderIn, WriterIn, PcInv
  <2>8. PassedInv'
    BY <1>31, <1>p, <1>d
    DEF RingFails, Drives, PassedInv, Passed, OnceInv, ReleaseInv, SleepInv,
        CountInv, ShapeInv, ReaderIn, WriterIn, ClosePcs, PcInv
  <2>9. BatchInv'
    BY <1>31, <1>p, <1>d
    DEF RingFails, Drives, BatchInv, ReaderIn, rx, ShapeInv, PcInv
  <2>10. NoPacketLost'
    BY <1>31, <1>p, <1>d
    DEF RingFails, Drives, NoPacketLost, BatchInv, rx, arrived, ShapeInv,
        ReaderIn, PcInv
  <2> QED
    BY <2>1, <2>2, <2>3, <2>4, <2>5, <2>6, <2>7, <2>8, <2>9, <2>10
<1>32. ASSUME UNCHANGED vars PROVE Inv'
  <2>1. ShapeInv'
    BY <1>32, <1>p, <1>d
    DEF vars, ShapeInv, Labels, adapter, session, ring, event, rx, tx, arrived
  <2>2. PcInv'
    <3>1. closed' \in BOOLEAN /\ panicked' \in BOOLEAN
      BY <1>32, Zenon DEF vars, PcInv
    <3> QED
      BY <1>32, <1>p, <1>d, <3>1 DEF vars, PcInv, ReaderIn, WriterIn, ClosePcs
  <2>3. CreateInv'
    BY <1>32, <1>p, <1>d DEF vars, CreateInv, Up, session, ShapeInv
  <2>4. CountInv'
    BY <1>32, <1>p, <1>d DEF vars, CountInv, ReaderIn, WriterIn, ShapeInv
  <2>5. OnceInv'
    BY <1>32, <1>p, <1>d
    DEF vars, OnceInv, ClosePcs, session, adapter, CreateInv, Up, ShapeInv,
        PcInv
  <2>6. SleepInv'
    BY <1>32, <1>p, <1>d DEF vars, SleepInv, ShapeInv, OnceInv, ClosePcs
  <2>7. ReleaseInv'
    BY <1>32, <1>p, <1>d
    DEF vars, ReleaseInv, ShapeInv, CountInv, SleepInv, ReaderIn, WriterIn,
        PcInv
  <2>8. PassedInv'
    BY <1>32, <1>p, <1>d
    DEF vars, PassedInv, Passed, OnceInv, ReleaseInv, SleepInv, CountInv,
        ShapeInv, ReaderIn, WriterIn, ClosePcs, PcInv
  <2>9. BatchInv'
    BY <1>32, <1>p, <1>d DEF vars, BatchInv, ReaderIn, rx, ShapeInv, PcInv
  <2>10. NoPacketLost'
    BY <1>32, <1>p, <1>d
    DEF vars, NoPacketLost, BatchInv, rx, arrived, ShapeInv, ReaderIn, PcInv
  <2> QED
    BY <2>1, <2>2, <2>3, <2>4, <2>5, <2>6, <2>7, <2>8, <2>9, <2>10
<1> HIDE DEF Inv
<1> QED
  BY <1>p, <1>1, <1>2, <1>3, <1>4, <1>5, <1>6, <1>7, <1>8, <1>9, <1>10,
     <1>11, <1>12, <1>13, <1>14, <1>15, <1>16, <1>17, <1>18, <1>19, <1>20,
     <1>21, <1>22, <1>23, <1>24, <1>25, <1>26, <1>27, <1>28, <1>29, <1>30,
     <1>31, <1>32
  DEF Next, Reader, Writer, Closer

(* Inv holds of every state of the device.                                 *)
LEMMA InvAlways == Spec => []Inv
BY InitInv, StepInv, PTL DEF Spec

(* Type correctness of Read, Write and Close for any batch and ring size:  *)
(* Read never fills more buffers than it was given, and the wait group has *)
(* at most two users and one waiter, however many goroutines call Close.   *)
THEOREM TypeCorrect == Spec => []TypeOK
<1>1. Inv => TypeOK
  <2> SUFFICES ASSUME Inv PROVE TypeOK
    OBVIOUS
  <2>1. closed \in BOOLEAN /\ panicked \in BOOLEAN
    BY DEF Inv, PcInv
  <2>2. wg \in [count : 0..2, waiters : 0..1, sema : 0..1]
    <3>1. wg.count \in 0..2
      BY DEF Inv, CountInv
    <3>2. wg.waiters \in 0..1 /\ wg.sema \in 0..1
      BY DEF Inv, SleepInv
    <3> QED
      BY <3>1, <3>2 DEF Inv, ShapeInv
  <2>3. event \in BOOLEAN
    BY DEF Inv, ShapeInv, event
  <2>4. /\ adapter \in {"none", "open", "removed"}
        /\ session \in {"none", "open", "ended"}
        /\ ring \in {"ok", "eof", "bad"}
        /\ rx \in Seq(1..MaxArrivals) /\ Len(rx) <= RingCap
        /\ tx \in 0..RingCap /\ arrived \in 0..MaxArrivals
    BY DEF Inv, ShapeInv, adapter, session, ring, rx, tx, arrived, Packets
  <2>5. /\ batch \in Seq(1..MaxArrivals) /\ Len(batch) <= BatchSize
        /\ delivered \in Seq(1..MaxArrivals)
    BY DEF Inv, BatchInv, Packets
  <2>6. /\ pc["reader"] \in {"idle", "retry", "loop", "recv", "copy", "park",
                             "done", "release", "return", "exited"}
        /\ pc["writer"] \in {"idle", "check", "loop", "send", "done",
                             "release", "return", "exited"}
        /\ \A k \in Closers :
             pc[k] \in {"idle", "close", "signal", "wait", "asleep", "end",
                        "remove", "closed"}
    BY DEF Inv, PcInv, ReaderIn, WriterIn, ClosePcs
  <2>7. /\ once \in {"free", "busy", "done"} /\ todo \in 0..BatchSize
        /\ pc["creator"] \in {"new", "start", "up", "failed"}
        /\ ret \in [IO -> {"nil", "closed", "error"}]
    BY DEF Inv, PcInv
  <2> QED
    BY <2>1, <2>2, <2>3, <2>4, <2>5, <2>6, <2>7 DEF TypeOK
<1> QED
  BY <1>1, InvAlways, PTL

(* Neither Read nor Write touches the session after Session.End, for any   *)
(* number of goroutines in Close and without a lock between them:          *)
(* NoUseAfterEnd.                                                          *)
THEOREM SessionUnusedAfterEnd == Spec => []NoUseAfterEnd
<1>1. Inv => NoUseAfterEnd
  BY DEF Inv, NoUseAfterEnd, OnceInv, PassedInv, Passed
<1> QED
  BY <1>1, InvAlways, PTL

(* Read hands the engine every packet it takes out of the ring, in order   *)
(* and once, and never returns nil without one: NoPacketLost.              *)
THEOREM PacketsKept == Spec => []NoPacketLost
<1>1. Inv => NoPacketLost
  BY DEF Inv
<1> QED
  BY <1>1, InvAlways, PTL

(* Whichever goroutine Close returns in, the session is ended and the      *)
(* adapter removed: ClosedMeansGone.                                       *)
THEOREM ClosedIsGone == Spec => []ClosedMeansGone
<1>1. Inv => ClosedMeansGone
  BY DEF Inv, ClosedMeansGone, OnceInv
<1> QED
  BY <1>1, InvAlways, PTL
=============================================================================
