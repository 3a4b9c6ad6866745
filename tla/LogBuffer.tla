----------------------------- MODULE LogBuffer -----------------------------
(***************************************************************************)
(* The log ring of the control channel (control/logbuf.go) and the cursors *)
(* front-ends poll it with (Client.Logs).  A line is its sequence number.  *)
(* A Write of several lines takes the buffer's mutex once per line, so     *)
(* lines of different writers interleave and a poll may come in between.   *)
(***************************************************************************)
EXTENDS Naturals, Sequences

CONSTANTS
  Writers,            \* goroutines that log
  Pollers,            \* front-ends
  Capacity,           \* argument of NewLogBuffer
  DefaultCapacity,    \* defaultLogCapacity
  MaxWrite,           \* bound: non-empty lines in one Write
  MaxLines            \* bound: lines logged in one behaviour

ASSUME CapacityAssumption ==
  /\ Capacity \in Nat
  /\ DefaultCapacity \in Nat \ {0}
ASSUME LineBoundsAssumption == MaxWrite \in Nat /\ MaxLines \in Nat

VARIABLES
  lines,      \* retained lines, oldest first
  nextSeq,
  overflow,   \* lines evicted
  left,       \* lines each writer's Write has yet to append
  cursor,     \* highest Seq each front-end has seen
  got         \* the lines each front-end has received

vars == <<lines, nextSeq, overflow, left, cursor, got>>

(* NewLogBuffer.                                                           *)
cap == IF Capacity = 0 THEN DefaultCapacity ELSE Capacity

Init ==
  /\ lines = <<>>
  /\ nextSeq = 1
  /\ overflow = 0
  /\ left = [w \in Writers |-> 0]
  /\ cursor = [p \in Pollers |-> 0]
  /\ got = [p \in Pollers |-> <<>>]

(* Write splits its argument; empty lines are dropped.                     *)
Write(w, n) ==
  /\ left[w] = 0
  /\ left' = [left EXCEPT ![w] = n]
  /\ UNCHANGED <<lines, nextSeq, overflow, cursor, got>>

(* Mutant: the eviction test lets one line too many in.                    *)
AppendLate(w) ==
  /\ left[w] > 0
  /\ nextSeq <= MaxLines
  /\ left' = [left EXCEPT ![w] = @ - 1]
  /\ nextSeq' = nextSeq + 1
  /\ lines' = Append(IF Len(lines) > cap THEN Tail(lines) ELSE lines, nextSeq)
  /\ overflow' = IF Len(lines) > cap THEN overflow + 1 ELSE overflow
  /\ UNCHANGED <<cursor, got>>

AppendLine(w) ==
  /\ left[w] > 0
  /\ nextSeq <= MaxLines
  /\ left' = [left EXCEPT ![w] = @ - 1]
  /\ nextSeq' = nextSeq + 1
  /\ lines' = Append(IF Len(lines) >= cap THEN Tail(lines) ELSE lines, nextSeq)
  /\ overflow' = IF Len(lines) >= cap THEN overflow + 1 ELSE overflow
  /\ UNCHANGED <<cursor, got>>

(* The scan of Since: the first retained line above the cursor.            *)
IsStart(since, i) ==
  /\ \A j \in 1..(i - 1) : lines[j] <= since
  /\ i <= Len(lines) => lines[i] > since

(* Mutant: the scan stops at the cursor's own line.                        *)
SinceInclusive(since) ==
  LET start == CHOOSE i \in 1..(Len(lines) + 1) :
                 /\ \A j \in 1..(i - 1) : lines[j] < since
                 /\ i <= Len(lines) => lines[i] >= since
  IN  SubSeq(lines, start, Len(lines))

(* Mutant: the scan skips the line after the cursor.                       *)
SinceSkips(since) ==
  LET start == CHOOSE i \in 1..(Len(lines) + 1) : IsStart(since, i)
  IN  SubSeq(lines, start + 1, Len(lines))

Since(since) ==
  LET start == CHOOSE i \in 1..(Len(lines) + 1) : IsStart(since, i)
  IN  SubSeq(lines, start, Len(lines))

(* Client.Logs: the reply moves the cursor to the highest Seq in it.       *)
Logs(p) ==
  LET reply == Since(cursor[p])
  IN  /\ got' = [got EXCEPT ![p] = @ \o reply]
      /\ cursor' = [cursor EXCEPT
                      ![p] = IF reply = <<>> THEN @ ELSE reply[Len(reply)]]
      /\ UNCHANGED <<lines, nextSeq, overflow, left>>

Next ==
  \/ \E w \in Writers : (\E n \in 0..MaxWrite : Write(w, n)) \/ AppendLine(w)
  \/ \E p \in Pollers : Logs(p)

Spec == Init /\ [][Next]_vars

-----------------------------------------------------------------------------
(* The variables have their types, and the ring keeps to its capacity.     *)
TypeOK ==
  /\ lines \in Seq(Nat)
  /\ Len(lines) <= cap
  /\ nextSeq \in Nat \ {0}
  /\ overflow \in Nat
  /\ left \in [Writers -> 0..MaxWrite]
  /\ cursor \in [Pollers -> Nat]
  /\ got \in [Pollers -> Seq(Nat)]

(* The retained lines are the most recent ones, without a hole, and every  *)
(* line ever logged is retained or counted as evicted.                     *)
Contiguous ==
  /\ \A i \in 1..Len(lines) : lines[i] = overflow + i
  /\ nextSeq = overflow + Len(lines) + 1
  /\ overflow > 0 => Len(lines) = cap

(* A front-end never receives a line twice or out of order.                *)
NoRepeats ==
  \A p \in Pollers : \A i, j \in 1..Len(got[p]) :
    i < j => got[p][i] < got[p][j]

(* A line a front-end has skipped was evicted before it polled: "a         *)
(* front-end that has fallen behind by more than this many lines simply    *)
(* sees a gap", and no other does.                                         *)
GapsAreEvictions ==
  \A p \in Pollers : \A n \in 1..cursor[p] :
    n <= overflow \/ \E i \in 1..Len(got[p]) : got[p][i] = n
=============================================================================
