-------------------------- MODULE LogBufferProofs --------------------------
(***************************************************************************)
(* Proofs about LogBuffer, for any capacity, writers and pollers.          *)
(***************************************************************************)
EXTENDS LogBuffer, SequenceTheorems, TLAPS

(* A cursor is at the last line received and below the next one.           *)
CursorInv ==
  \A p \in Pollers :
    /\ cursor[p] < nextSeq
    /\ \A i \in 1..Len(got[p]) : got[p][i] <= cursor[p]

Inv == TypeOK /\ Contiguous /\ CursorInv /\ NoRepeats /\ GapsAreEvictions

-----------------------------------------------------------------------------
(* The scan of Since stops where the arithmetic on sequence numbers says.  *)
LEMMA SinceStart ==
  ASSUME TypeOK, Contiguous, NEW c \in Nat, c < nextSeq
  PROVE  \E s \in 1..(Len(lines) + 1) :
           /\ Since(c) = SubSeq(lines, s, Len(lines))
           /\ s = IF c <= overflow THEN 1 ELSE c - overflow + 1
<1> DEFINE t == IF c <= overflow THEN 1 ELSE c - overflow + 1
           s == CHOOSE i \in 1..(Len(lines) + 1) : IsStart(c, i)
<1>1. Len(lines) \in Nat /\ t \in 1..(Len(lines) + 1)
  BY DEF TypeOK, Contiguous
<1>2. IsStart(c, t)
  <2>1. CASE c <= overflow
    BY <1>1, <2>1 DEF IsStart, TypeOK, Contiguous
  <2>2. CASE c > overflow
    <3>1. overflow \in Nat /\ t = c - overflow + 1
      BY <2>2 DEF TypeOK
    <3> HIDE DEF t
    <3>2. \A j \in 1..(t - 1) : lines[j] <= c
      <4> SUFFICES ASSUME NEW j \in 1..(t - 1) PROVE lines[j] <= c
        OBVIOUS
      <4>1. j \in 1..Len(lines)
        BY <1>1
      <4>2. lines[j] = overflow + j
        BY <4>1 DEF Contiguous
      <4> QED
        BY <1>1, <3>1, <4>2
    <3>3. t <= Len(lines) => lines[t] > c
      <4> SUFFICES ASSUME t <= Len(lines) PROVE lines[t] > c
        OBVIOUS
      <4>1. t \in 1..Len(lines)
        BY <1>1
      <4>2. lines[t] = overflow + t
        BY <4>1 DEF Contiguous
      <4> QED
        BY <1>1, <3>1, <4>2
    <3> QED
      BY <3>2, <3>3 DEF IsStart
  <2> QED
    BY <2>1, <2>2 DEF TypeOK
<1>3. s \in 1..(Len(lines) + 1) /\ IsStart(c, s)
  BY <1>1, <1>2
<1>4. s = t
  <2> HIDE DEF s
  <2>1. ~(s < t)
    BY <1>1, <1>3 DEF IsStart, TypeOK, Contiguous
  <2>2. ~(t < s)
    BY <1>1, <1>2, <1>3 DEF IsStart, TypeOK, Contiguous
  <2> QED
    BY <1>1, <1>3, <2>1, <2>2
<1>5. Since(c) = SubSeq(lines, s, Len(lines))
  BY DEF Since
<1> QED
  BY <1>1, <1>4, <1>5

(* What a poll returns: the lines from the later of the cursor and the     *)
(* oldest retained line up to the newest, in order.                        *)
LEMMA SinceReply ==
  ASSUME TypeOK, Contiguous, NEW c \in Nat, c < nextSeq
  PROVE  LET r == Since(c)
             m == IF c <= overflow THEN overflow ELSE c
         IN  /\ r \in Seq(Nat)
             /\ Len(r) = nextSeq - 1 - m
             /\ \A i \in 1..Len(r) : r[i] = m + i
<1>1. PICK s \in 1..(Len(lines) + 1) :
           /\ Since(c) = SubSeq(lines, s, Len(lines))
           /\ s = IF c <= overflow THEN 1 ELSE c - overflow + 1
  BY SinceStart
<1>2. Len(lines) \in Nat
  BY DEF TypeOK
<1> DEFINE r == SubSeq(lines, s, Len(lines))
<1>3. /\ r \in Seq(Nat)
      /\ Len(r) = Len(lines) - s + 1
      /\ \A i \in 1..Len(r) : r[i] = lines[s + i - 1]
  BY <1>2 DEF TypeOK
<1>4. Since(c) = r
  BY <1>1
<1> DEFINE m == IF c <= overflow THEN overflow ELSE c
<1>5. /\ overflow \in Nat /\ nextSeq \in Nat
      /\ m = overflow + s - 1
      /\ nextSeq = overflow + Len(lines) + 1
  BY <1>1 DEF TypeOK, Contiguous
<1> HIDE DEF r, m
<1>6. Len(r) = nextSeq - 1 - m
  BY <1>2, <1>3, <1>5
<1>7. ASSUME NEW i \in 1..Len(r)
      PROVE  r[i] = m + i
  <2>1. s + i - 1 \in 1..Len(lines)
    BY <1>2, <1>3
  <2>2. lines[s + i - 1] = overflow + (s + i - 1)
    BY <2>1 DEF Contiguous
  <2> QED
    BY <1>3, <1>5, <2>2
<1> QED
  BY <1>3, <1>4, <1>6, <1>7 DEF m

(* A sequence continued with consecutive numbers.                          *)
LEMMA Extend ==
  ASSUME NEW g \in Seq(Nat), NEW r \in Seq(Nat), NEW m \in Nat,
         \A i \in 1..Len(r) : r[i] = m + i
  PROVE  LET h == g \o r
         IN  /\ h \in Seq(Nat)
             /\ Len(h) = Len(g) + Len(r)
             /\ \A i \in 1..Len(g) : h[i] = g[i]
             /\ \A k \in 1..Len(r) : h[Len(g) + k] = m + k
<1> DEFINE h == g \o r
<1>1. Len(g) \in Nat /\ Len(r) \in Nat
  BY LenProperties
<1>2. /\ h \in Seq(Nat)
      /\ Len(h) = Len(g) + Len(r)
      /\ \A i \in 1 .. Len(g) + Len(r) :
           h[i] = IF i <= Len(g) THEN g[i] ELSE r[i - Len(g)]
  BY ConcatProperties
<1> HIDE DEF h
<1>3. ASSUME NEW i \in 1..Len(g)
      PROVE  h[i] = g[i]
  BY <1>1, <1>2
<1>4. ASSUME NEW k \in 1..Len(r)
      PROVE  h[Len(g) + k] = m + k
  <2>1. Len(g) + k \in 1 .. Len(g) + Len(r) /\ ~(Len(g) + k <= Len(g))
    BY <1>1
  <2>2. h[Len(g) + k] = r[(Len(g) + k) - Len(g)]
    BY <1>2, <2>1
  <2>3. (Len(g) + k) - Len(g) = k
    BY <1>1
  <2> QED
    BY <2>2, <2>3
<1> QED
  BY <1>2, <1>3, <1>4 DEF h

(* The invariant holds initially.                                          *)
LEMMA InitInv == Init => Inv
  BY CapacityAssumption, LineBoundsAssumption
  DEF Init, Inv, TypeOK, Contiguous, CursorInv, NoRepeats, GapsAreEvictions, cap

(* Every step preserves the invariant.                                     *)
LEMMA StepInv == Inv /\ [Next]_vars => Inv'
<1> SUFFICES ASSUME Inv, [Next]_vars PROVE Inv'
  OBVIOUS
<1> USE CapacityAssumption, LineBoundsAssumption DEF Inv
<1>1. ASSUME NEW w \in Writers, NEW n \in 0..MaxWrite, Write(w, n)
      PROVE  Inv'
  BY <1>1 DEF Write, TypeOK, Contiguous, CursorInv, NoRepeats,
              GapsAreEvictions, cap
<1>2. ASSUME NEW w \in Writers, AppendLine(w)
      PROVE  Inv'
  <2>1. cap \in Nat \ {0}
    BY DEF cap
  <2>2. left' \in [Writers -> 0..MaxWrite]
    BY <1>2 DEF AppendLine, TypeOK
  <2> DEFINE kept == IF Len(lines) >= cap THEN Tail(lines) ELSE lines
             d == IF Len(lines) >= cap THEN 1 ELSE 0
  <2>3. Len(lines) \in Nat /\ nextSeq \in Nat /\ overflow \in Nat /\ d \in Nat
    BY DEF TypeOK
  <2>4. /\ kept \in Seq(Nat)
        /\ Len(kept) = Len(lines) - d
        /\ \A i \in 1..Len(kept) : kept[i] = lines[i + d]
    BY <2>1, <2>3, HeadTailProperties DEF TypeOK
  <2>5. lines' = Append(kept, nextSeq) /\ overflow' = overflow + d
    BY <1>2, <2>3 DEF AppendLine
  <2>6. nextSeq' = nextSeq + 1 /\ UNCHANGED <<cursor, got>>
    BY <1>2 DEF AppendLine
  <2> HIDE DEF kept, d
  <2>7. /\ lines' \in Seq(Nat)
        /\ Len(lines') = Len(kept) + 1
        /\ \A i \in 1..Len(kept) : lines'[i] = kept[i]
        /\ lines'[Len(kept) + 1] = nextSeq
    BY <2>3, <2>4, <2>5, AppendProperties
  <2>8. \A i \in 1..Len(lines') : lines'[i] = overflow' + i
    <3> SUFFICES ASSUME NEW i \in 1..Len(lines') PROVE lines'[i] = overflow' + i
      OBVIOUS
    <3>1. CASE i \in 1..Len(kept)
      <4>1. i + d \in 1..Len(lines)
        BY <2>3, <2>4, <3>1
      <4>2. lines[i + d] = overflow + (i + d)
        BY <4>1 DEF Contiguous
      <4> QED
        BY <2>3, <2>4, <2>5, <2>7, <3>1, <4>2
    <3>2. CASE i = Len(kept) + 1
      <4>1. lines'[i] = nextSeq /\ nextSeq = overflow + Len(lines) + 1
        BY <2>7, <3>2 DEF Contiguous
      <4> QED
        BY <2>3, <2>4, <2>5, <3>2, <4>1
    <3> QED
      BY <2>3, <2>4, <2>7, <3>1, <3>2
  <2>9. TypeOK'
    BY <2>1, <2>2, <2>3, <2>4, <2>5, <2>6, <2>7 DEF TypeOK, cap, d
  <2>10. Contiguous'
    <3>1. cap' = cap
      BY DEF cap
    <3>2. nextSeq' = overflow' + Len(lines') + 1
      <4>1. nextSeq = overflow + Len(lines) + 1
        BY DEF Contiguous
      <4>2. Len(lines') = Len(lines) - d + 1
        BY <2>4, <2>7
      <4> QED
        BY <2>3, <2>5, <2>6, <4>1, <4>2
    <3>3. overflow' > 0 => Len(lines') = cap
      <4>1. CASE Len(lines) >= cap
        BY <2>1, <2>3, <2>4, <2>7, <4>1 DEF TypeOK, d
      <4>2. CASE ~(Len(lines) >= cap)
        BY <2>1, <2>3, <2>5, <4>2 DEF Contiguous, d
      <4> QED
        BY <4>1, <4>2
    <3> QED
      BY <2>8, <3>1, <3>2, <3>3 DEF Contiguous
  <2>11. CursorInv' /\ NoRepeats'
    BY <2>3, <2>6 DEF TypeOK, CursorInv, NoRepeats
  <2>12. GapsAreEvictions'
    <3> SUFFICES ASSUME NEW q \in Pollers, NEW n \in 1..cursor[q]
                 PROVE  \/ n <= overflow'
                        \/ \E i \in 1..Len(got[q]) : got[q][i] = n
      BY <2>6 DEF GapsAreEvictions
    <3>1. cursor[q] \in Nat
      BY DEF TypeOK
    <3>2. n <= overflow \/ \E i \in 1..Len(got[q]) : got[q][i] = n
      BY DEF GapsAreEvictions
    <3>3. n <= overflow => n <= overflow'
      BY <2>3, <2>5, <3>1
    <3> QED
      BY <3>2, <3>3
  <2> QED
    BY <2>9, <2>10, <2>11, <2>12
<1>3. ASSUME NEW p \in Pollers, Logs(p)
      PROVE  Inv'
  <2> DEFINE c == cursor[p]
             r == Since(c)
             m == IF c <= overflow THEN overflow ELSE c
  <2>1. c \in Nat /\ c < nextSeq
    BY DEF TypeOK, CursorInv
  <2>2. /\ r \in Seq(Nat)
        /\ Len(r) = nextSeq - 1 - m
        /\ \A i \in 1..Len(r) : r[i] = m + i
    BY <2>1, SinceReply
  <2>3. /\ got' = [got EXCEPT ![p] = got[p] \o r]
        /\ cursor' = [cursor EXCEPT ![p] = IF r = <<>> THEN c ELSE r[Len(r)]]
        /\ UNCHANGED <<lines, nextSeq, overflow, left>>
    BY <1>3 DEF Logs
  <2> HIDE DEF r
  <2>4. /\ nextSeq \in Nat \ {0} /\ overflow \in Nat /\ m \in Nat
        /\ m < nextSeq /\ Len(r) \in Nat
        /\ m >= c /\ m >= overflow /\ (m = c \/ m = overflow)
    BY <2>1, <2>2 DEF TypeOK, Contiguous
  <2> DEFINE g == got[p]
             h == g \o r
  <2> HIDE DEF m
  <2>5. /\ g \in Seq(Nat) /\ Len(g) \in Nat
        /\ h \in Seq(Nat)
        /\ Len(h) = Len(g) + Len(r)
        /\ \A i \in 1..Len(g) : h[i] = g[i]
        /\ \A k \in 1..Len(r) : h[Len(g) + k] = m + k
    <3>1. g \in Seq(Nat)
      BY DEF TypeOK
    <3> QED
      BY <2>2, <2>4, <3>1, Extend, LenProperties, ZenonT(30)
  <2>6. /\ got'[p] = h
        /\ \A q \in Pollers \ {p} : got'[q] = got[q] /\ cursor'[q] = cursor[q]
        /\ cursor'[p] = IF r = <<>> THEN c ELSE r[Len(r)]
    BY <2>3 DEF TypeOK
  <2> HIDE DEF h
  <2>7. cursor'[p] = IF Len(r) = 0 THEN c ELSE nextSeq - 1
    <3>1. r = <<>> <=> Len(r) = 0
      BY <2>2, EmptySeq
    <3>2. CASE Len(r) # 0
      <4>1. Len(r) \in 1..Len(r)
        BY <2>4, <3>2
      <4>2. r[Len(r)] = m + Len(r)
        BY <2>2, <4>1
      <4> QED
        BY <2>2, <2>4, <2>6, <3>1, <3>2, <4>2
    <3> QED
      BY <2>6, <3>1, <3>2
  <2>8. c <= cursor'[p] /\ cursor'[p] \in Nat /\ cursor'[p] < nextSeq
    BY <2>1, <2>4, <2>7
  <2>9. TypeOK'
    BY <2>3, <2>5, <2>8 DEF TypeOK, cap, h
  <2>10. Contiguous'
    BY <2>3 DEF Contiguous, cap
  (* an index of h is one of g or one of the reply *)
  <2>11. \A i \in 1..Len(h) :
           \/ i \in 1..Len(g)
           \/ \E k \in 1..Len(r) : i = Len(g) + k
    <3> SUFFICES ASSUME NEW i \in 1..Len(h), ~(i \in 1..Len(g))
                 PROVE  \E k \in 1..Len(r) : i = Len(g) + k
      OBVIOUS
    <3>1. i - Len(g) \in 1..Len(r) /\ i = Len(g) + (i - Len(g))
      BY <2>4, <2>5
    <3> QED
      BY <3>1
  <2>12. \A i \in 1..Len(g) : h[i] = g[i] /\ g[i] \in Nat /\ g[i] <= c
    BY <2>5, LenProperties DEF CursorInv
  <2>13. \A i \in 1..Len(h) : h[i] <= cursor'[p]
    <3> SUFFICES ASSUME NEW i \in 1..Len(h) PROVE h[i] <= cursor'[p]
      OBVIOUS
    <3>1. CASE i \in 1..Len(g)
      BY <2>1, <2>8, <2>12, <3>1
    <3>2. ASSUME NEW k \in 1..Len(r), i = Len(g) + k
          PROVE  h[i] <= cursor'[p]
      <4>1. h[i] = m + k
        BY <2>5, <3>2
      <4> QED
        BY <2>2, <2>4, <2>7, <4>1
    <3> QED
      BY <2>11, <3>1, <3>2
  <2>14. CursorInv'
    BY <2>3, <2>6, <2>8, <2>13 DEF CursorInv
  <2>15. \A i, j \in 1..Len(h) : i < j => h[i] < h[j]
    <3> SUFFICES ASSUME NEW i \in 1..Len(h), NEW j \in 1..Len(h), i < j
                 PROVE  h[i] < h[j]
      OBVIOUS
    <3>1. CASE j \in 1..Len(g)
      <4>1. i \in 1..Len(g)
        BY <2>5, <3>1
      <4> QED
        BY <2>12, <3>1, <4>1 DEF NoRepeats
    <3>2. ASSUME NEW k \in 1..Len(r), j = Len(g) + k
          PROVE  h[i] < h[j]
      <4>1. h[j] = m + k
        BY <2>5, <3>2
      <4>2. CASE i \in 1..Len(g)
        <5>1. h[i] \in Nat /\ h[i] <= c
          BY <2>12, <4>2
        <5> QED
          BY <2>1, <2>4, <4>1, <5>1
      <4>3. ASSUME NEW l \in 1..Len(r), i = Len(g) + l
            PROVE  h[i] < h[j]
        <5>1. h[i] = m + l
          BY <2>5, <4>3
        <5>2. l < k
          BY <2>4, <2>5, <3>2, <4>3
        <5> QED
          BY <2>4, <4>1, <5>1, <5>2
      <4> QED
        BY <2>11, <4>2, <4>3
    <3> QED
      BY <2>11, <3>1, <3>2
  <2>16. NoRepeats'
    BY <2>6, <2>15 DEF NoRepeats
  <2>17. \A n \in 1..cursor'[p] :
           n <= overflow \/ \E i \in 1..Len(h) : h[i] = n
    <3> SUFFICES ASSUME NEW n \in 1..cursor'[p], ~(n <= overflow)
                 PROVE  \E i \in 1..Len(h) : h[i] = n
      OBVIOUS
    <3>1. CASE n <= c
      <4>1. n \in 1..c
        BY <2>1, <2>8, <3>1
      <4>2. PICK i \in 1..Len(g) : g[i] = n
        BY <4>1 DEF GapsAreEvictions
      <4>3. i \in 1..Len(h)
        BY <2>4, <2>5
      <4> QED
        BY <2>12, <4>2, <4>3
    <3>2. CASE ~(n <= c)
      <4>1. n - m \in 1..Len(r) /\ m + (n - m) = n
        BY <2>1, <2>2, <2>4, <2>7, <2>8, <3>2
      <4>2. Len(g) + (n - m) \in 1..Len(h)
        BY <2>4, <2>5, <4>1
      <4>3. h[Len(g) + (n - m)] = n
        BY <2>5, <4>1
      <4> QED
        BY <4>2, <4>3
    <3> QED
      BY <3>1, <3>2
  <2>18. GapsAreEvictions'
    <3> SUFFICES ASSUME NEW q \in Pollers, NEW n \in 1..cursor'[q]
                 PROVE  n <= overflow \/ \E i \in 1..Len(got'[q]) : got'[q][i] = n
      BY <2>3, SMTT(30) DEF GapsAreEvictions
    <3>1. CASE q = p
      BY <2>6, <2>17, <3>1
    <3>2. CASE q # p
      BY <2>6, <3>2 DEF GapsAreEvictions
    <3> QED
      BY <3>1, <3>2
  <2> QED
    BY <2>9, <2>10, <2>14, <2>16, <2>18
<1>4. CASE UNCHANGED vars
  BY <1>4 DEF vars, TypeOK, Contiguous, CursorInv, NoRepeats,
              GapsAreEvictions, cap
<1> QED
  BY <1>1, <1>2, <1>3, <1>4 DEF Next

(* The invariant holds in every reachable state.                           *)
LEMMA Invariance == Spec => []Inv
  BY InitInv, StepInv, PTL DEF Spec

-----------------------------------------------------------------------------
(* The ring never exceeds its capacity and its fields keep their types.    *)
THEOREM TypeCorrect == Spec => []TypeOK
<1>1. Inv => TypeOK
  BY DEF Inv
<1> QED
  BY <1>1, Invariance, PTL

(* The ring holds the most recent lines without a hole.                    *)
THEOREM RingContiguous == Spec => []Contiguous
<1>1. Inv => Contiguous
  BY DEF Inv
<1> QED
  BY <1>1, Invariance, PTL

(* A front-end that follows its cursor receives no line twice and every    *)
(* line in order.                                                          *)
THEOREM PollsInOrder == Spec => []NoRepeats
<1>1. Inv => NoRepeats
  BY DEF Inv
<1> QED
  BY <1>1, Invariance, PTL

(* A front-end misses a line only by eviction, whatever the interleaving   *)
(* of writers and polls.                                                   *)
THEOREM OnlyEvictionLoses == Spec => []GapsAreEvictions
<1>1. Inv => GapsAreEvictions
  BY DEF Inv
<1> QED
  BY <1>1, Invariance, PTL
=============================================================================
