---------------------------- MODULE LogRingProofs ----------------------------
(***************************************************************************)
(* The ring keeps the end of what was logged, whatever its size, the       *)
(* length of the lines and the place where it wraps around.                *)
(*                                                                         *)
(* The step that has to be seen is a calculation: which offset holds the   *)
(* k-th of the last n bytes (Place), before and after a line is copied.    *)
(***************************************************************************)
EXTENDS LogRing, SequenceTheorems, TLAPS

RingOK ==
    /\ buf \in [Offsets -> Byte]
    /\ head \in Offsets
    /\ used \in 0..LogSize
    /\ answer \in Seq(Byte)

\* The offset of the k-th of the n bytes before the head h.
Place(h, n, k) == IF h >= n - k + 1 THEN h - n + k - 1 ELSE h - n + k - 1 + LogSize

LEMMA PlaceOfTail ==
    ASSUME NEW h \in Offsets, NEW n \in 0..LogSize, NEW k \in 1..n
    PROVE  Wrap(Wrap(h + LogSize - n) + k - 1) = Place(h, n, k) /\ Place(h, n, k) \in Offsets
BY LogAssumption DEF Wrap, Place, Offsets

\* Where a line of n bytes is copied to: from the head on, or to the beginning.
Within(i, h, n) == i >= h /\ i < h + n
Beyond(i, h, n) == i + LogSize < h + n

Smaller(a, b) == IF a <= b THEN a ELSE b

\* The k-th of the v bytes that are held once n are copied behind u of them is an old one
\* that no new one has replaced, or a new one.
LEMMA PlaceAfter ==
    ASSUME NEW h \in Offsets, NEW n \in 0..(LogSize - 1), NEW u \in 0..LogSize,
           NEW v, v = Smaller(u + n, LogSize), NEW k \in 1..v,
           NEW q, q = u + n - v + k, NEW i, i = Place(Wrap(h + n), v, k)
    PROVE  /\ q <= u => i = Place(h, u, q) /\ ~Within(i, h, n) /\ ~Beyond(i, h, n)
           /\ q > u => \/ Within(i, h, n) /\ i - h + 1 = q - u
                       \/ ~Within(i, h, n) /\ Beyond(i, h, n) /\ i + LogSize - h + 1 = q - u
<1>1. LogSize \in Nat \ {0} /\ h \in 0..(LogSize - 1) /\ u \in Nat /\ n \in Nat
  BY LogAssumption DEF Offsets
<1>2. v \in 0..LogSize /\ (v = u + n \/ (v = LogSize /\ u + n > LogSize)) /\ q \in Int
  BY <1>1 DEF Smaller
<1>3. \/ i = h + n - v + k - 1 /\ 0 <= i
      \/ i = h + n - v + k - 1 + LogSize /\ h + n - v + k - 1 < 0
      \/ i = h + n - v + k - 1 - LogSize /\ 0 <= i
  <2>1. CASE h + n < LogSize
    BY <1>1, <1>2, <2>1 DEF Place, Wrap
  <2>2. CASE h + n >= LogSize
    BY <1>1, <1>2, <2>2 DEF Place, Wrap
  <2> QED BY <1>1, <2>1, <2>2
<1>4. i \in 0..(LogSize - 1)
  <2>1. CASE h + n < LogSize
    BY <1>1, <1>2, <2>1 DEF Place, Wrap
  <2>2. CASE h + n >= LogSize
    BY <1>1, <1>2, <2>2 DEF Place, Wrap
  <2> QED BY <1>1, <2>1, <2>2
<1>5. CASE q <= u
  <2>1. i = Place(h, u, q)
    BY <1>1, <1>2, <1>3, <1>4, <1>5 DEF Place
  <2>2. ~Within(i, h, n) /\ ~Beyond(i, h, n)
    BY <1>1, <1>2, <1>3, <1>4, <1>5 DEF Within, Beyond
  <2> QED BY <1>1, <1>2, <1>5, <2>1, <2>2
<1>6. CASE q > u
  BY <1>1, <1>2, <1>3, <1>4, <1>6 DEF Within, Beyond
<1> QED BY <1>1, <1>2, <1>5, <1>6

LEMMA TailBytesSeq ==
    ASSUME RingOK, NEW n \in 0..LogSize
    PROVE  /\ TailBytes(n) \in Seq(Byte) /\ Len(TailBytes(n)) = n
           /\ \A k \in 1..n : TailBytes(n)[k] = buf[Place(head, n, k)]
<1>1. \A k \in 1..n : TailBytes(n)[k] = buf[Place(head, n, k)] /\ TailBytes(n)[k] \in Byte
  BY PlaceOfTail DEF RingOK, TailBytes, Start
<1>2. TailBytes(n) \in [1..n -> Byte]
  BY <1>1 DEF TailBytes
<1> QED BY <1>1, <1>2

LEMMA LineSeq ==
    ASSUME NEW line \in LogLines
    PROVE  line \in Seq(Byte) /\ Len(line) \in Nat /\ \A i \in 1..Len(line) : line[i] \in Byte
<1>1. PICK n \in 0..MaxLine : line \in [1..n -> Byte]
  BY DEF LogLines
<1>2. n \in Nat
  BY LogAssumption
<1>3. line \in Seq(Byte)
  BY <1>1, <1>2, SeqDef
<1> QED BY <1>3, LenProperties, ElementOfSeq

\* The end of a sequence, element by element.
LEMMA LastOfSeq ==
    ASSUME NEW s \in Seq(Byte), NEW n \in Nat
    PROVE  /\ AsTail!LastOf(s, n) \in Seq(Byte)
           /\ Len(AsTail!LastOf(s, n)) = Smaller(Len(s), n)
           /\ \A k \in 1..Smaller(Len(s), n) : AsTail!LastOf(s, n)[k] = s[Len(s) - Smaller(Len(s), n) + k]
<1>1. CASE Len(s) <= n
  BY <1>1, LenProperties DEF AsTail!LastOf, Smaller
<1>2. CASE Len(s) > n
  <2>1. AsTail!LastOf(s, n) = SubSeq(s, Len(s) - n + 1, Len(s))
    BY <1>2 DEF AsTail!LastOf
  <2>2. /\ SubSeq(s, Len(s) - n + 1, Len(s)) \in Seq(Byte)
        /\ Len(SubSeq(s, Len(s) - n + 1, Len(s))) = n
        /\ \A k \in 1..n : SubSeq(s, Len(s) - n + 1, Len(s))[k] = s[Len(s) - n + k]
    BY <1>2
  <2>3. Smaller(Len(s), n) = n
    BY <1>2 DEF Smaller
  <2> QED BY <2>1, <2>2, <2>3
<1> QED BY <1>1, <1>2, LenProperties

LEMMA SameSeq ==
    ASSUME NEW s \in Seq(Byte), NEW t \in Seq(Byte), Len(s) = Len(t),
           \A k \in 1..Len(s) : s[k] = t[k]
    PROVE  s = t
BY SeqEqual

-----------------------------------------------------------------------------
(***************************************************************************)
(* The types.                                                              *)
(***************************************************************************)
LEMMA RingOKStep == RingOK /\ [RingNext]_ringVars => RingOK'
<1> SUFFICES ASSUME RingOK, [RingNext]_ringVars PROVE RingOK'
  OBVIOUS
<1>1. ASSUME NEW line \in LogLines, LogWrite(line) PROVE RingOK'
  <2>1. Copied(line) \in [Offsets -> Byte]
    <3> SUFFICES ASSUME NEW i \in Offsets PROVE Copied(line)[i] \in Byte
      BY DEF Copied
    <3>1. CASE i >= head /\ i < head + Len(line)
      BY <3>1, LineSeq, LogAssumption DEF Copied, RingOK, Offsets
    <3>2. CASE ~(i >= head /\ i < head + Len(line)) /\ i + LogSize < head + Len(line)
      BY <3>2, LineSeq, LogAssumption DEF Copied, RingOK, Offsets
    <3> QED BY <3>1, <3>2 DEF Copied, RingOK
  <2>2. Wrap(head + Len(line)) \in Offsets /\ UsedAfter(line) \in 0..LogSize
    BY <1>1, LineSeq, LogAssumption DEF LogWrite, Wrap, UsedAfter, RingOK, Offsets
  <2> QED BY <1>1, <2>1, <2>2 DEF LogWrite, RingOK
<1>2. ASSUME NEW line \in LogLines, LogWriteLarge(line) PROVE RingOK'
  <2>1. ASSUME NEW i \in Offsets PROVE line[Len(line) - LogSize + i + 1] \in Byte
    BY <1>2, LineSeq, LogAssumption DEF LogWriteLarge, Offsets
  <2>2. buf' \in [Offsets -> Byte]
    BY <1>2, <2>1 DEF LogWriteLarge
  <2>3. head' \in Offsets /\ used' \in 0..LogSize
    BY <1>2, LogAssumption DEF LogWriteLarge, Offsets
  <2> QED BY <1>2, <2>2, <2>3 DEF LogWriteLarge, RingOK
<1>3. ASSUME NEW cap \in 0..LogSize, LogRead(cap) PROVE RingOK'
  <2>1. (IF used < cap THEN used ELSE cap) \in 0..LogSize
    BY LogAssumption DEF RingOK
  <2> QED BY <1>3, <2>1, TailBytesSeq DEF LogRead, RingOK
<1>4. CASE LogReadNothing
  BY <1>4 DEF LogReadNothing, RingOK
<1>5. CASE LogClear
  BY <1>5, LogAssumption DEF LogClear, RingOK, Offsets
<1>6. CASE UNCHANGED ringVars
  BY <1>6 DEF ringVars, RingOK
<1> QED BY <1>1, <1>2, <1>3, <1>4, <1>5, <1>6 DEF RingNext

LEMMA RingOKInit == RingInit => RingOK
BY LogAssumption DEF RingInit, RingOK, Offsets

\* Offsets and numbers of bytes stay where they belong.
THEOREM RingTyped == RingSpec => []RingOK
BY RingOKInit, RingOKStep, PTL DEF RingSpec

-----------------------------------------------------------------------------
(***************************************************************************)
(* The refinement, operation by operation.                                 *)
(***************************************************************************)
LEMMA LogRefines ==
    ASSUME RingOK, RingOK', NEW line \in LogLines, LogWrite(line) \/ LogWriteLarge(line)
    PROVE  AsTail!Log(line)
<1> DEFINE T == TailBytes(used)
           N == Len(line)
           all == T \o line
           kept == AsTail!LastOf(all, LogSize)
<1> HIDE DEF T, N, all, kept
<1>1. /\ used \in 0..LogSize /\ used' \in 0..LogSize /\ head \in Offsets /\ head' \in Offsets
      /\ LogSize \in Nat \ {0} /\ N \in Nat /\ line \in Seq(Byte)
  BY LogAssumption, LineSeq DEF RingOK, N
<1>2. /\ T \in Seq(Byte) /\ Len(T) = used
      /\ \A k \in 1..used : T[k] = buf[Place(head, used, k)]
  BY <1>1, TailBytesSeq DEF T
<1>3. /\ T' \in Seq(Byte) /\ Len(T') = used'
      /\ \A k \in 1..used' : T'[k] = buf'[Place(head', used', k)]
  <2>1. \A k \in 1..used' : T'[k] = buf'[Place(head', used', k)] /\ Place(head', used', k) \in Offsets
    BY <1>1, PlaceOfTail DEF T, TailBytes, Start
  <2>2. T' \in [1..used' -> Byte]
    BY <2>1 DEF T, TailBytes, RingOK
  <2> QED BY <1>1, <2>1, <2>2
<1>4. /\ all \in Seq(Byte) /\ Len(all) = used + N
      /\ \A q \in 1..(used + N) : all[q] = IF q <= used THEN buf[Place(head, used, q)] ELSE line[q - used]
  <2>1. /\ all \in Seq(Byte) /\ Len(all) = used + N
        /\ \A q \in 1..(used + N) : all[q] = IF q <= used THEN T[q] ELSE line[q - used]
    BY <1>1, <1>2, ConcatProperties DEF all, N
  <2> QED BY <1>1, <1>2, <2>1
<1>5. used' = IF used + N <= LogSize THEN used + N ELSE LogSize
  BY <1>1 DEF LogWrite, LogWriteLarge, UsedAfter, N
<1>6. /\ kept \in Seq(Byte) /\ Len(kept) = used'
      /\ \A k \in 1..used' : kept[k] = all[used + N - used' + k]
  <2>1. Smaller(Len(all), LogSize) = used'
    BY <1>1, <1>4, <1>5 DEF Smaller
  <2>2. LogSize \in Nat
    BY <1>1
  <2>3. /\ kept \in Seq(Byte) /\ Len(kept) = Smaller(Len(all), LogSize)
        /\ \A k \in 1..Smaller(Len(all), LogSize) : kept[k] = all[Len(all) - Smaller(Len(all), LogSize) + k]
    BY <1>4, <2>2, LastOfSeq DEF kept
  <2>4. Len(all) - Smaller(Len(all), LogSize) = used + N - used'
    BY <1>1, <1>4, <2>1
  <2> QED BY <2>1, <2>3, <2>4
<1>7. ASSUME NEW k \in 1..used'
      PROVE  T'[k] = kept[k]
  <2> DEFINE q == used + N - used' + k
             i == Place(head', used', k)
  <2>1. q \in 1..(used + N) /\ kept[k] = IF q <= used THEN buf[Place(head, used, q)] ELSE line[q - used]
    BY <1>1, <1>4, <1>5, <1>6
  <2>2. T'[k] = buf'[i] /\ i \in Offsets
    BY <1>1, <1>3 DEF Place, Offsets
  <2>3. CASE LogWrite(line)
    <3>1. /\ head' = (IF head + N < LogSize THEN head + N ELSE head + N - LogSize)
          /\ N < LogSize
          /\ buf'[i] = IF i >= head /\ i < head + N THEN line[i - head + 1]
                       ELSE IF i + LogSize < head + N THEN line[i + LogSize - head + 1]
                       ELSE buf[i]
      <4>1. buf' = Copied(line) /\ head' = Wrap(head + N) /\ N < LogSize
        BY <2>3, <1>1 DEF LogWrite, LogWriteLarge, N
      <4>2. Copied(line)[i] = IF i >= head /\ i < head + N THEN line[i - head + 1]
                              ELSE IF i + LogSize < head + N THEN line[i + LogSize - head + 1]
                              ELSE buf[i]
        BY <2>2 DEF Copied, N
      <4>3. Wrap(head + N) = IF head + N < LogSize THEN head + N ELSE head + N - LogSize
        BY <1>1 DEF Wrap, Offsets
      <4> HIDE DEF i
      <4> QED BY <4>1, <4>2, <4>3, Zenon
    <3>2. /\ N \in 0..(LogSize - 1) /\ used' = Smaller(used + N, LogSize)
          /\ head' = Wrap(head + N)
      BY <1>1, <1>5, <3>1 DEF Smaller, Wrap, Offsets
    <3>3. /\ q <= used => i = Place(head, used, q) /\ ~Within(i, head, N) /\ ~Beyond(i, head, N)
          /\ q > used => \/ Within(i, head, N) /\ i - head + 1 = q - used
                         \/ ~Within(i, head, N) /\ Beyond(i, head, N) /\ i + LogSize - head + 1 = q - used
      BY <1>1, <3>2, PlaceAfter
    <3> HIDE DEF i, q
    <3>4. CASE q <= used
      BY <2>1, <2>2, <3>1, <3>3, <3>4 DEF Within, Beyond
    <3>5. CASE q > used
      <4>1. buf'[i] = line[q - used]
        BY <3>1, <3>3, <3>5 DEF Within, Beyond
      <4>2. ~(q <= used)
        BY <1>1, <2>1, <3>5
      <4> QED BY <2>1, <2>2, <4>1, <4>2
    <3>6. q <= used \/ q > used
      BY <1>1, <2>1
    <3> QED BY <3>4, <3>5, <3>6
  <2>4. CASE LogWriteLarge(line)
    <3>1. N >= LogSize /\ head' = 0 /\ used' = LogSize /\ buf'[i] = line[N - LogSize + i + 1]
      BY <2>2, <2>4 DEF LogWriteLarge, N
    <3>2. i = k - 1 /\ q > used /\ N - LogSize + i + 1 = q - used
      BY <1>1, <3>1 DEF Place
    <3> QED BY <1>1, <2>1, <2>2, <3>1, <3>2
  <2> QED BY <2>3, <2>4
<1>8. T' = kept
  BY <1>3, <1>6, <1>7, SameSeq
<1>9. UNCHANGED answer
  BY DEF LogWrite, LogWriteLarge
<1> QED BY <1>8, <1>9 DEF AsTail!Log, T, all, kept

LEMMA ReadRefines ==
    ASSUME RingOK, NEW cap \in 0..LogSize, LogRead(cap)
    PROVE  AsTail!Read(cap)
<1> DEFINE T == TailBytes(used)
           take == IF used < cap THEN used ELSE cap
           kept == AsTail!LastOf(T, cap)
<1>1. used \in 0..LogSize /\ head \in Offsets /\ LogSize \in Nat \ {0} /\ cap \in Nat /\ take \in 0..LogSize
  BY LogAssumption DEF RingOK
<1>2. /\ T \in Seq(Byte) /\ Len(T) = used
      /\ \A k \in 1..used : T[k] = buf[Place(head, used, k)]
  BY <1>1, TailBytesSeq
<1>3. /\ TailBytes(take) \in Seq(Byte) /\ Len(TailBytes(take)) = take
      /\ \A k \in 1..take : TailBytes(take)[k] = buf[Place(head, take, k)]
  BY <1>1, TailBytesSeq
<1>4. kept \in Seq(Byte) /\ Len(kept) = take /\ \A k \in 1..take : kept[k] = T[used - take + k]
  <2>1. Smaller(Len(T), cap) = take
    BY <1>1, <1>2 DEF Smaller
  <2> HIDE DEF T, take
  <2> QED BY <1>1, <1>2, <2>1, LastOfSeq DEF kept
<1>5. ASSUME NEW k \in 1..take
      PROVE  TailBytes(take)[k] = kept[k]
  <2>1. used - take + k \in 1..used /\ Place(head, used, used - take + k) = Place(head, take, k)
    BY <1>1 DEF Place, Offsets
  <2> QED BY <1>2, <1>3, <1>4, <2>1
<1>6. TailBytes(take) = kept
  BY <1>3, <1>4, <1>5, SameSeq
<1>7. answer' = kept /\ UNCHANGED T
  BY <1>6 DEF LogRead, TailBytes, Wrap, Start
<1> QED BY <1>7 DEF AsTail!Read

\* A reader that does not get the lock is answered like one without room.
LEMMA ReadNothingRefines ==
    ASSUME RingOK, LogReadNothing
    PROVE  AsTail!Read(0)
<1>1. TailBytes(used) \in Seq(Byte)
  BY TailBytesSeq DEF RingOK
<1>2. AsTail!LastOf(TailBytes(used), 0) \in Seq(Byte) /\ Len(AsTail!LastOf(TailBytes(used), 0)) = 0
  <2>1. Smaller(Len(TailBytes(used)), 0) = 0
    BY <1>1, LenProperties DEF Smaller
  <2> QED BY <1>1, <2>1, LastOfSeq
<1>3. AsTail!LastOf(TailBytes(used), 0) = <<>>
  BY <1>2, SameSeq, EmptySeq
<1>4. answer' = <<>> /\ UNCHANGED TailBytes(used)
  BY DEF LogReadNothing, TailBytes, Wrap, Start
<1> QED BY <1>3, <1>4 DEF AsTail!Read

LEMMA ClearRefines ==
    ASSUME RingOK, RingOK', LogClear
    PROVE  AsTail!Clear
<1>1. TailBytes(used)' = <<>>
  BY DEF LogClear, TailBytes
<1> QED BY <1>1 DEF LogClear, AsTail!Clear

\* The ring implements LogTail: its readers are given the last bytes logged, for every
\* size of the buffer and every length of a line.
THEOREM KeepsTailAlways == RingSpec => KeepsTail
<1>1. RingInit => AsTail!TailInit
  BY DEF RingInit, AsTail!TailInit, TailBytes
<1>2. RingOK /\ RingOK' /\ [RingNext]_ringVars => [AsTail!TailNext]_<<TailBytes(used), answer>>
  <2> SUFFICES ASSUME RingOK, RingOK', [RingNext]_ringVars
               PROVE  AsTail!TailNext \/ UNCHANGED <<TailBytes(used), answer>>
    OBVIOUS
  <2>1. ASSUME NEW line \in LogLines, LogWrite(line) \/ LogWriteLarge(line) PROVE AsTail!TailNext
    BY <2>1, LogRefines DEF AsTail!TailNext
  <2>2. ASSUME NEW cap \in 0..LogSize, LogRead(cap) PROVE AsTail!TailNext
    BY <2>2, ReadRefines DEF AsTail!TailNext
  <2>3. CASE LogReadNothing
    BY <2>3, ReadNothingRefines, LogAssumption DEF AsTail!TailNext
  <2>4. CASE LogClear
    BY <2>4, ClearRefines DEF AsTail!TailNext
  <2>5. CASE UNCHANGED ringVars
    BY <2>5 DEF ringVars, TailBytes, Wrap, Start
  <2> QED BY <2>1, <2>2, <2>3, <2>4, <2>5 DEF RingNext
<1> QED BY <1>1, <1>2, RingTyped, PTL DEF RingSpec, KeepsTail, AsTail!TailSpec
=============================================================================
