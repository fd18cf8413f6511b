--------------------------- MODULE EventFileProofs ---------------------------
(***************************************************************************)
(* The event file implements the promised log, for any rows, any cutoffs   *)
(* and any cap.                                                            *)
(*                                                                         *)
(* A rewrite replaces the file by the temporary file in one step, so what  *)
(* must be known at that step is what the temporary file holds: after every *)
(* line read it holds exactly the lines kept so far (Copying).             *)
(***************************************************************************)
EXTENDS EventFile, TLAPS, FiniteSetTheorems

Typed ==
    /\ file \in Seq(Row) /\ tmp \in Seq(Row)
    /\ count \in Nat
    /\ op \in [what : Rewrites \cup {"none", "append"}, keep : SUBSET Nat, next : Nat,
               row : Row \cup {NoRow}]
    /\ op.what \in {"append", "cap"} => op.row \in Row

\* The lines that are kept are those of an operation the log allows.
Reasoned ==
    /\ op.what = "cap" => Len(file) > Cap /\ op.keep = Log!NewestHalf(file)
    /\ op.what = "age" => \E c \in Cutoffs : op.keep = Log!Since(file, c)
    /\ op.what = "worker" => \E r \in Row : r.worker # 0 /\ op.keep = Log!NotOf(file, r.worker)
    /\ op.what = "one" => \E r \in Row : op.keep = Log!OtherThan(file, r)

ReadSoFar == {i \in op.keep : i < op.next}

Copied ==
    op.what \in Rewrites =>
        /\ op.keep \subseteq DOMAIN file
        /\ op.next \in 1..(Len(file) + 1)
        /\ tmp = Log!Picked(file, ReadSoFar)

Copying == Typed /\ Reasoned /\ Copied

-----------------------------------------------------------------------------
(* Picking lines from a log, and one more of them.  *)

\* The lines picked from a log, as a function.
LEMMA PickedForm ==
    ASSUME NEW log, NEW S
    PROVE  Log!Picked(log, S) =
             [k \in 1..Cardinality(S) |->
                 log[CHOOSE i \in S : Cardinality({j \in S : j <= i}) = k]]
BY Zenon DEF Log!Picked, Log!Cardinality, Cardinality

\* Picking no lines gives the empty log.
LEMMA PickedNone == ASSUME NEW log PROVE Log!Picked(log, {}) = <<>>
<1>1. 1..Cardinality({}) = {}
  BY FS_EmptySet
<1> DEFINE pick(k) == log[CHOOSE i \in {} : Cardinality({j \in {} : j <= i}) = k]
<1>2. [k \in {} |-> pick(k)] = <<>>
  <2> HIDE DEF pick
  <2> QED OBVIOUS
<1> QED BY <1>1, <1>2, PickedForm, Zenon

\* Picking one more line, after all those picked so far, appends it.
LEMMA PickedOneMore ==
    ASSUME NEW log, NEW K \in SUBSET Nat, IsFiniteSet(K), NEW n \in Nat, \A k \in K : k < n
    PROVE  Log!Picked(log, K \cup {n}) = Append(Log!Picked(log, K), log[n])
<1> DEFINE upTo(S, i) == Cardinality({j \in S : j <= i})
           size == Cardinality(K)
           both == K \cup {n}
<1>1. size \in Nat /\ Cardinality(both) = size + 1 /\ IsFiniteSet(both)
  BY FS_CardinalityType, FS_AddElement
<1>2. upTo(both, n) = size + 1
  <2>1. \A j \in both : j <= n
    OBVIOUS
  <2>2. {j \in both : j <= n} = both
    <3> HIDE DEF both
    <3> QED BY <2>1
  <2> QED BY <1>1, <2>2
<1>3. ASSUME NEW i \in K PROVE upTo(both, i) = upTo(K, i) /\ upTo(K, i) <= size /\ upTo(K, i) \in Nat
  <2>1. {j \in both : j <= i} = {j \in K : j <= i}
    OBVIOUS
  <2>2. {j \in K : j <= i} \in SUBSET K
    OBVIOUS
  <2>3. IsFiniteSet({j \in K : j <= i}) /\ Cardinality({j \in K : j <= i}) <= size
    BY <2>2, FS_Subset
  <2> QED BY <2>1, <2>3, FS_CardinalityType
<1> DEFINE pick(S, k) == log[CHOOSE i \in S : upTo(S, i) = k]
           old == [k \in 1..size |-> pick(K, k)]
           new == [k \in 1..(size + 1) |-> pick(both, k)]
<1>4. ASSUME NEW k \in 1..size PROVE pick(both, k) = pick(K, k)
  <2> DEFINE rank(S, i) == upTo(S, i) = k
  <2>1. ~rank(both, n) /\ \A i \in K : rank(both, i) <=> rank(K, i)
    <3> HIDE DEF upTo
    <3> QED BY <1>1, <1>2, <1>3
  <2>2. \A i : (i \in both /\ rank(both, i)) <=> (i \in K /\ rank(K, i))
    <3> HIDE DEF rank
    <3> QED BY <2>1
  <2>3. (CHOOSE i : i \in both /\ rank(both, i)) = (CHOOSE i : i \in K /\ rank(K, i))
    <3> HIDE DEF rank, both
    <3> QED BY <2>2
  <2>4. (CHOOSE i \in both : upTo(both, i) = k) = (CHOOSE i \in K : upTo(K, i) = k)
    BY <2>3
  <2> QED BY <2>4
<1>5. pick(both, size + 1) = log[n]
  <2>1. \A i \in both : upTo(both, i) = size + 1 <=> i = n
    <3> HIDE DEF upTo
    <3> QED BY <1>1, <1>2, <1>3
  <2>2. (CHOOSE i \in both : upTo(both, i) = size + 1) = n
    <3> HIDE DEF upTo
    <3> QED BY <2>1
  <2> QED BY <2>2
<1>6. old \in Seq({pick(K, k) : k \in 1..size} \cup {log[n]}) /\ Len(old) = size
  <2> HIDE DEF pick
  <2> QED BY <1>1
<1>7. new = Append(old, log[n])
  <2> HIDE DEF pick, both
  <2>1. \A k \in 1..(size + 1) : new[k] = IF k = size + 1 THEN log[n] ELSE old[k]
    BY <1>1, <1>4, <1>5
  <2>2. Append(old, log[n]) = [k \in 1..(size + 1) |-> IF k = size + 1 THEN log[n] ELSE old[k]]
    <3> HIDE DEF old
    <3> QED BY <1>1, <1>6
  <2> QED BY <2>1, <2>2, <1>1
<1>8. Log!Picked(log, K) = old /\ Log!Picked(log, both) = new
  BY <1>1, PickedForm, Zenon
<1> QED BY <1>7, <1>8

-----------------------------------------------------------------------------
(* The invariant.  *)

\* An empty log is not being rewritten.
LEMMA InitCopying == Init => Copying
BY DEF Init, Copying, Typed, Reasoned, Copied, Idle, Rewrites

\* The empty log.
LEMMA NoLines == <<>> \in Seq(Row) /\ Len(<<>>) = 0
OBVIOUS

\* The positions of the lines are numbers.
LEMMA LinesAreNat == ASSUME Typed PROVE DOMAIN file = 1..Len(file) /\ Len(file) \in Nat
BY DEF Typed

\* A recount gives a number, also one that fails.
LEMMA RecountIsNat == ASSUME NEW log \in Seq(Row), Recount(log) PROVE count' \in Nat
<1>1. Len(log) \in Nat
  OBVIOUS
<1> QED BY <1>1 DEF Recount

\* A rewrite begins with nothing read and nothing kept.
LEMMA BeginCopies ==
    ASSUME Typed, NEW what \in Rewrites, NEW keep, keep \subseteq DOMAIN file,
           NEW row \in Row \cup {NoRow}, what = "cap" => row \in Row, Begin(what, keep, row)
    PROVE  Typed' /\ Copied'
<1>1. op' = [what |-> what, keep |-> keep, next |-> 1, row |-> row] /\ tmp' = <<>> /\ file' = file
  BY DEF Begin
<1>2. keep \in SUBSET Nat
  BY LinesAreNat
<1>3. Typed'
  BY <1>1, <1>2 DEF Begin, Typed, Rewrites
<1>4. ReadSoFar' = {}
  BY <1>1, LinesAreNat DEF ReadSoFar
<1>5. tmp' = Log!Picked(file, ReadSoFar)'
  <2>1. Log!Picked(file', ReadSoFar') = <<>>
    BY <1>4, PickedNone, Zenon
  <2> QED BY <2>1, <1>1
<1> QED BY <1>1, <1>3, <1>5, LinesAreNat DEF Copied

\* A line read is kept or left out as it should be.
LEMMA CopyLineCopies == ASSUME Copying, CopyLine PROVE Copying'
<1>1. /\ op.what \in Rewrites /\ op.next \in 1..Len(file) /\ op.keep \subseteq 1..Len(file)
      /\ op' = [op EXCEPT !.next = op.next + 1]
      /\ op'.what = op.what /\ op'.keep = op.keep /\ op'.next = op.next + 1 /\ op'.row = op.row
      /\ tmp' = IF op.next \in op.keep THEN Append(tmp, file[op.next]) ELSE tmp
      /\ file' = file /\ Len(file) \in Nat
  BY LinesAreNat DEF Copying, Copied, Typed, CopyLine
<1>2. Typed'
  <2>1. op.next \in 1..Len(file) => file[op.next] \in Row
    BY DEF Copying, Typed
  <2>2. tmp' \in Seq(Row)
    BY <1>1, <2>1 DEF Copying, Typed
  <2>3. op' \in [what : Rewrites \cup {"none", "append"}, keep : SUBSET Nat, next : Nat,
                  row : Row \cup {NoRow}]
    <3>1. op' = [op EXCEPT !.next = op.next + 1] /\ op.next + 1 \in Nat
      BY <1>1
    <3>2. op \in [what : Rewrites \cup {"none", "append"}, keep : SUBSET Nat, next : Nat,
                  row : Row \cup {NoRow}]
      BY DEF Copying, Typed
    <3> QED BY <3>1, <3>2
  <2>4. file' = file /\ count' = count
    BY DEF CopyLine
  <2> QED BY <1>1, <2>2, <2>3, <2>4 DEF Copying, Typed
<1>3. Reasoned'
  BY <1>1 DEF Copying, Reasoned, Log!NewestHalf, Log!Since, Log!NotOf, Log!OtherThan
<1>4. tmp' = Log!Picked(file, ReadSoFar)'
  <2>1. tmp = Log!Picked(file, ReadSoFar)
    BY <1>1 DEF Copying, Copied
  <2>2. CASE op.next \in op.keep
    <3>1. ReadSoFar' = ReadSoFar \cup {op.next}
      BY <1>1, <2>2 DEF ReadSoFar
    <3>2. ReadSoFar \in SUBSET Nat /\ \A k \in ReadSoFar : k < op.next
      BY <1>1 DEF ReadSoFar
    <3>3. IsFiniteSet(ReadSoFar)
      <4>1. ReadSoFar \in SUBSET (1..Len(file))
        BY <1>1 DEF ReadSoFar
      <4>2. IsFiniteSet(1..Len(file))
        <5>1. 1 \in Int /\ Len(file) \in Int
          BY <1>1
        <5> QED BY <5>1, FS_Interval, Zenon
      <4> QED BY <4>1, <4>2, FS_Subset
    <3>4. op.next \in Nat
      BY <1>1
    <3>5. Log!Picked(file, ReadSoFar \cup {op.next}) = Append(tmp, file[op.next])
      BY <3>2, <3>3, <3>4, <2>1, PickedOneMore, Zenon
    <3>6. tmp' = Append(tmp, file[op.next])
      BY <1>1, <2>2
    <3> QED BY <3>1, <3>5, <3>6, <1>1, Zenon
  <2>3. CASE op.next \notin op.keep
    <3>1. ReadSoFar' = ReadSoFar
      BY <1>1, <2>3 DEF ReadSoFar
    <3>2. tmp' = tmp
      BY <1>1, <2>3
    <3> QED BY <2>1, <3>1, <3>2, <1>1, Zenon
  <2> QED BY <2>2, <2>3
<1>5. Copied'
  BY <1>1, <1>4, LinesAreNat DEF Copying, Copied
<1> QED BY <1>2, <1>3, <1>5 DEF Copying

\* At the end of the file the temporary file holds exactly the lines to keep.
LEMMA CopiedAllIsPicked ==
    ASSUME Copying, CopiedAll
    PROVE  tmp = Log!Picked(file, op.keep)
<1>1. op.what \in Rewrites /\ op.next > Len(file) /\ op.keep \subseteq 1..Len(file) /\ Len(file) \in Nat
  BY LinesAreNat DEF Copying, Copied, CopiedAll
<1>2. ReadSoFar = op.keep
  BY <1>1, LinesAreNat DEF ReadSoFar, Copying, Typed
<1> QED BY <1>1, <1>2 DEF Copying, Copied

\* After a rewrite nothing is under way, or the append it was made for.
LEMMA AfterRewriteRests ==
    ASSUME Typed, op.what \in Rewrites, AfterRewrite, file' \in Seq(Row), tmp' = <<>>, count' \in Nat
    PROVE  Copying'
<1>1. op' = Idle \/ (op' = Appending(op.row) /\ op.row \in Row)
  BY DEF AfterRewrite, Typed
<1>2. Appending(op.row) = [what |-> "append", keep |-> {}, next |-> 1, row |-> op.row]
  BY DEF Appending
<1> DEFINE Resting == [what : {"none", "append"}, keep : {{}}, next : {1}, row : Row \cup {NoRow}]
<1>3. op' \in Resting /\ (op'.what = "append" => op'.row \in Row)
  <2>1. CASE op' = Idle
    BY <2>1 DEF Idle
  <2>2. CASE op' = Appending(op.row) /\ op.row \in Row
    BY <2>2, <1>2
  <2> QED BY <1>1, <2>1, <2>2
<1>4. op'.what \in {"none", "append"}
  BY <1>3
<1>5. Typed'
  <2>1. op' \in [what : Rewrites \cup {"none", "append"}, keep : SUBSET Nat, next : Nat,
                  row : Row \cup {NoRow}]
    BY <1>3 DEF Rewrites
  <2> QED BY <1>3, <1>4, <2>1 DEF Typed
<1>6. Reasoned' /\ Copied'
  BY <1>4 DEF Reasoned, Copied, Rewrites
<1> QED BY <1>5, <1>6 DEF Copying

\* Every step keeps the temporary file equal to the lines kept so far.
LEMMA NextCopying == Copying /\ [Next]_vars => Copying'
<1> SUFFICES ASSUME Copying, [Next]_vars PROVE Copying'
  OBVIOUS
<1> USE DEF Rewrites
<1>1. ASSUME NEW r \in Row, AppendBegin(r) PROVE Copying'
  <2>1. CASE Len(file) > Cap /\ Begin("cap", Log!NewestHalf(file), r)
    <3>1. Log!NewestHalf(file) \subseteq DOMAIN file
      BY DEF Log!NewestHalf
    <3>2. Typed' /\ Copied'
      BY <2>1, <3>1, BeginCopies DEF Copying
    <3> QED BY <2>1, <3>2 DEF Copying, Reasoned, Begin, Log!NewestHalf
  <2>2. CASE op' = Appending(r) /\ UNCHANGED <<file, tmp, count, trusted>>
    BY <2>2 DEF Copying, Typed, Reasoned, Copied, Appending, Idle
  <2> QED BY <1>1, <2>1, <2>2 DEF AppendBegin
<1>2. ASSUME NEW r \in Row, DeleteRowBegin(r) PROVE Copying'
  <2>1. Log!OtherThan(file, r) \subseteq DOMAIN file /\ Begin("one", Log!OtherThan(file, r), NoRow)
    BY <1>2 DEF Log!OtherThan, DeleteRowBegin
  <2>2. Typed' /\ Copied'
    BY <2>1, BeginCopies DEF Copying
  <2> QED BY <2>1, <2>2 DEF Copying, Reasoned, Begin, Log!OtherThan
<1>3. ASSUME NEW r \in Row, ForgetWorkerBegin(r.worker) PROVE Copying'
  <2>1. /\ Log!NotOf(file, r.worker) \subseteq DOMAIN file /\ r.worker # 0
        /\ Begin("worker", Log!NotOf(file, r.worker), NoRow)
    BY <1>3 DEF Log!NotOf, ForgetWorkerBegin
  <2>2. Typed' /\ Copied'
    BY <2>1, BeginCopies DEF Copying
  <2> QED BY <2>1, <2>2 DEF Copying, Reasoned, Begin, Log!NotOf
<1>4. ASSUME NEW c \in Cutoffs, ExpireBegin(c) PROVE Copying'
  <2>1. CASE Remove /\ UNCHANGED <<tmp, op>> /\ op = Idle
    <3>1. (file' = <<>> \/ file' = file) /\ count' = 0
      BY <2>1, Zenon DEF Remove
    <3>2. tmp' = tmp /\ op' = op /\ op.what = "none"
      BY <2>1 DEF Idle
    <3>3. Typed'
      BY <3>1, <3>2, NoLines DEF Copying, Typed
    <3> QED BY <3>2, <3>3 DEF Copying, Reasoned, Copied
  <2>2. CASE Begin("age", Log!Since(file, c), NoRow)
    <3>1. Log!Since(file, c) \subseteq DOMAIN file
      BY DEF Log!Since
    <3>2. Typed' /\ Copied'
      BY <2>2, <3>1, BeginCopies DEF Copying
    <3> QED BY <2>2, <3>2 DEF Copying, Reasoned, Begin, Log!Since
  <2> QED BY <1>4, <2>1, <2>2 DEF ExpireBegin
<1>5. CASE AppendStored
  <2>1. op.row \in Row /\ op' = Idle
    BY <1>5 DEF AppendStored, Copying, Typed
  <2> QED BY <1>5, <2>1 DEF AppendStored, Copying, Typed, Reasoned, Copied, Idle
<1>6. CASE AppendFailed
  BY <1>6 DEF AppendFailed, Copying, Typed, Reasoned, Copied, Idle
<1>7. CASE AppendNotClosed
  BY <1>7 DEF AppendNotClosed, Copying, Typed, Reasoned, Copied, Idle
<1>8. CASE CopyLine
  BY <1>8, CopyLineCopies
<1>9. CASE RewriteFailed
  <2>1. file' = file /\ tmp' = <<>> /\ count' \in Nat
    BY <1>9, RecountIsNat DEF RewriteFailed, Copying, Typed
  <2>2. op.what \in Rewrites /\ AfterRewrite
    BY <1>9 DEF RewriteFailed
  <2>3. file' \in Seq(Row)
    BY <2>1 DEF Copying, Typed
  <2> QED BY <2>1, <2>2, <2>3, AfterRewriteRests, Zenon DEF Copying
<1>10. CASE RewriteUseless
  BY <1>10 DEF RewriteUseless, Copying, Typed, Reasoned, Copied, Idle
<1>11. CASE RewriteDone
  <2>1. op.what \in Rewrites /\ AfterRewrite /\ tmp' = <<>>
    BY <1>11, Zenon DEF RewriteDone, CopiedAll
  <2>2. \/ (file' = <<>> \/ file' = file) /\ count' = 0
        \/ file' = tmp /\ (count' = Len(tmp) \/ Recount(tmp))
    BY <1>11, Zenon DEF RewriteDone, Replace, Remove, KeptCount
  <2>3. file' \in Seq(Row) /\ count' \in Nat
    <3>1. file \in Seq(Row) /\ tmp \in Seq(Row) /\ Len(tmp) \in Nat
      BY DEF Copying, Typed
    <3>2. Recount(tmp) => count' \in Nat
      BY <3>1, RecountIsNat
    <3>3. 0 \in Nat
      OBVIOUS
    <3> QED BY <2>2, <3>1, <3>2, <3>3, NoLines, Zenon
  <2> QED BY <2>1, <2>3, AfterRewriteRests DEF Copying
<1>12. CASE Wipe
  BY <1>12 DEF Wipe, Copying, Typed, Reasoned, Copied, Idle
<1>13. CASE Restart
  BY <1>13, RecountIsNat DEF Restart, Copying, Typed, Reasoned, Copied, Idle
<1>14. CASE UNCHANGED vars
  <2>1. file' = file /\ tmp' = tmp /\ count' = count /\ op' = op
    BY <1>14 DEF vars
  <2>2. Typed' /\ Reasoned'
    BY <2>1 DEF Copying, Typed, Reasoned, Log!NewestHalf, Log!Since, Log!NotOf, Log!OtherThan
  <2>3. ReadSoFar' = ReadSoFar
    BY <2>1 DEF ReadSoFar
  <2> QED BY <2>1, <2>2, <2>3 DEF Copying, Copied
<1> QED BY <1>1, <1>2, <1>3, <1>4, <1>5, <1>6, <1>7, <1>8, <1>9, <1>10, <1>11, <1>12, <1>13, <1>14
        DEF Next

\* Whenever a rewrite is under way, the temporary file holds exactly the lines that
\* were read and are kept (the copy loops of dd_storage.c).
THEOREM SpecCopying == Spec => []Copying
BY InitCopying, NextCopying, PTL DEF Spec

-----------------------------------------------------------------------------
(* Refinement.  *)

\* A rewrite that ends well takes one step of the log, for its reason.
LEMMA DoneIsAllowed == ASSUME Copying, RewriteDone PROVE [Log!Next]_file
<1>1. CopiedAll /\ op.what \in Rewrites
  BY DEF RewriteDone, CopiedAll
<1>2. file' = <<>> \/ file' = file \/ file' = tmp
  BY Zenon DEF RewriteDone, Replace, Remove
<1>3. CASE file' = <<>>
  BY <1>3 DEF Log!Next, Log!Wipe
<1>4. CASE file' = file
  BY <1>4
<1>5. CASE file' = tmp
  <2>1. file' = Log!Picked(file, op.keep)
    BY <1>1, <1>5, CopiedAllIsPicked
  <2>2. CASE op.what = "cap"
    BY <2>1, <2>2 DEF Copying, Reasoned, Log!Next, Log!Trim
  <2>3. CASE op.what = "age"
    BY <2>1, <2>3 DEF Copying, Reasoned, Log!Next, Log!Expire
  <2>4. CASE op.what = "worker"
    BY <2>1, <2>4 DEF Copying, Reasoned, Log!Next, Log!ForgetWorker
  <2>5. CASE op.what = "one"
    BY <2>1, <2>5 DEF Copying, Reasoned, Log!Next, Log!DeleteRow
  <2> QED BY <1>1, <2>2, <2>3, <2>4, <2>5 DEF Rewrites
<1> QED BY <1>2, <1>3, <1>4, <1>5

\* Every step on the file is a step of the promised log or leaves it unchanged.
LEMMA StepRefines == Copying /\ [Next]_vars => [Log!Next]_file
<1> SUFFICES ASSUME Copying, [Next]_vars PROVE [Log!Next]_file
  OBVIOUS
<1>1. ASSUME NEW r \in Row, AppendBegin(r) \/ DeleteRowBegin(r) \/ ForgetWorkerBegin(r.worker)
      PROVE  file' = file
  BY <1>1 DEF AppendBegin, DeleteRowBegin, ForgetWorkerBegin, Begin
<1>2. ASSUME NEW c \in Cutoffs, ExpireBegin(c) PROVE file' = <<>> \/ file' = file
  BY <1>2, Zenon DEF ExpireBegin, Remove, Begin
<1>3. CASE AppendStored
  <2>1. op.row \in Row /\ file' = Append(file, op.row)
    BY <1>3 DEF AppendStored, Copying, Typed
  <2> QED BY <2>1 DEF Log!Next, Log!AppendRow
<1>4. CASE RewriteDone
  BY <1>4, DoneIsAllowed
<1>5. CASE Wipe
  BY <1>5 DEF Wipe, Log!Next, Log!Wipe
<1>6. CASE AppendFailed \/ AppendNotClosed \/ CopyLine \/ RewriteFailed \/ RewriteUseless
           \/ Restart \/ UNCHANGED vars
  <2>1. file' = file
    BY <1>6 DEF AppendFailed, AppendNotClosed, CopyLine, RewriteFailed, RewriteUseless, Restart, vars
  <2> QED BY <2>1
<1>7. file' = <<>> => Log!Next
  BY DEF Log!Next, Log!Wipe
<1> QED BY <1>1, <1>2, <1>3, <1>4, <1>5, <1>6, <1>7 DEF Next

(***************************************************************************)
(* KeepsLog: dd_storage.c implements the promised log.  Rows disappear     *)
(* only by trimming, retention, a deletion or a wipe, each as a whole, for *)
(* every failure of a file operation and every loss of power.              *)
(***************************************************************************)
THEOREM KeepsTheLog == Spec => KeepsLog
<1>1. Init => Log!Init
  BY NoLines DEF Init, Log!Init
<1>2. Copying /\ [Next]_vars => [Log!Next]_file
  BY StepRefines
<1> QED BY <1>1, <1>2, SpecCopying, PTL DEF Spec, KeepsLog, Log!Spec

-----------------------------------------------------------------------------
\* Every step keeps the cached count exact, unless an ignored failure intervenes.
LEMMA CountStep == Copying /\ CountIsLines /\ [Next]_vars => CountIsLines'
<1> SUFFICES ASSUME Copying, CountIsLines, [Next]_vars PROVE CountIsLines'
  OBVIOUS
<1>1. file \in Seq(Row)
  BY DEF Copying, Typed
<1>2. ASSUME NEW r \in Row, AppendBegin(r) \/ DeleteRowBegin(r) \/ ForgetWorkerBegin(r.worker)
      PROVE  CountIsLines'
  <2>1. file' = file /\ count' = count /\ trusted' = trusted
    BY <1>2 DEF AppendBegin, DeleteRowBegin, ForgetWorkerBegin, Begin
  <2> QED BY <2>1, Zenon DEF CountIsLines
<1>3. Remove => CountIsLines'
  BY NoLines, Zenon DEF Remove, CountIsLines
<1>4. ASSUME NEW c \in Cutoffs, ExpireBegin(c) PROVE CountIsLines'
  BY <1>3, <1>4, Zenon DEF ExpireBegin, Begin, CountIsLines
<1>5. CASE AppendStored
  <2>1. op.row \in Row /\ file' = Append(file, op.row) /\ count' = count + 1 /\ trusted' = trusted
    BY <1>5 DEF AppendStored, Copying, Typed
  <2>2. Len(file') = Len(file) + 1
    BY <1>1, <2>1
  <2> QED BY <2>1, <2>2, Zenon DEF CountIsLines
<1>6. CASE RewriteFailed
  BY <1>6, Zenon DEF RewriteFailed, Recount, CountIsLines
<1>7. CASE RewriteDone
  BY <1>3, <1>7, Zenon DEF RewriteDone, Replace, Recount, KeptCount, CountIsLines
<1>8. CASE Wipe \/ Restart
  BY <1>8, NoLines, Zenon DEF Wipe, Restart, Recount, CountIsLines
<1>9. CASE AppendNotClosed
  BY <1>9, Zenon DEF AppendNotClosed, CountIsLines
<1>10. CASE AppendFailed \/ CopyLine \/ RewriteUseless \/ UNCHANGED vars
  <2>1. file' = file /\ count' = count /\ trusted' = trusted
    BY <1>10 DEF AppendFailed, CopyLine, RewriteUseless, vars
  <2> QED BY <2>1, Zenon DEF CountIsLines
<1> QED BY <1>2, <1>4, <1>5, <1>6, <1>7, <1>8, <1>9, <1>10 DEF Next

(***************************************************************************)
(* CountIsLines: the cached s_event_count is exact unless a failure the    *)
(* code does not see (a close, a removal, a recount) came after the count  *)
(* was last set.                                                           *)
(***************************************************************************)
THEOREM CountIsExact == Spec => []CountIsLines
<1>1. Init => CountIsLines
  BY NoLines DEF Init, CountIsLines
<1> QED BY <1>1, CountStep, SpecCopying, PTL DEF Spec

=============================================================================
