------------------------------- MODULE EventLog -------------------------------
(***************************************************************************)
(* What components/storage/dd_storage.c promises of the attendance log: a  *)
(* sequence of rows that grows at its end by one row at a time, and from   *)
(* which rows disappear only for a reason: the size cap, the retention     *)
(* period, a deleted worker, a deleted row, a wipe.  Whatever fails, and   *)
(* whenever the power goes, nothing else happens to it.                    *)
(***************************************************************************)
EXTENDS Naturals, Sequences, FiniteSets

CONSTANTS
    Row,            \* the rows: records [ts, mono, worker]; worker 0 is none
    Cutoffs,        \* the wall-clock times retention may cut at
    Cap             \* rows that make the file larger than DD_EVENTS_MAX_BYTES

VARIABLE rows

(***************************************************************************)
(* Which lines of a log an operation keeps, as positions.                  *)
(***************************************************************************)
\* The newest half.  The line at the cut is skipped even when the cut falls on
\* its first byte; lines count as equally long.
NewestHalf(log) == {i \in DOMAIN log : i > Len(log) - ((Len(log) - 1) \div 2)}

\* From the first line that is not older than the cutoff.
Since(log, cutoff) == {i \in DOMAIN log : \E j \in 1..i : log[j].ts >= cutoff}

NotOf(log, worker) == {i \in DOMAIN log : log[i].worker # worker}
OtherThan(log, r) == {i \in DOMAIN log : ~(log[i].ts = r.ts /\ log[i].mono = r.mono)}

\* The lines at these positions, in their order: SelectSeq, without recursion.
Picked(log, positions) ==
    [k \in 1..Cardinality(positions) |->
        log[CHOOSE i \in positions : Cardinality({j \in positions : j <= i}) = k]]

-----------------------------------------------------------------------------
Init == rows \in Seq(Row)

AppendRow == \E r \in Row : rows' = Append(rows, r)
Trim == Len(rows) > Cap /\ rows' = Picked(rows, NewestHalf(rows))
Expire == \E c \in Cutoffs : rows' = Picked(rows, Since(rows, c))
ForgetWorker == \E r \in Row : r.worker # 0 /\ rows' = Picked(rows, NotOf(rows, r.worker))
DeleteRow == \E r \in Row : rows' = Picked(rows, OtherThan(rows, r))
Wipe == rows' = <<>>

Next == Wipe \/ AppendRow \/ Trim \/ Expire \/ ForgetWorker \/ DeleteRow

Spec == Init /\ [][Next]_rows
=============================================================================
