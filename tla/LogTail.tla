------------------------------- MODULE LogTail -------------------------------
(***************************************************************************)
(* What components/log_buf promises: the last LogSize bytes of everything  *)
(* logged since the last time it was cleared, of which a reader is given   *)
(* the most recent ones it has room for.                                   *)
(***************************************************************************)
EXTENDS Naturals, Sequences

CONSTANTS
    LogLines,       \* what may be logged at once, each a sequence of bytes
    LogSize

VARIABLES
    tail,       \* the bytes held
    answer      \* what the last reader was given

\* The last n of a sequence, or all.
LastOf(s, n) == IF Len(s) <= n THEN s ELSE SubSeq(s, Len(s) - n + 1, Len(s))

TailInit == tail = <<>> /\ answer = <<>>

Log(line) == tail' = LastOf(tail \o line, LogSize) /\ UNCHANGED answer
Read(cap) == answer' = LastOf(tail, cap) /\ UNCHANGED tail
Clear == tail' = <<>> /\ UNCHANGED answer

TailNext ==
    \/ Clear
    \/ \E cap \in 0..LogSize : Read(cap)
    \/ \E line \in LogLines : Log(line)

TailSpec == TailInit /\ [][TailNext]_<<tail, answer>>
=============================================================================
