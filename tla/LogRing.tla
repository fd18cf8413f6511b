------------------------------- MODULE LogRing -------------------------------
(***************************************************************************)
(* components/log_buf/dd_log.c: the ring that keeps the newest log output  *)
(* for /api/system/logs.                                                   *)
(*                                                                         *)
(* Every operation runs under s_lock and gives up when it does not get it  *)
(* in time: a line is then not kept, and a reader gets nothing.            *)
(***************************************************************************)
EXTENDS Integers, Sequences

CONSTANTS
    Byte,           \* the bytes logged
    Nul,            \* the one the buffer starts with
    LogSize,        \* DD_LOG_BUF_BYTES
    MaxLine         \* LOG_LINE_MAX - 1: what is longer is cut off

ASSUME LogAssumption == Nul \in Byte /\ LogSize \in Nat \ {0} /\ MaxLine \in Nat

VARIABLES
    buf,        \* s_buf
    head,       \* s_head: where the next byte goes
    used,       \* s_used: how many bytes are held
    answer      \* what the last reader was given

ringVars == <<buf, head, used, answer>>

Offsets == 0..(LogSize - 1)

\* An offset modulo DD_LOG_BUF_BYTES; none is ever twice as large.
Wrap(i) == IF i < LogSize THEN i ELSE i - LogSize

RingInit ==
    /\ buf = [i \in Offsets |-> Nul]
    /\ head = 0 /\ used = 0
    /\ answer = <<>>

\* buf_write.  What does not fit in before the end of the buffer goes to its beginning.
Copied(line) ==
    [i \in Offsets |->
        IF i >= head /\ i < head + Len(line) THEN line[i - head + 1]
        ELSE IF i + LogSize < head + Len(line) THEN line[i + LogSize - head + 1]
        ELSE buf[i]]

UsedUncapped(line) == used + Len(line)                                  \* mutant
UsedAfter(line) == IF used + Len(line) > LogSize THEN LogSize ELSE used + Len(line)

LogWrite(line) ==
    /\ Len(line) < LogSize
    /\ buf' = Copied(line)
    /\ head' = Wrap(head + Len(line))
    /\ used' = UsedAfter(line)
    /\ UNCHANGED answer

\* A line that is larger than the whole buffer leaves its end in it.
LogWriteLarge(line) ==
    /\ Len(line) >= LogSize
    /\ buf' = [i \in Offsets |-> line[Len(line) - LogSize + i + 1]]
    /\ head' = 0
    /\ used' = LogSize
    /\ UNCHANGED answer

\* dd_log_read_tail and logs_get.
Start(take) == Wrap(head + LogSize - take)
TailBytes(take) == [k \in 1..take |-> buf[Wrap(Start(take) + k - 1)]]

LogRead(cap) ==
    /\ answer' = TailBytes(IF used < cap THEN used ELSE cap)
    /\ UNCHANGED <<buf, head, used>>

\* The lock is not to be had within 50 ms.
LogReadNothing == answer' = <<>> /\ UNCHANGED <<buf, head, used>>

\* dd_log_clear.
LogClear == head' = 0 /\ used' = 0 /\ UNCHANGED <<buf, answer>>

LogLines == UNION {[1..n -> Byte] : n \in 0..MaxLine}

RingNext ==
    \/ \E line \in LogLines : LogWrite(line) \/ LogWriteLarge(line)
    \/ \E cap \in 0..LogSize : LogRead(cap)
    \/ LogReadNothing
    \/ LogClear

RingSpec == RingInit /\ [][RingNext]_ringVars
-----------------------------------------------------------------------------
\* The ring as LogTail sees it.
AsTail == INSTANCE LogTail WITH tail <- TailBytes(used)

\* The wrap-around never shows: readers are given the last bytes logged, in their order
\* and without gaps, whatever the lengths of the lines (buf_write, dd_log_read_tail).
KeepsTail == AsTail!TailSpec
=============================================================================
