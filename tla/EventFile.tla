------------------------------ MODULE EventFile ------------------------------
(***************************************************************************)
(* components/storage/dd_storage.c: the event log as the file events.jsonl *)
(* on LittleFS, rewritten through events.jsonl.tmp, and the cached count   *)
(* of its lines.                                                           *)
(*                                                                         *)
(* Every operation runs under s_lock; `op' is the one that holds it.  A    *)
(* rewrite copies the lines it keeps one by one and then renames; a write, *)
(* a close, the rename or a removal may fail, and the power may go between *)
(* any two steps.  LittleFS commits a file when it is closed, so a row is  *)
(* stored whole or not at all, and rename replaces its target atomically.  *)
(***************************************************************************)
EXTENDS Naturals, Sequences, FiniteSets

CONSTANTS
    Row,            \* see EventLog
    Cutoffs,
    Cap,
    MaxLines        \* bound of the model: nothing is appended beyond it

ASSUME CapAssumption == Cap \in Nat /\ MaxLines \in Nat

VARIABLES
    file,       \* events.jsonl; an absent file reads like an empty one
    tmp,        \* events.jsonl.tmp; absent or left over, it is never read
    count,      \* s_event_count
    op,         \* the operation that holds s_lock
    trusted     \* history: no unchecked call has failed since the count was last set

vars == <<file, tmp, count, op, trusted>>

Log == INSTANCE EventLog WITH rows <- file

\* what: what is being done; keep: the lines a rewrite keeps, as positions in the
\* file; next: the line it reads next; row: the row to append.
Rewrites == {"cap", "age", "worker", "one"}
NoRow == [none |-> TRUE]
Idle == [what |-> "none", keep |-> {}, next |-> 1, row |-> NoRow]

Init ==
    /\ file = <<>>
    /\ tmp = <<>>
    /\ count = 0
    /\ op = Idle
    /\ trusted = TRUE

\* scan_event_count, of the log as it then is.  A log that cannot be opened counts as
\* empty and one that cannot be read to its end as shorter, and nobody can tell.
Recount(log) ==
    \/ count' = Len(log) /\ trusted' = TRUE
    \/ count' \in 0..(Len(log) - 1) /\ trusted' = FALSE

(***************************************************************************)
(* dd_storage_event_append.                                                *)
(***************************************************************************)
Begin(what, keep, row) ==
    /\ op' = [what |-> what, keep |-> keep, next |-> 1, row |-> row]
    /\ tmp' = <<>>
    /\ UNCHANGED <<file, count, trusted>>

Appending(r) == [what |-> "append", keep |-> {}, next |-> 1, row |-> r]

\* Over the cap the file is rotated first: the newest half is kept.
AppendBegin(r) ==
    /\ op = Idle
    /\ count < MaxLines /\ Len(file) < MaxLines
    /\ \/ Len(file) > Cap /\ Begin("cap", Log!NewestHalf(file), r)
       \/ Len(file) <= Cap /\ op' = Appending(r) /\ UNCHANGED <<file, tmp, count, trusted>>

\* The row is stored and counted.
AppendStored ==
    /\ op.what = "append"
    /\ file' = Append(file, op.row)
    /\ count' = count + 1
    /\ op' = Idle
    /\ UNCHANGED <<tmp, trusted>>

\* The open or a write fails: neither stored nor counted.
AppendFailed ==
    /\ op.what = "append"
    /\ op' = Idle
    /\ UNCHANGED <<file, tmp, count, trusted>>

\* The result of fclose is not looked at: counted, and ESP_OK, but not stored.
AppendNotClosed ==
    /\ op.what = "append"
    /\ count' = count + 1
    /\ trusted' = FALSE
    /\ op' = Idle
    /\ UNCHANGED <<file, tmp>>

(***************************************************************************)
(* The rewrites: dd_storage_event_rotate_by_time, _delete_by_worker and    *)
(* _delete_one, and the rotation inside an append.                         *)
(***************************************************************************)
\* unlink(events.jsonl), whose result is not looked at.
Remove ==
    /\ count' = 0
    /\ \/ file' = <<>> /\ trusted' = TRUE
       \/ file' = file /\ trusted' = FALSE

\* Rows older than the cutoff, up to the first newer one, go.
ExpireBegin(c) ==
    LET keep == Log!Since(file, c) IN
    /\ op = Idle
    /\ file # <<>>
    /\ \/ keep = {} /\ Remove /\ UNCHANGED <<tmp, op>>
       \/ keep \notin {{}, DOMAIN file} /\ Begin("age", keep, NoRow)

ForgetWorkerBegin(w) ==
    /\ w # 0 /\ op = Idle /\ file # <<>>
    /\ Begin("worker", Log!NotOf(file, w), NoRow)

DeleteRowBegin(r) ==
    /\ op = Idle /\ file # <<>>
    /\ Begin("one", Log!OtherThan(file, r), NoRow)

CopyLine ==
    /\ op.what \in Rewrites
    /\ op.next <= Len(file)
    /\ op' = [op EXCEPT !.next = op.next + 1]
    /\ tmp' = IF op.next \in op.keep THEN Append(tmp, file[op.next]) ELSE tmp
    /\ UNCHANGED <<file, count, trusted>>

\* A rotation is followed by the append it was made for, come what may.
AfterRewrite == op' = IF op.what = "cap" THEN Appending(op.row) ELSE Idle

\* A write, the close or the rename fails: the original stays, and a rotation
\* inside an append recounts it all the same.
RewriteFailedReplacing ==                                       \* mutant
    /\ op.what \in Rewrites
    /\ file' = tmp
    /\ tmp' = <<>>
    /\ count' = Len(tmp)
    /\ AfterRewrite
    /\ UNCHANGED trusted

RewriteFailed ==
    /\ op.what \in Rewrites
    /\ \/ op.what = "cap" /\ Recount(file)
       \/ op.what # "cap" /\ UNCHANGED <<count, trusted>>
    /\ tmp' = <<>>
    /\ AfterRewrite
    /\ UNCHANGED file

\* A deletion that matched nothing leaves the original alone.
CopiedAll == op.what \in Rewrites /\ op.next > Len(file)
RewriteUseless ==
    /\ CopiedAll /\ op.keep = DOMAIN file
    /\ tmp' = <<>>
    /\ op' = Idle
    /\ UNCHANGED <<file, count, trusted>>

\* The temporary file replaces the original.  A deletion counted the lines it kept, a
\* rotation counts them again.
KeptCountOfOld == IF op.what = "one" THEN count ELSE Len(tmp)   \* mutant
KeptCount == Len(tmp)

Replace ==
    /\ file' = tmp
    /\ \/ op.what \in {"worker", "one"} /\ count' = KeptCount /\ trusted' = TRUE
       \/ op.what \in {"cap", "age"} /\ Recount(tmp)

RewriteDone ==
    /\ CopiedAll /\ op.keep # DOMAIN file
    /\ \/ op.what \in {"worker", "one"} /\ tmp = <<>> /\ Remove
       \/ ~(op.what \in {"worker", "one"} /\ tmp = <<>>) /\ Replace
    /\ tmp' = <<>>
    /\ AfterRewrite

\* dd_storage_event_wipe; a removal that fails is noticed here and changes nothing.
Wipe ==
    /\ op = Idle
    /\ file' = <<>>
    /\ count' = 0
    /\ trusted' = TRUE
    /\ UNCHANGED <<tmp, op>>

\* Power loss and dd_storage_init: what was not renamed is lost, lines are counted.
Restart ==
    /\ op' = Idle
    /\ tmp' = <<>>
    /\ Recount(file)
    /\ UNCHANGED file

Next ==
    \/ \E r \in Row : AppendBegin(r) \/ DeleteRowBegin(r) \/ ForgetWorkerBegin(r.worker)
    \/ \E c \in Cutoffs : ExpireBegin(c)
    \/ AppendStored \/ AppendFailed \/ AppendNotClosed
    \/ CopyLine \/ RewriteFailed \/ RewriteUseless \/ RewriteDone
    \/ Wipe \/ Restart

Spec == Init /\ [][Next]_vars
-----------------------------------------------------------------------------
(***************************************************************************)
(* Properties.                                                             *)
(***************************************************************************)
\* The file never shows anything but a state of the promised log: a rewrite takes
\* effect as a whole or not at all, whatever fails and whenever the power goes.
KeepsLog == Log!Spec

\* The cached count is the number of lines in the file, unless a call the code does not
\* look at has failed: the close of an append, a removal, the opening or the reading of
\* a recount.  The next rotation, deletion, wipe or restart that succeeds puts even that
\* right; so no path on which every call does what it says lets the count drift.
CountIsLines == trusted => count = Len(file)

=============================================================================
