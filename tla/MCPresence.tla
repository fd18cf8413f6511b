------------------------------ MODULE MCPresence ------------------------------
(* Presence on small instances: one tick stands for ten seconds.  *)
EXTENDS Presence, TLC

CONSTANTS p1, p2

\* Phones are interchangeable.
PeerSymmetry == Permutations(Peers)

\* What the slots can depend on: of the rows only whether the last one is an IN
\* (it resumes the slot), and not the history variable.
SlotView == <<codeVars, since, [p \in Peers |-> rows[p].last = "in"],
              bonds, link, conn, near, append>>

\* What the rows and the marks can depend on: of the row before the last one only
\* whether it is an IN (the rest cannot be told apart by a property or a step).
RowsView == <<codeVars, since, [p \in Peers |-> <<rows[p].last, rows[p].prior = "in">>],
              bonds, link, conn, near, heard, stalls>>

\* Once a row has waited for as long as the debounce, the properties of the rows
\* promise nothing any more.
NoLongWait == waits # "long"
=============================================================================
