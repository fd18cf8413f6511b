------------------------------ MODULE MCComponents -----------------------------
(***************************************************************************)
(* Small instances of EventFile and of the components that have a state of *)
(* their own: what the HTTP handlers make of the log, the stamps and the   *)
(* debounce of its rows, a restore of the workers, sessions, the ring of   *)
(* log output, and pairing.  They share nothing, so one run explores them  *)
(* side by side: `focus' is the one that moves, the others stay as they    *)
(* began.                                                                  *)
(***************************************************************************)
EXTENDS EventFile, EventsPage, Timesheet, LatestRow, Debounce, Restore, Session, LogRing,
        Pairing, TLC

CONSTANTS ph1, ph2, ph3, h1, h2       \* phones

VARIABLE focus

\* EventFile.  Rows of two workers and of none at two times and with a clock not yet
\* set; two of one second are told apart by `mono'.
SomeRows == { [ts |-> 0, mono |-> 1, worker |-> 0], [ts |-> 1, mono |-> 1, worker |-> 1],
              [ts |-> 1, mono |-> 2, worker |-> 2], [ts |-> 2, mono |-> 1, worker |-> 1] }

\* EventsPage.  The latest one or two rows, of all or of one worker, a page further
\* down, and a day.
TwoRows == { [ts |-> 1, mono |-> 1, worker |-> 1], [ts |-> 2, mono |-> 1, worker |-> 2] }
Asked(w, l, o) == [worker |-> w, limit |-> l, offset |-> o, from |-> 0, to |-> 0]
SomeQueries ==
    { Asked(w, l, NoOffset) : w \in {0, 1}, l \in {1, 2} } \cup
    { Asked(0, 1, 1), [worker |-> 0, limit |-> 0, offset |-> NoOffset, from |-> 1, to |-> 2] }

\* Timesheet.  Rows before, at and after midnight (8), on the next day and without a
\* time, of three workers, of a phone that is no worker at times, and of nobody.
LinesOf(w, f, T) ==
    { [type |-> t, ts |-> s, mono |-> 1, wid |-> w, peer |-> f] : t \in {"in", "out"}, s \in T }
SomeLines ==
    LinesOf(1, ph1, {0, 7, 8, 9}) \cup LinesOf(2, ph2, {12}) \cup LinesOf(3, ph1, {9}) \cup
    LinesOf(0, ph2, {9}) \cup LinesOf(0, NoPeer, {9})
Anytime == [from |-> 0, to |-> 0]
SomeRanges == { Anytime, [from |-> 8, to |-> 0], [from |-> 0, to |-> 9] }

\* Pairing.  Two phones, which nothing tells apart and of which one has a link at a time.
\* At most two of the three tasks are in the middle of something; after a failure one, with
\* no link, or none.
PhoneSymmetry == Permutations(Phones)
Linked == {p \in Phones : phone[p] # "none"}
Busy == {t \in Tasks : ~Free(t)}
AtMostTwo ==
    /\ Cardinality(Linked) <= 1 /\ Cardinality(Busy) <= 2
    /\ failed => Cardinality(Linked) + Cardinality(Busy) <= 1

\* Restore.  Two backups out of order: one names an id twice, the other has a worker
\* without an id and one more than there is room for.
Worker(i, f) == [id |-> i, peer |-> f]
SomeBackups ==
    { <<Worker(2, ph1), Worker(1, ph1), Worker(1, ph2)>>,
      <<Worker(0, ph1), Worker(3, ph2), Worker(1, ph1), Worker(2, ph2)>> }
-----------------------------------------------------------------------------
MCInit ==
    /\ focus \in {"file", "page", "sheet", "latest", "debounce", "restore", "session", "ring",
                  "pairing"}
    /\ Init /\ PageInit /\ SheetInit /\ LatestInit /\ DebounceInit /\ RestoreInit
    /\ SessionInit /\ RingInit /\ PairInit
    /\ focus # "sheet" => range = Anytime

MCNext ==
    \/ /\ focus = "file" /\ Next
       /\ UNCHANGED <<focus, pageVars, sheetVars, latestVars, debounceVars, restoreVars,
                      sessionVars, ringVars, pairVars>>
    \/ /\ focus = "page" /\ PageNext
       /\ UNCHANGED <<focus, vars, sheetVars, latestVars, debounceVars, restoreVars,
                      sessionVars, ringVars, pairVars>>
    \/ /\ focus = "sheet" /\ SheetNext
       /\ UNCHANGED <<focus, vars, pageVars, latestVars, debounceVars, restoreVars,
                      sessionVars, ringVars, pairVars>>
    \/ /\ focus = "latest" /\ LatestNext
       /\ UNCHANGED <<focus, vars, pageVars, sheetVars, debounceVars, restoreVars, sessionVars,
                      ringVars, pairVars>>
    \/ /\ focus = "debounce" /\ DebounceNext
       /\ UNCHANGED <<focus, vars, pageVars, sheetVars, latestVars, restoreVars, sessionVars,
                      ringVars, pairVars>>
    \/ /\ focus = "restore" /\ RestoreNext
       /\ UNCHANGED <<focus, vars, pageVars, sheetVars, latestVars, debounceVars, sessionVars,
                      ringVars, pairVars>>
    \/ /\ focus = "session" /\ SessionNext
       /\ UNCHANGED <<focus, vars, pageVars, sheetVars, latestVars, debounceVars, restoreVars,
                      ringVars, pairVars>>
    \/ /\ focus = "ring" /\ RingNext
       /\ UNCHANGED <<focus, vars, pageVars, sheetVars, latestVars, debounceVars, restoreVars,
                      sessionVars, pairVars>>
    \/ /\ focus = "pairing" /\ PairNext
       /\ UNCHANGED <<focus, vars, pageVars, sheetVars, latestVars, debounceVars, restoreVars,
                      sessionVars, ringVars>>

MCVars == <<focus, vars, pageVars, sheetVars, latestVars, debounceVars, restoreVars,
            sessionVars, ringVars, pairVars>>

MCSpec == MCInit /\ [][MCNext]_MCVars
================================================================================
