------------------------------- MODULE Debounce -------------------------------
(***************************************************************************)
(* The debounce of dd_event_record (components/events/dd_event.c): a row   *)
(* that the presence engine records for a phone is dropped when one of the *)
(* same type went through less than DEBOUNCE_US ago.  The times are kept   *)
(* in a table of few slots, in which a new phone takes the place of the    *)
(* one that has been quiet for longest.                                    *)
(*                                                                         *)
(* The NimBLE host task and the esp_timer task record.  Each reads the     *)
(* time first and then waits for s_debounce_lock, so that they may come to *)
(* the table in another order than their times tell.                       *)
(***************************************************************************)
EXTENDS Naturals, FiniteSets

CONSTANTS
    Recorded,       \* the phones for which rows are recorded
    Unassigned,
    DebounceSlots,  \* DEBOUNCE_SLOTS
    DebounceTime,   \* DEBOUNCE_US
    MaxMono         \* bound of the model: how long a boot lasts

ASSUME DebounceAssumption ==
    /\ IsFiniteSet(Recorded) /\ Unassigned \notin Recorded
    /\ DebounceSlots \in Nat \ {0} /\ DebounceTime \in Nat /\ MaxMono \in Nat

VARIABLES
    mono,       \* dd_time_mono_us
    asked,      \* the row each task is about to record, with its time
    table,      \* s_debounce
    passed,     \* history: the time of the last row of each phone and type that
                \* went through, or 0
    since       \* history: the other phones of which one went through after it, or
                \* has a later time

debounceVars == <<mono, asked, table, passed, since>>

Recorders == {"host", "tick"}
Types == {"in", "out"}
TableSlots == 1..DebounceSlots
UnusedSlot == [peer |-> Unassigned, in |-> 0, out |-> 0]
NoRequest == [peer |-> Unassigned, type |-> "in", mono |-> 0]
Nothing == [p \in Recorded |-> [in |-> 0, out |-> 0]]
Nobody == [p \in Recorded |-> [in |-> {}, out |-> {}]]

DebounceInit ==
    /\ mono = 0
    /\ asked = [t \in Recorders |-> NoRequest]
    /\ table = [i \in TableSlots |-> UnusedSlot]
    /\ passed = Nothing
    /\ since = Nobody

\* dd_event_record is called.
Stamped(t, p, y) ==
    /\ asked[t] = NoRequest
    /\ mono < MaxMono
    /\ mono' = mono + 1
    /\ asked' = [asked EXCEPT ![t] = [peer |-> p, type |-> y, mono |-> mono + 1]]
    /\ UNCHANGED <<table, passed, since>>

Later(s) == IF s.in > s.out THEN s.in ELSE s.out

\* get_slot: the slot of the phone, else the first free one, else the first of those
\* that have been quiet for longest.
SlotsOf(p) == {i \in TableSlots : table[i].peer = p}
QuietByIn == {i \in TableSlots : \A j \in TableSlots : table[i].in <= table[j].in}  \* mutant
Quietest == {i \in TableSlots : \A j \in TableSlots : Later(table[i]) <= Later(table[j])}

Chosen(p) ==
    IF SlotsOf(p) # {} THEN SlotsOf(p)
    ELSE IF SlotsOf(Unassigned) # {} THEN SlotsOf(Unassigned)
    ELSE Quietest

\* A slot that changes hands starts anew.
Taken(i, p) == IF table[i].peer = p THEN table[i] ELSE [UnusedSlot EXCEPT !.peer = p]

Debounced(slot, r) == slot[r.type] # 0 /\ r.mono < slot[r.type] + DebounceTime

Since(r) ==
    [p \in Recorded |-> [y \in Types |->
        IF p # r.peer THEN since[p][y] \cup {r.peer}
        ELSE IF y = r.type THEN {q \in Recorded \ {p} : Later(passed[q]) >= r.mono}
        ELSE since[p][y]]]

\* The row goes on to be written, or is dropped.
Passes(t) ==
    LET r == asked[t] IN
    /\ r # NoRequest
    /\ \E i \in Chosen(r.peer) :
        /\ \A j \in Chosen(r.peer) : i <= j
        /\ ~Debounced(Taken(i, r.peer), r)
        /\ table' = [table EXCEPT ![i] = [Taken(i, r.peer) EXCEPT ![r.type] = r.mono]]
    /\ passed' = [passed EXCEPT ![r.peer][r.type] = r.mono]
    /\ since' = Since(r)
    /\ asked' = [asked EXCEPT ![t] = NoRequest]
    /\ UNCHANGED mono

Dropped(t) ==
    LET r == asked[t] IN
    /\ r # NoRequest
    /\ \E i \in SlotsOf(r.peer) :
        /\ \A j \in SlotsOf(r.peer) : i <= j
        /\ Debounced(table[i], r)
    /\ asked' = [asked EXCEPT ![t] = NoRequest]
    /\ UNCHANGED <<mono, table, passed, since>>

\* The device restarts.
DebounceRestart ==
    /\ mono' = 0
    /\ asked' = [t \in Recorders |-> NoRequest]
    /\ table' = [i \in TableSlots |-> UnusedSlot]
    /\ passed' = Nothing
    /\ since' = Nobody

DebounceNext ==
    \/ \E t \in Recorders, p \in Recorded, y \in Types : Stamped(t, p, y)
    \/ \E t \in Recorders : Passes(t) \/ Dropped(t)
    \/ DebounceRestart

DebounceSpec == DebounceInit /\ [][DebounceNext]_debounceVars
-----------------------------------------------------------------------------
(***************************************************************************)
(* Properties.                                                             *)
(***************************************************************************)
\* The type of every variable.
DebounceTypeOK ==
    /\ mono \in 0..MaxMono
    /\ asked \in [Recorders -> [peer : Recorded \cup {Unassigned}, type : Types, mono : 0..MaxMono]]
    /\ table \in [TableSlots -> [peer : Recorded \cup {Unassigned}, in : 0..MaxMono, out : 0..MaxMono]]
    /\ passed \in [Recorded -> [in : 0..MaxMono, out : 0..MaxMono]]
    /\ since \in [Recorded -> [in : SUBSET Recorded, out : SUBSET Recorded]]

\* A row goes through too early only when the phone was forgotten, and that takes as
\* many other phones as there are slots, each with a row that went through since or that
\* has a later time (get_slot).
ForgetsOnlyInACrowd ==
    [][\A t \in Recorders : Passes(t) =>
        LET r == asked[t] IN
        Debounced(passed[r.peer], r) => Cardinality(since[r.peer][r.type]) >= DebounceSlots
      ]_debounceVars
=============================================================================
