------------------------------ MODULE RowsProofs ------------------------------
(***************************************************************************)
(* Attendance rows: the debounce when they are recorded, and what the HTTP *)
(* handlers make of the log, for any number of phones, logs of any length  *)
(* and tables of any size.  The four parts share nothing.                  *)
(*                                                                         *)
(* Debounce.  How many phones it takes to make it forget one.  Of a row    *)
(* that went through, either the phone's slot still holds the time, or     *)
(* there are as many phones as slots that were recorded since (Held).      *)
(* When a slot changes hands, these are the phones of the other slots,     *)
(* none of which has been quiet for longer (Counted), and the one that     *)
(* takes it.                                                               *)
(*                                                                         *)
(* Timesheet.  An IN that was read is in exactly one place: in the table   *)
(* of the paired view, thrown out of it, or in a segment (Carried).  Of    *)
(* each person there is at most one IN that no later row follows, and      *)
(* these are the INs in the table (Complete).  An entry of today's list    *)
(* is right if it has the stays of its person that have ended, the sum of  *)
(* their times, and the IN that no row followed (Right): so it has what    *)
(* the paired view shows.  A bucket of the calendar is right if it counts  *)
(* what lies between two midnights (Agreed).                               *)
(*                                                                         *)
(* EventsPage.  The log that was counted is the beginning of the one that  *)
(* is walked, unless rows went (Grown); so a row of it keeps its rank      *)
(* among those that match, and those that came are ranked behind it.       *)
(*                                                                         *)
(* LatestRow.  Rows are compared by the second, and within a second by a   *)
(* clock that each boot begins anew: rows of one second are of one boot    *)
(* (Booted).  What the walk over the log holds is shown right for the      *)
(* least number of rows at which it would be wrong.                        *)
(***************************************************************************)
EXTENDS Debounce, Timesheet, EventsPage, LatestRow, FiniteSetTheorems, FunctionTheorems,
        SequenceTheorems, WellFoundedInduction, TLAPS

-----------------------------------------------------------------------------
(***************************************************************************)
(* The debounce.                                                           *)
(***************************************************************************)
Requested == \A t \in Recorders : asked[t] = NoRequest \/ asked[t].peer \in Recorded

OneSlotEach ==
    \A i, j \in TableSlots :
        table[i].peer = table[j].peer /\ table[i].peer # Unassigned => i = j

\* What a slot holds of its phone is the time of its last row, or nothing.
UpToDate ==
    \A i \in TableSlots, y \in Types :
        table[i][y] = 0 \/ (table[i].peer \in Recorded /\ table[i][y] = passed[table[i].peer][y])

\* Who is counted.
Counted ==
    \A p \in Recorded, y \in Types :
        /\ p \notin since[p][y]
        /\ passed[p][y] # 0 =>
            \A q \in Recorded \ {p} : Later(passed[q]) >= passed[p][y] => q \in since[p][y]

InTable(p, y) == \E i \in TableSlots : table[i].peer = p /\ table[i][y] = passed[p][y]

Held ==
    \A p \in Recorded, y \in Types :
        passed[p][y] # 0 => InTable(p, y) \/ Cardinality(since[p][y]) >= DebounceSlots

DebounceInv == DebounceTypeOK /\ Requested /\ OneSlotEach /\ UpToDate /\ Counted /\ Held
-----------------------------------------------------------------------------
Slots == [peer : Recorded \cup {Unassigned}, in : 0..MaxMono, out : 0..MaxMono]
Times == [in : 0..MaxMono, out : 0..MaxMono]
Requests == [peer : Recorded \cup {Unassigned}, type : Types, mono : 0..MaxMono]

LEMMA LaterIs ==
    ASSUME NEW s, s.in \in Nat, s.out \in Nat
    PROVE  /\ Later(s) \in Nat /\ \A y \in Types : s[y] <= Later(s)
           /\ \E y \in Types : Later(s) = s[y]
BY DEF Later, Types

LEMMA Typing ==
    ASSUME DebounceTypeOK
    PROVE  /\ \A i \in TableSlots : /\ table[i] \in Slots
                                    /\ table[i].in \in 0..MaxMono /\ table[i].out \in 0..MaxMono
                                    /\ \A y \in Types : table[i][y] \in 0..MaxMono
           /\ \A p \in Recorded : /\ passed[p].in \in 0..MaxMono /\ passed[p].out \in 0..MaxMono
                                  /\ \A y \in Types : passed[p][y] \in 0..MaxMono
           /\ \A p \in Recorded, y \in Types : since[p][y] \subseteq Recorded /\ IsFiniteSet(since[p][y])
<1>1. \A i \in TableSlots : /\ table[i] \in Slots
                            /\ table[i].in \in 0..MaxMono /\ table[i].out \in 0..MaxMono
                            /\ \A y \in Types : table[i][y] \in 0..MaxMono
  BY DEF DebounceTypeOK, Slots, Types
<1>2. \A p \in Recorded : /\ passed[p].in \in 0..MaxMono /\ passed[p].out \in 0..MaxMono
                          /\ \A y \in Types : passed[p][y] \in 0..MaxMono
  BY DEF DebounceTypeOK, Types
<1>3. \A p \in Recorded, y \in Types : since[p][y] \subseteq Recorded
  BY DEF DebounceTypeOK, Types
<1>4. \A p \in Recorded, y \in Types : IsFiniteSet(since[p][y])
  BY <1>3, FS_Subset, DebounceAssumption
<1> QED BY <1>1, <1>2, <1>3, <1>4

\* A slot is no later than its phone.
LEMMA SlotIsNoLater ==
    ASSUME DebounceTypeOK, UpToDate, NEW i \in TableSlots, table[i].peer \in Recorded
    PROVE  Later(table[i]) <= Later(passed[table[i].peer])
<1>1. PICK y \in Types : Later(table[i]) = table[i][y]
  BY LaterIs, Typing, DebounceAssumption
<1>2. passed[table[i].peer][y] <= Later(passed[table[i].peer]) /\ Later(passed[table[i].peer]) \in Nat
  BY LaterIs, Typing, DebounceAssumption
<1> QED BY <1>1, <1>2 DEF UpToDate

-----------------------------------------------------------------------------
(***************************************************************************)
(* A row goes through.                                                     *)
(***************************************************************************)
\* All slots taken by others: the phones of all but the quietest, and the new one, are as
\* many as there are slots.
LEMMA Crowd ==
    ASSUME DebounceTypeOK, OneSlotEach, UpToDate, Counted,
           NEW p \in Recorded, SlotsOf(p) = {}, SlotsOf(Unassigned) = {}, NEW k \in Quietest,
           NEW y \in Types, NEW S, IsFiniteSet(S), p \in S,
           table[k][y] # 0, since[table[k].peer][y] \subseteq S
    PROVE  Cardinality(S) >= DebounceSlots
<1> DEFINE e == table[k].peer
           who == [j \in TableSlots |-> IF j = k THEN p ELSE table[j].peer]
<1>1. k \in TableSlots /\ IsFiniteSet(TableSlots) /\ Cardinality(TableSlots) = DebounceSlots
  BY FS_Interval, DebounceAssumption DEF Quietest, TableSlots
<1>2. \A j \in TableSlots : table[j].peer \in Recorded /\ table[j].peer # p
  BY Typing DEF SlotsOf, Slots
<1>3. table[k][y] = passed[e][y]
  BY <1>1 DEF UpToDate
<1>4. ASSUME NEW j \in TableSlots, j # k
      PROVE  table[j].peer \in S
  <2>1. table[j].peer # e
    BY <1>1, <1>2, <1>4, DebounceAssumption DEF OneSlotEach
  <2>2. Later(passed[table[j].peer]) >= passed[e][y]
    <3>1. table[k][y] <= Later(table[k]) /\ Later(table[k]) \in Nat /\ table[k][y] \in Nat
      BY <1>1, LaterIs, Typing, DebounceAssumption
    <3>2. Later(table[k]) <= Later(table[j]) /\ Later(table[j]) \in Nat
      BY LaterIs, Typing, DebounceAssumption DEF Quietest
    <3>3. Later(table[j]) <= Later(passed[table[j].peer]) /\ Later(passed[table[j].peer]) \in Nat
      BY <1>2, SlotIsNoLater, LaterIs, Typing, DebounceAssumption
    <3> QED BY <1>3, <3>1, <3>2, <3>3
  <2>3. table[j].peer \in since[e][y]
    BY <1>1, <1>2, <1>3, <2>1, <2>2 DEF Counted
  <2> QED BY <2>3
<1>5. who \in [TableSlots -> S]
  BY <1>4
<1>6. \A a, b \in TableSlots : who[a] = who[b] => a = b
  BY <1>1, <1>2, DebounceAssumption DEF OneSlotEach
<1>7. who \in Injection(TableSlots, S)
  BY <1>5, <1>6, Fun_IsInj
<1>8. Cardinality(TableSlots) <= Cardinality(S)
  BY <1>7, FS_Injection
<1> QED BY <1>1, <1>8

LEMMA TypedInit == DebounceInit => DebounceInv
<1> SUFFICES ASSUME DebounceInit PROVE DebounceInv
  OBVIOUS
<1> USE DebounceAssumption DEF DebounceInit, Nothing, Nobody, UnusedSlot, NoRequest, Types
<1>1. DebounceTypeOK
  <2>1. asked \in [Recorders -> Requests]
    BY DEF Requests
  <2>2. table \in [TableSlots -> Slots]
    BY DEF Slots
  <2> QED BY <2>1, <2>2 DEF DebounceTypeOK, Requests, Slots
<1>2. Requested /\ OneSlotEach
  BY DEF Requested, OneSlotEach
<1>3. UpToDate
  BY DEF UpToDate
<1>4. \A p \in Recorded, y \in Types : passed[p][y] = 0 /\ since[p][y] = {}
  OBVIOUS
<1> QED BY <1>1, <1>2, <1>3, <1>4 DEF DebounceInv, Counted, Held

LEMMA PassesStep ==
    ASSUME DebounceInv, NEW t \in Recorders, Passes(t)
    PROVE  DebounceInv'
<1> DEFINE r == asked[t]
           p == r.peer
           y == r.type
<1>1. DebounceTypeOK /\ Requested /\ OneSlotEach /\ UpToDate /\ Counted /\ Held
  BY DEF DebounceInv
<1>2. p \in Recorded /\ y \in Types /\ r.mono \in 0..MaxMono /\ r # NoRequest
  BY <1>1 DEF Passes, Requested, DebounceTypeOK
<1>3. PICK i \in Chosen(p) : table' = [table EXCEPT ![i] = [Taken(i, p) EXCEPT ![y] = r.mono]]
  BY DEF Passes
<1>4. i \in TableSlots
  BY <1>3 DEF Chosen, SlotsOf, Quietest
<1>5. /\ passed' = [passed EXCEPT ![p][y] = r.mono] /\ since' = Since(r)
      /\ asked' = [asked EXCEPT ![t] = NoRequest] /\ mono' = mono
  BY DEF Passes
<1> HIDE DEF r, p, y
<1>6. Taken(i, p) \in Slots /\ Taken(i, p).peer = p
  <2>1. CASE table[i].peer = p
    BY <1>1, <1>4, <2>1, Typing DEF Taken
  <2>2. CASE table[i].peer # p
    BY <1>2, <2>2, DebounceAssumption DEF Taken, UnusedSlot, Slots
  <2> QED BY <2>1, <2>2
<1>7. /\ table'[i] \in Slots /\ table'[i].peer = p /\ table'[i][y] = r.mono
      /\ \A z \in Types \ {y} : table'[i][z] = Taken(i, p)[z]
      /\ \A j \in TableSlots \ {i} : table'[j] = table[j]
  <2>1. table \in [TableSlots -> Slots]
    BY <1>1 DEF DebounceTypeOK, Slots
  <2>2. table'[i] = [Taken(i, p) EXCEPT ![y] = r.mono] /\ \A j \in TableSlots \ {i} : table'[j] = table[j]
    BY <1>3, <1>4, <2>1
  <2>3. CASE y = "in"
    BY <1>2, <1>6, <2>2, <2>3 DEF Slots, Types
  <2>4. CASE y = "out"
    BY <1>2, <1>6, <2>2, <2>4 DEF Slots, Types
  <2> QED BY <1>2, <2>2, <2>3, <2>4 DEF Types
<1>8. /\ passed'[p][y] = r.mono /\ \A z \in Types \ {y} : passed'[p][z] = passed[p][z]
      /\ \A q \in Recorded \ {p} : passed'[q] = passed[q]
  <2>1. passed \in [Recorded -> Times]
    BY <1>1 DEF DebounceTypeOK, Times
  <2>2. CASE y = "in"
    BY <1>2, <1>5, <2>1, <2>2 DEF Times, Types
  <2>3. CASE y = "out"
    BY <1>2, <1>5, <2>1, <2>3 DEF Times, Types
  <2> QED BY <1>2, <2>2, <2>3 DEF Types
<1>9. \A q \in Recorded, z \in Types :
         since'[q][z] = IF q # p THEN since[q][z] \cup {p}
                        ELSE IF z = y THEN {x \in Recorded \ {q} : Later(passed[x]) >= r.mono}
                        ELSE since[q][z]
  BY <1>5 DEF Since, p, y
<1>10. \A j \in TableSlots : table[j].peer = p => j = i
  <2> SUFFICES ASSUME NEW j \in TableSlots, table[j].peer = p PROVE j = i
    OBVIOUS
  <2>1. table[i].peer = p
    BY <1>3 DEF Chosen, SlotsOf
  <2> QED BY <1>1, <1>2, <1>4, <2>1, DebounceAssumption DEF OneSlotEach
<1>11. DebounceTypeOK'
  <2>1. table' \in [TableSlots -> Slots]
    BY <1>1, <1>3, <1>4, <1>7 DEF DebounceTypeOK, Slots
  <2>2. passed' \in [Recorded -> Times]
    <3>1. passed \in [Recorded -> Times]
      BY <1>1 DEF DebounceTypeOK, Times
    <3>2. [passed[p] EXCEPT ![y] = r.mono] \in Times
      BY <1>2, <3>1 DEF Times, Types
    <3> QED BY <1>2, <1>5, <3>1, <3>2
  <2>3. since' \in [Recorded -> [in : SUBSET Recorded, out : SUBSET Recorded]]
    <3>1. ASSUME NEW q \in Recorded, NEW z \in Types PROVE since'[q][z] \in SUBSET Recorded
      <4>1. since[q][z] \subseteq Recorded
        BY <1>1, Typing
      <4>2. since'[q][z] = since[q][z] \cup {p} \/ since'[q][z] = since[q][z]
            \/ since'[q][z] = {x \in Recorded \ {q} : Later(passed[x]) >= r.mono}
        BY <1>9
      <4> QED BY <1>2, <4>1, <4>2
    <3>2. since' = [q \in Recorded |-> [z \in Types |-> since'[q][z]]]
      BY <1>5 DEF Since
    <3> QED BY <3>1, <3>2 DEF Types
  <2>4. asked' \in [Recorders -> Requests]
    BY <1>1, <1>5, DebounceAssumption DEF DebounceTypeOK, Requests, NoRequest, Types
  <2>5. mono' \in 0..MaxMono
    BY <1>1, <1>5 DEF DebounceTypeOK
  <2> QED BY <2>1, <2>2, <2>3, <2>4, <2>5 DEF DebounceTypeOK, Slots, Times, Requests
<1>12. Requested'
  BY <1>1, <1>5 DEF Requested, DebounceTypeOK
<1>13. OneSlotEach'
  BY <1>1, <1>4, <1>7, <1>10 DEF OneSlotEach
<1>14. UpToDate'
  <2> SUFFICES ASSUME NEW j \in TableSlots, NEW z \in Types, table'[j][z] # 0
               PROVE  table'[j].peer \in Recorded /\ table'[j][z] = passed'[table'[j].peer][z]
    BY DEF UpToDate
  <2>1. CASE j = i /\ z = y
    BY <1>2, <1>7, <1>8, <2>1
  <2>2. CASE j = i /\ z # y
    <3>1. table'[i][z] = Taken(i, p)[z] /\ passed'[p][z] = passed[p][z] /\ table'[i].peer = p
      BY <1>7, <1>8, <2>2
    <3>2. CASE table[i].peer = p
      BY <1>1, <1>2, <1>4, <2>2, <3>1, <3>2 DEF Taken, UpToDate
    <3>3. CASE table[i].peer # p
      <4>1. Taken(i, p)[z] = 0
        BY <3>3 DEF Taken, UnusedSlot, Types
      <4> QED BY <2>2, <3>1, <4>1
    <3> QED BY <3>2, <3>3
  <2>3. CASE j # i
    BY <1>1, <1>7, <1>8, <1>10, <2>3 DEF UpToDate
  <2> QED BY <2>1, <2>2, <2>3
<1>15. Counted'
  <2> SUFFICES ASSUME NEW q \in Recorded, NEW z \in Types
               PROVE  /\ q \notin since'[q][z]
                      /\ passed'[q][z] # 0 =>
                          \A x \in Recorded \ {q} : Later(passed'[x]) >= passed'[q][z] => x \in since'[q][z]
    BY DEF Counted
  <2>1. CASE q # p
    <3>1. since'[q][z] = since[q][z] \cup {p} /\ passed'[q][z] = passed[q][z]
      BY <1>8, <1>9, <2>1
    <3>2. q \notin since'[q][z]
      BY <1>1, <2>1, <3>1 DEF Counted
    <3>3. ASSUME passed[q][z] # 0, NEW x \in Recorded \ {q}, x # p, Later(passed'[x]) >= passed[q][z]
          PROVE  x \in since[q][z]
      <4>1. passed'[x] = passed[x]
        BY <1>8, <3>3
      <4> QED BY <1>1, <3>3, <4>1 DEF Counted
    <3> QED BY <3>1, <3>2, <3>3
  <2>2. CASE q = p /\ z = y
    BY <1>8, <1>9, <2>2
  <2>3. CASE q = p /\ z # y
    BY <1>1, <1>8, <1>9, <2>3 DEF Counted
  <2> QED BY <2>1, <2>2, <2>3
<1>16. Held'
  <2> SUFFICES ASSUME NEW q \in Recorded, NEW z \in Types, passed'[q][z] # 0
               PROVE  InTable(q, z)' \/ Cardinality(since'[q][z]) >= DebounceSlots
    BY DEF Held
  <2>1. CASE q = p /\ z = y
    BY <1>4, <1>7, <1>8, <2>1 DEF InTable
  <2>2. CASE q = p /\ z # y
    <3>1. passed'[q][z] = passed[q][z] /\ since'[q][z] = since[q][z]
      BY <1>8, <1>9, <2>2
    <3>2. ASSUME NEW j \in TableSlots, table[j].peer = q, table[j][z] = passed[q][z] PROVE InTable(q, z)'
      <4>1. j = i
        BY <1>10, <2>2, <3>2
      <4>2. table'[i][z] = table[i][z] /\ table'[i].peer = p
        BY <1>7, <2>2, <3>2, <4>1 DEF Taken
      <4> QED BY <1>4, <2>2, <3>1, <3>2, <4>1, <4>2 DEF InTable
    <3> QED BY <1>1, <3>1, <3>2 DEF Held, InTable
  <2>3. CASE q # p
    <3>1. passed'[q][z] = passed[q][z] /\ since'[q][z] = since[q][z] \cup {p}
      BY <1>8, <1>9, <2>3
    <3>2. IsFiniteSet(since'[q][z]) /\ since[q][z] \subseteq since'[q][z]
      <4>1. IsFiniteSet(since[q][z])
        BY <1>1, Typing
      <4>2. IsFiniteSet(since[q][z] \cup {p})
        BY <4>1, FS_AddElement
      <4> QED BY <3>1, <4>2
    <3>3. CASE Cardinality(since[q][z]) >= DebounceSlots
      <4>1. Cardinality(since[q][z]) <= Cardinality(since'[q][z])
        BY <3>2, FS_Subset
      <4>2. Cardinality(since[q][z]) \in Nat /\ Cardinality(since'[q][z]) \in Nat /\ DebounceSlots \in Nat
        BY <1>1, <3>2, Typing, FS_CardinalityType, DebounceAssumption
      <4> QED BY <3>3, <4>1, <4>2
    <3>4. ASSUME NEW j \in TableSlots, table[j].peer = q, table[j][z] = passed[q][z]
          PROVE  InTable(q, z)' \/ Cardinality(since'[q][z]) >= DebounceSlots
      <4>1. CASE j # i
        BY <1>7, <3>1, <3>4, <4>1 DEF InTable
      <4>2. CASE j = i
        <5>1. SlotsOf(p) = {}
          BY <1>10, <2>3, <3>4, <4>2 DEF SlotsOf
        <5>2. SlotsOf(Unassigned) = {} /\ i \in Quietest
          BY <1>3, <3>4, <4>2, <5>1, DebounceAssumption DEF Chosen, SlotsOf
        <5>3. table[i][z] # 0 /\ since[table[i].peer][z] \subseteq since'[q][z] /\ p \in since'[q][z]
          BY <3>1, <3>2, <3>4, <4>2
        <5> QED BY <1>1, <1>2, <3>2, <5>1, <5>2, <5>3, Crowd
      <4> QED BY <4>1, <4>2
    <3> QED BY <1>1, <3>1, <3>3, <3>4 DEF Held, InTable
  <2> QED BY <2>1, <2>2, <2>3
<1> QED BY <1>11, <1>12, <1>13, <1>14, <1>15, <1>16 DEF DebounceInv

(***************************************************************************)
(* The other steps.                                                        *)
(***************************************************************************)
LEMMA Unwritten ==
    ASSUME DebounceInv, UNCHANGED <<table, passed, since>>, DebounceTypeOK', Requested'
    PROVE  DebounceInv'
BY DEF DebounceInv, OneSlotEach, UpToDate, Counted, Held, InTable

LEMMA StampedStep ==
    ASSUME DebounceInv, NEW t \in Recorders, NEW p \in Recorded, NEW y \in Types, Stamped(t, p, y)
    PROVE  DebounceInv'
<1>1. DebounceTypeOK /\ Requested
  BY DEF DebounceInv
<1>2. /\ mono < MaxMono /\ mono' = mono + 1 /\ UNCHANGED <<table, passed, since>>
      /\ asked' = [asked EXCEPT ![t] = [peer |-> p, type |-> y, mono |-> mono + 1]]
  BY DEF Stamped
<1>3. mono' \in 0..MaxMono
  BY <1>1, <1>2, DebounceAssumption DEF DebounceTypeOK
<1>4. asked' \in [Recorders -> Requests]
  BY <1>1, <1>2, <1>3 DEF DebounceTypeOK, Requests
<1>5. DebounceTypeOK'
  BY <1>1, <1>2, <1>3, <1>4 DEF DebounceTypeOK, Requests
<1>6. Requested'
  BY <1>1, <1>2 DEF Requested, DebounceTypeOK
<1> QED BY <1>2, <1>5, <1>6, Unwritten

LEMMA DroppedStep ==
    ASSUME DebounceInv, NEW t \in Recorders, Dropped(t)
    PROVE  DebounceInv'
<1>1. DebounceTypeOK /\ Requested
  BY DEF DebounceInv
<1>2. asked' = [asked EXCEPT ![t] = NoRequest] /\ UNCHANGED <<mono, table, passed, since>>
  BY DEF Dropped
<1>3. asked' \in [Recorders -> Requests]
  BY <1>1, <1>2, DebounceAssumption DEF DebounceTypeOK, Requests, NoRequest, Types
<1>4. DebounceTypeOK'
  BY <1>1, <1>2, <1>3 DEF DebounceTypeOK, Requests
<1>5. Requested'
  BY <1>1, <1>2 DEF Requested, DebounceTypeOK
<1> QED BY <1>2, <1>4, <1>5, Unwritten

LEMMA RestartStep == DebounceRestart => DebounceInv'
<1>1. DebounceRestart => DebounceInit'
  BY DEF DebounceRestart, DebounceInit
<1> QED BY <1>1, TypedInit, PTL

\* The invariant, of every reachable state.
THEOREM DebounceInvAlways == DebounceSpec => []DebounceInv
<1>1. DebounceInv /\ [DebounceNext]_debounceVars => DebounceInv'
  <2> SUFFICES ASSUME DebounceInv, [DebounceNext]_debounceVars PROVE DebounceInv'
    OBVIOUS
  <2>1. ASSUME UNCHANGED debounceVars PROVE DebounceInv'
    <3>1. DebounceTypeOK' /\ Requested' /\ UNCHANGED <<table, passed, since>>
      BY <2>1 DEF debounceVars, DebounceInv, DebounceTypeOK, Requested
    <3> QED BY <3>1, Unwritten
  <2> QED BY <2>1, StampedStep, PassesStep, DroppedStep, RestartStep DEF DebounceNext
<1> QED BY <1>1, TypedInit, PTL DEF DebounceSpec

\* A row goes through although one like it did a moment ago only when at least as many
\* other phones as there are slots were recorded in between.
THEOREM ForgetsOnlyInACrowdAlways == DebounceSpec => ForgetsOnlyInACrowd
<1>1. ASSUME DebounceInv, NEW t \in Recorders, Passes(t), Debounced(passed[asked[t].peer], asked[t])
      PROVE  Cardinality(since[asked[t].peer][asked[t].type]) >= DebounceSlots
  <2> DEFINE r == asked[t]
  <2>1. r.peer \in Recorded /\ r.type \in Types /\ OneSlotEach /\ Held
    BY <1>1 DEF DebounceInv, Passes, Requested, DebounceTypeOK
  <2>2. PICK i \in Chosen(r.peer) : ~Debounced(Taken(i, r.peer), r)
    BY <1>1 DEF Passes
  <2>3. ASSUME InTable(r.peer, r.type) PROVE FALSE
    <3>1. PICK j \in TableSlots : table[j].peer = r.peer /\ table[j][r.type] = passed[r.peer][r.type]
      BY <2>3 DEF InTable
    <3>2. i \in TableSlots /\ table[i].peer = r.peer
      BY <2>2, <3>1 DEF Chosen, SlotsOf
    <3>3. i = j
      BY <2>1, <3>1, <3>2, DebounceAssumption DEF OneSlotEach
    <3> QED BY <1>1, <2>2, <3>1, <3>2, <3>3 DEF Taken, Debounced
  <2> QED BY <1>1, <2>1, <2>3 DEF Held, Debounced
<1>2. DebounceInv =>
        [\A t \in Recorders : Passes(t) =>
            LET r == asked[t] IN
            Debounced(passed[r.peer], r) => Cardinality(since[r.peer][r.type]) >= DebounceSlots
          ]_debounceVars
  BY <1>1
<1> QED BY <1>2, DebounceInvAlways, PTL DEF ForgetsOnlyInACrowd

-----------------------------------------------------------------------------
(***************************************************************************)
(* The paired view, for files of any length and a table of any size.       *)
(***************************************************************************)
Segment == [in : Nat, out : Nat]

SheetTyped ==
    /\ read \in Seq(Lines)
    /\ range \in Ranges
    /\ opens \in [OpenSlots -> Nat]
    /\ segs \in Seq(Segment)

Carried ==
    /\ \A i \in OpenSlots : opens[i] # 0 => opens[i] \in Ins \ lost
    /\ \A i, j \in OpenSlots : opens[i] = opens[j] /\ opens[i] # 0 => i = j
    /\ lost \subseteq Ins

\* The INs after which no row of their person came.
Awaiting == {a \in Ins : \A k \in Looked : a < k => Whose(k) # Whose(a)}

Complete ==
    Unmixed /\ ~Crowded => Segments = Stays /\ StillOpen = Awaiting

SheetInv == SheetTyped /\ Carried /\ NothingIsInvented /\ Complete

(***************************************************************************)
(* One more line.                                                          *)
(***************************************************************************)
LEMMA LineRead ==
    ASSUME SheetTyped, NEW r \in Lines, read' = Append(read, r), UNCHANGED range,
           NEW n, n = Len(read) + 1
    PROVE  /\ Len(read) \in Nat /\ n \in Nat \ {0} /\ DOMAIN read = 1..Len(read)
           /\ read' \in Seq(Lines) /\ DOMAIN read' = 1..n /\ read'[n] = r
           /\ \A m \in 1..Len(read) : read'[m] = read[m] /\ m \in Nat /\ m < n /\ m # 0
           /\ \A m \in 1..n : m \in 1..Len(read) \/ m = n
           /\ Looked \subseteq 1..Len(read) /\ Ins \subseteq Looked
           /\ Looked' = IF InWindow(r, range) THEN Looked \cup {n} ELSE Looked
           /\ Ins' = IF InWindow(r, range) /\ r.type = "in" THEN Ins \cup {n} ELSE Ins
<1>1. Len(read) \in Nat /\ DOMAIN read = 1..Len(read) /\ read \in Seq(Lines)
  BY LenProperties DEF SheetTyped
<1>2. /\ read' \in Seq(Lines) /\ Len(read') = n /\ read'[n] = r
      /\ \A m \in 1..Len(read) : read'[m] = read[m]
  BY <1>1, AppendProperties
<1>3. DOMAIN read' = 1..n
  BY <1>2, LenProperties
<1>4. /\ n \in Nat \ {0} /\ \A m \in 1..Len(read) : m \in Nat /\ m < n /\ m # 0
      /\ \A m \in 1..n : m \in 1..Len(read) \/ m = n
      /\ 1..Len(read) \subseteq 1..n /\ n \in 1..n
  BY <1>1
<1>5. Looked \subseteq 1..Len(read) /\ Ins \subseteq Looked
  BY <1>1 DEF Looked, Ins
<1>6. \A m : m \in Looked' <=> m \in 1..n /\ InWindow(read'[m], range)
  BY <1>3 DEF Looked
<1>7. Looked' = IF InWindow(r, range) THEN Looked \cup {n} ELSE Looked
  <2>1. \A m : m \in Looked <=> m \in 1..Len(read) /\ InWindow(read[m], range)
    BY <1>1 DEF Looked
  <2> QED BY <1>2, <1>4, <1>6, <2>1
<1>8. Ins' = IF InWindow(r, range) /\ r.type = "in" THEN Ins \cup {n} ELSE Ins
  BY <1>2, <1>5, <1>7 DEF Ins
<1> QED BY <1>1, <1>2, <1>3, <1>4, <1>5, <1>7, <1>8

\* Whether two rows are of one person.
Person(r, n) ==
    IF r.wid # 0 THEN <<"worker", r.wid>> ELSE IF r.peer # NoPeer THEN <<"phone", r.peer>> ELSE <<"line", n>>

LEMMA OnePerson ==
    ASSUME NEW r, NEW o, NEW n, NEW m, m # n,
           r.peer = o.peer /\ r.peer # NoPeer => ((r.wid = 0) <=> (o.wid = 0))
    PROVE  Matches(r, o) <=> Person(r, n) = Person(o, m)
BY DEF Matches, Person

\* The slot that an IN goes to.
LEMMA OpenedAt ==
    ASSUME NEW slots \in [OpenSlots -> Nat], NEW n \in Nat, Opened(slots, n)
    PROVE  \E j \in OpenSlots :
             /\ opens' = [slots EXCEPT ![j] = n]
             /\ lost' = lost \cup ({slots[j]} \ {0})
             /\ FreeOpens(slots) # {} => slots[j] = 0
BY DEF Opened, First, SlotFor, FreeOpens

(***************************************************************************)
(* Nothing is invented.                                                    *)
(***************************************************************************)
\* A segment more or not: the table has nothing but what it had and the new line, and
\* nothing is lost but from the table.
LEMMA SegmentStep ==
    ASSUME SheetTyped, Carried, NothingIsInvented, NEW r \in Lines, read' = Append(read, r), UNCHANGED range,
           NEW n, n = Len(read) + 1,
           StillOpen' \subseteq StillOpen \cup {n}, lost' \subseteq lost \cup StillOpen,
           \/ UNCHANGED segs
           \/ \E a \in StillOpen \ (StillOpen' \cup lost'), out \in {0, n} :
                /\ segs' = Append(segs, [in |-> a, out |-> out])
                /\ out = n => InWindow(r, range) /\ r.type = "out" /\ Matches(r, read[a])
    PROVE  NothingIsInvented' /\ segs' \in Seq(Segment)
<1>1. /\ Len(read) \in Nat /\ n \in Nat \ {0} /\ read'[n] = r
      /\ \A m \in 1..Len(read) : read'[m] = read[m] /\ m \in Nat /\ m < n
      /\ Looked \subseteq Looked' /\ Ins \subseteq Ins' /\ Ins \subseteq 1..Len(read)
      /\ Looked \subseteq 1..Len(read) /\ n \notin Ins
      /\ InWindow(r, range) => n \in Looked'
  BY LineRead
<1>2. Len(segs) \in Nat /\ DOMAIN segs = 1..Len(segs) /\ segs \in Seq(Segment)
  BY LenProperties DEF SheetTyped
<1>3. StillOpen \subseteq Ins
  BY DEF StillOpen, Carried
<1>4. ASSUME NEW k \in 1..Len(segs)
      PROVE  /\ segs[k].in \in Ins' \ (StillOpen' \cup lost')
             /\ segs[k].in \notin StillOpen
             /\ segs[k].out # 0 =>
                 /\ segs[k].out \in Looked' /\ segs[k].in < segs[k].out
                 /\ read'[segs[k].out].type = "out"
                 /\ Matches(read'[segs[k].out], read'[segs[k].in])
  <2>1. /\ segs[k].in \in Ins \ (StillOpen \cup lost)
        /\ segs[k].out # 0 =>
            /\ segs[k].out \in Looked /\ segs[k].in < segs[k].out
            /\ read[segs[k].out].type = "out"
            /\ Matches(read[segs[k].out], read[segs[k].in])
    BY <1>2 DEF NothingIsInvented
  <2> QED BY <1>1, <2>1
<1>5. \A j, k \in 1..Len(segs) : segs[j].in = segs[k].in => j = k
  BY <1>2 DEF NothingIsInvented
<1>6. CASE UNCHANGED segs
  BY <1>2, <1>4, <1>5, <1>6 DEF NothingIsInvented
<1>7. CASE \E a \in StillOpen \ (StillOpen' \cup lost'), out \in {0, n} :
              /\ segs' = Append(segs, [in |-> a, out |-> out])
              /\ out = n => InWindow(r, range) /\ r.type = "out" /\ Matches(r, read[a])
  <2>1. PICK a \in StillOpen \ (StillOpen' \cup lost'), out \in {0, n} :
              /\ segs' = Append(segs, [in |-> a, out |-> out])
              /\ out = n => InWindow(r, range) /\ r.type = "out" /\ Matches(r, read[a])
    BY <1>7
  <2>2. a \in Ins /\ a \in 1..Len(read) /\ a \in Nat
    BY <1>1, <1>3
  <2>3. [in |-> a, out |-> out] \in Segment
    BY <1>1, <2>2 DEF Segment
  <2>4. /\ segs' \in Seq(Segment) /\ Len(segs') = Len(segs) + 1
        /\ \A k \in 1..Len(segs) : segs'[k] = segs[k]
        /\ segs'[Len(segs) + 1] = [in |-> a, out |-> out]
    <3> DEFINE e == [in |-> a, out |-> out]
    <3>1. e \in Segment /\ segs \in Seq(Segment) /\ segs' = Append(segs, e)
      BY <1>2, <2>1, <2>3
    <3> HIDE DEF e
    <3>2. /\ Append(segs, e) \in Seq(Segment) /\ Len(Append(segs, e)) = Len(segs) + 1
          /\ \A k \in 1..Len(segs) : Append(segs, e)[k] = segs[k]
          /\ Append(segs, e)[Len(segs) + 1] = e
      BY <3>1, AppendProperties
    <3> QED BY <3>1, <3>2 DEF e
  <2>5. DOMAIN segs' = 1..(Len(segs) + 1) /\ \A k \in 1..(Len(segs) + 1) : k \in 1..Len(segs) \/ k = Len(segs) + 1
    BY <1>2, <2>4, LenProperties
  <2>6. \A j, k \in DOMAIN segs' : segs'[j].in = segs'[k].in => j = k
    <3>1. segs'[Len(segs) + 1].in = a /\ \A k \in 1..Len(segs) : segs'[k].in # a
      BY <1>4, <2>4
    <3> QED BY <1>5, <2>4, <2>5, <3>1
  <2>7. /\ a \in Ins' \ (StillOpen' \cup lost')
        /\ out # 0 => /\ out \in Looked' /\ a < out /\ read'[out].type = "out"
                      /\ Matches(read'[out], read'[a])
    BY <1>1, <2>1, <2>2
  <2>8. ASSUME NEW k \in DOMAIN segs'
        PROVE  /\ segs'[k].in \in Ins' \ (StillOpen' \cup lost')
               /\ segs'[k].out # 0 =>
                   /\ segs'[k].out \in Looked' /\ segs'[k].in < segs'[k].out
                   /\ read'[segs'[k].out].type = "out"
                   /\ Matches(read'[segs'[k].out], read'[segs'[k].in])
    <3>1. CASE k \in 1..Len(segs)
      <4>1. segs'[k] = segs[k]
        BY <2>4, <3>1
      <4> QED BY <1>4, <3>1, <4>1
    <3>2. CASE k = Len(segs) + 1
      <4>1. segs'[k].in = a /\ segs'[k].out = out
        BY <2>4, <3>2
      <4> QED BY <2>1, <2>7, <4>1
    <3> QED BY <2>5, <3>1, <3>2
  <2> QED BY <2>4, <2>6, <2>8 DEF NothingIsInvented
<1> QED BY <1>6, <1>7


\* The table after an IN: whatever was freed before, each IN is in one place.
LEMMA TableStep ==
    ASSUME SheetTyped, Carried, NEW slots \in [OpenSlots -> Nat],
           \A k \in OpenSlots : slots[k] = opens[k] \/ slots[k] = 0,
           NEW n \in Nat \ {0}, Opened(slots, n), Ins' = Ins \cup {n}, n \notin Ins
    PROVE  /\ Carried' /\ opens' \in [OpenSlots -> Nat]
           /\ StillOpen' \subseteq ({slots[k] : k \in OpenSlots} \ {0}) \cup {n}
           /\ lost' \subseteq lost \cup ({slots[k] : k \in OpenSlots} \ {0})
<1>1. PICK j \in OpenSlots : opens' = [slots EXCEPT ![j] = n] /\ lost' = lost \cup ({slots[j]} \ {0})
  BY OpenedAt
<1>2. opens' \in [OpenSlots -> Nat] /\ opens'[j] = n /\ \A k \in OpenSlots : k # j => opens'[k] = slots[k]
  BY <1>1
<1>3. \A i, k \in OpenSlots : slots[i] = slots[k] /\ slots[i] # 0 => i = k
  BY DEF Carried
<1>4. \A i \in OpenSlots : slots[i] # 0 => slots[i] \in Ins /\ slots[i] \notin lost /\ slots[i] # n
  BY DEF Carried
<1>5. lost \subseteq Ins /\ n \notin lost
  BY DEF Carried
<1>6. ASSUME NEW i \in OpenSlots, opens'[i] # 0
      PROVE  opens'[i] \in Ins' \ lost'
  <2>1. CASE i = j
    BY <1>1, <1>2, <1>4, <1>5, <2>1
  <2>2. CASE i # j
    BY <1>1, <1>2, <1>3, <1>4, <1>6, <2>2
  <2> QED BY <2>1, <2>2
<1>7. ASSUME NEW i \in OpenSlots, NEW k \in OpenSlots, opens'[i] = opens'[k], opens'[i] # 0
      PROVE  i = k
  BY <1>2, <1>3, <1>4, <1>7
<1>8. lost' \subseteq Ins'
  BY <1>1, <1>4, <1>5
<1>9. Carried'
  BY <1>6, <1>7, <1>8 DEF Carried, OpenSlots
<1>10. StillOpen' \subseteq ({slots[k] : k \in OpenSlots} \ {0}) \cup {n}
  <2>1. ASSUME NEW x \in StillOpen'
        PROVE  x = n \/ (x # 0 /\ \E k \in OpenSlots : slots[k] = x)
    <3>1. PICK i \in OpenSlots : opens'[i] = x /\ x # 0
      BY DEF StillOpen, OpenSlots
    <3> QED BY <1>2, <3>1
  <2> QED BY <2>1
<1>11. lost' \subseteq lost \cup ({slots[k] : k \in OpenSlots} \ {0})
  BY <1>1
<1> QED BY <1>2, <1>9, <1>10, <1>11

LEMMA NothingStep ==
    ASSUME TimesheetAssumption, SheetTyped, Carried, NothingIsInvented, NEW r \in Lines,
           read' = Append(read, r), UNCHANGED range, Paired(r)
    PROVE  SheetTyped' /\ Carried' /\ NothingIsInvented'
<1> DEFINE n == Len(read) + 1
<1>1. /\ n \in Nat \ {0} /\ read' \in Seq(Lines) /\ n \notin Ins /\ Ins \subseteq Ins'
      /\ InWindow(r, range) /\ r.type = "in" => Ins' = Ins \cup {n}
      /\ ~(InWindow(r, range) /\ r.type = "in") => Ins' = Ins
  BY LineRead
<1>2. opens \in [OpenSlots -> Nat] /\ range' \in Ranges /\ segs \in Seq(Segment)
  BY DEF SheetTyped
<1> HIDE DEF n
<1>3. n = Len(read) + 1
  BY DEF n
<1>4. CASE InWindow(r, range) /\ r.type = "in" /\ Hits(r) = {} /\ Opened(opens, n) /\ UNCHANGED segs
  <2>1. /\ Carried' /\ opens' \in [OpenSlots -> Nat]
        /\ StillOpen' \subseteq StillOpen \cup {n} /\ lost' \subseteq lost \cup StillOpen
    <3>1. \A k \in OpenSlots : opens[k] = opens[k] \/ opens[k] = 0
      OBVIOUS
    <3> QED BY <1>1, <1>2, <1>4, <3>1, TableStep DEF StillOpen
  <2>2. NothingIsInvented' /\ segs' \in Seq(Segment)
    BY <1>3, <1>4, <2>1, SegmentStep
  <2> QED BY <1>1, <1>2, <2>1, <2>2 DEF SheetTyped
<1>5. ASSUME NEW i \in Hits(r), InWindow(r, range), r.type = "in", segs' = Emitted(opens[i], 0),
             Opened([opens EXCEPT ![i] = 0], n)
      PROVE  SheetTyped' /\ Carried' /\ NothingIsInvented'
  <2> DEFINE slots == [opens EXCEPT ![i] = 0]
  <2>1. i \in OpenSlots /\ opens[i] # 0
    BY DEF Hits
  <2>2. /\ slots \in [OpenSlots -> Nat] /\ slots[i] = 0
        /\ \A k \in OpenSlots : slots[k] = opens[k] \/ slots[k] = 0
        /\ \A k \in OpenSlots : k # i => slots[k] = opens[k]
    BY <1>2, <2>1
  <2>3. Opened(slots, n)
    BY <1>5
  <2> HIDE DEF slots
  <2>4. /\ Carried' /\ opens' \in [OpenSlots -> Nat]
        /\ StillOpen' \subseteq ({slots[k] : k \in OpenSlots} \ {0}) \cup {n}
        /\ lost' \subseteq lost \cup ({slots[k] : k \in OpenSlots} \ {0})
    BY <1>1, <1>5, <2>2, <2>3, TableStep
  <2>5. {slots[k] : k \in OpenSlots} \ {0} \subseteq StillOpen
    BY <2>2 DEF StillOpen
  <2>6. opens[i] \in Ins /\ opens[i] \notin lost /\ opens[i] # n /\ opens[i] \in StillOpen
    BY <1>1, <2>1 DEF Carried, StillOpen
  <2>7. \A k \in OpenSlots : slots[k] # opens[i] 
    BY <2>1, <2>2 DEF Carried
  <2>8. opens[i] \in StillOpen \ (StillOpen' \cup lost')
    BY <2>4, <2>6, <2>7
  <2>9. NothingIsInvented' /\ segs' \in Seq(Segment)
    <3>1. \E a \in StillOpen \ (StillOpen' \cup lost'), out \in {0, n} :
            /\ segs' = Append(segs, [in |-> a, out |-> out])
            /\ out = n => InWindow(r, range) /\ r.type = "out" /\ Matches(r, read[a])
      <4>1. segs' = Append(segs, [in |-> opens[i], out |-> 0]) /\ 0 # n
        BY <1>1, <1>5 DEF Emitted
      <4> QED BY <2>8, <4>1
    <3>2. StillOpen' \subseteq StillOpen \cup {n} /\ lost' \subseteq lost \cup StillOpen
      BY <2>4, <2>5
    <3> QED BY <1>3, <3>1, <3>2, SegmentStep
  <2> QED BY <1>1, <1>2, <2>4, <2>9 DEF SheetTyped
<1>6. ASSUME opens' \in [OpenSlots -> Nat], \A k \in OpenSlots : opens'[k] = opens[k] \/ opens'[k] = 0,
             UNCHANGED lost
      PROVE  Carried' /\ StillOpen' \subseteq StillOpen \cup {n} /\ lost' \subseteq lost \cup StillOpen
  <2>1. \A k \in OpenSlots : opens'[k] # 0 => opens'[k] \in Ins' \ lost'
    BY <1>1, <1>6 DEF Carried
  <2>2. \A k, m \in OpenSlots : opens'[k] = opens'[m] /\ opens'[k] # 0 => k = m
    BY <1>6 DEF Carried
  <2>3. lost' \subseteq Ins'
    BY <1>1, <1>6 DEF Carried
  <2>4. Carried'
    BY <2>1, <2>2, <2>3 DEF Carried, OpenSlots
  <2>5. StillOpen' \subseteq StillOpen
    BY <1>6 DEF StillOpen
  <2> QED BY <1>6, <2>4, <2>5
<1>7. CASE UNCHANGED <<opens, segs, lost>>
  <2>1. Carried' /\ StillOpen' \subseteq StillOpen \cup {n} /\ lost' \subseteq lost \cup StillOpen
    BY <1>2, <1>6, <1>7
  <2>2. NothingIsInvented' /\ segs' \in Seq(Segment)
    BY <1>3, <1>7, <2>1, SegmentStep
  <2> QED BY <1>1, <1>2, <1>7, <2>1, <2>2 DEF SheetTyped
<1>8. ASSUME NEW i \in Hits(r), InWindow(r, range), r.type = "out", segs' = Emitted(opens[i], n),
             opens' = AfterOut(i), UNCHANGED lost
      PROVE  SheetTyped' /\ Carried' /\ NothingIsInvented'
  <2>1. i \in OpenSlots /\ opens[i] # 0 /\ Matches(r, read[opens[i]])
    BY DEF Hits
  <2>2. /\ opens' \in [OpenSlots -> Nat] /\ opens'[i] = 0
        /\ \A k \in OpenSlots : opens'[k] = opens[k] \/ opens'[k] = 0
        /\ \A k \in OpenSlots : k # i => opens'[k] = opens[k]
    BY <1>2, <1>8, <2>1 DEF AfterOut
  <2>3. Carried' /\ StillOpen' \subseteq StillOpen \cup {n} /\ lost' \subseteq lost \cup StillOpen
    BY <1>6, <1>8, <2>2
  <2>4. opens[i] \in StillOpen /\ opens[i] \notin lost'
    BY <1>8, <2>1 DEF Carried, StillOpen
  <2>5. \A k \in OpenSlots : opens'[k] # opens[i]
    BY <2>1, <2>2 DEF Carried
  <2>6. opens[i] \in StillOpen \ (StillOpen' \cup lost')
    BY <2>4, <2>5 DEF StillOpen
  <2>7. \E a \in StillOpen \ (StillOpen' \cup lost'), out \in {0, n} :
            /\ segs' = Append(segs, [in |-> a, out |-> out])
            /\ out = n => InWindow(r, range) /\ r.type = "out" /\ Matches(r, read[a])
    <3>1. segs' = Append(segs, [in |-> opens[i], out |-> n])
      BY <1>8 DEF Emitted
    <3> QED BY <1>8, <2>1, <2>6, <3>1
  <2>8. NothingIsInvented' /\ segs' \in Seq(Segment)
    BY <1>3, <2>3, <2>7, SegmentStep
  <2> QED BY <1>1, <1>2, <2>2, <2>3, <2>8 DEF SheetTyped
<1>9. CASE PairedIn(r)
  BY <1>3, <1>4, <1>5, <1>9 DEF PairedIn
<1>10. CASE PairedOut(r)
  BY <1>3, <1>7, <1>8, <1>10 DEF PairedOut
<1>11. CASE PairedSkips(r)
  BY <1>7, <1>11 DEF PairedSkips
<1> QED BY <1>9, <1>10, <1>11 DEF Paired

(***************************************************************************)
(* Every stay is shown.                                                    *)
(***************************************************************************)
\* The new line is looked at or not; the lines before it stay what they were.
LEMMA EndsStep ==
    ASSUME SheetTyped, NEW r \in Lines, read' = Append(read, r), UNCHANGED range,
           NEW n, n = Len(read) + 1
    PROVE  /\ \A a, m \in 1..Len(read) : Ends(a, m)' <=> Ends(a, m)
           /\ \A a \in 1..Len(read) : ~Ends(n, a)' 
           /\ ~Ends(n, n)'
           /\ \A a \in 1..Len(read) :
                Ends(a, n)' <=> /\ InWindow(r, range) /\ Person(r, n) = Whose(a)
                                /\ \A k \in Looked : a < k => Whose(k) # Whose(a)
           /\ Whose(n)' = Person(r, n) /\ \A a \in 1..Len(read) : Whose(a)' = Whose(a)
           /\ \A a \in 1..Len(read) : OutOf(a)' = OutOf(a)
           /\ OutOf(n)' = IF r.type = "out" THEN n ELSE 0
<1>1. /\ Len(read) \in Nat /\ n \in Nat \ {0} /\ read'[n] = r
      /\ \A m \in 1..Len(read) : read'[m] = read[m] /\ m \in Nat /\ m < n
      /\ Looked \subseteq 1..Len(read)
      /\ Looked' = IF InWindow(r, range) THEN Looked \cup {n} ELSE Looked
  BY LineRead
<1>2. Whose(n)' = Person(r, n)
  BY <1>1 DEF Whose, Person
<1>3. ASSUME NEW a \in 1..Len(read)
      PROVE  Whose(a)' = Whose(a) /\ OutOf(a)' = OutOf(a)
  BY <1>1 DEF Whose, OutOf
<1>4. ASSUME NEW a \in 1..Len(read), NEW m \in 1..Len(read)
      PROVE  Ends(a, m)' <=> Ends(a, m)
  <2>1. Ends(a, m)' <=> /\ m \in Looked' /\ a < m /\ Whose(m)' = Whose(a)'
                        /\ \A k \in Looked' : a < k /\ k < m => Whose(k)' # Whose(a)'
    BY DEF Ends, Whose
  <2>2. \A k : k \in Looked' /\ k < m <=> k \in Looked /\ k < m
    BY <1>1
  <2> QED BY <1>1, <1>3, <2>1, <2>2 DEF Ends
<1>5. ASSUME NEW a \in 1..Len(read)
      PROVE  ~Ends(n, a)'
  BY <1>1 DEF Ends
<1>6. ~Ends(n, n)'
  BY <1>1 DEF Ends
<1>7. ASSUME NEW a \in 1..Len(read)
      PROVE  Ends(a, n)' <=> /\ InWindow(r, range) /\ Person(r, n) = Whose(a)
                             /\ \A k \in Looked : a < k => Whose(k) # Whose(a)
  <2>1. Ends(a, n)' <=> /\ n \in Looked' /\ a < n /\ Whose(n)' = Whose(a)'
                        /\ \A k \in Looked' : a < k /\ k < n => Whose(k)' # Whose(a)'
    BY DEF Ends, Whose
  <2>2. n \in Looked' <=> InWindow(r, range)
    BY <1>1
  <2>3. \A k : (k \in Looked' /\ k < n) <=> k \in Looked
    <3>1. \A k : k \in Looked => k \in Looked' /\ k < n
      BY <1>1
    <3>2. ~(n < n) /\ \A k : k \in Looked' => k \in Looked \/ k = n
      BY <1>1
    <3> QED BY <3>1, <3>2
  <2> QED BY <1>1, <1>2, <1>3, <2>1, <2>2, <2>3
<1>8. OutOf(n)' = IF r.type = "out" THEN n ELSE 0
  BY <1>1 DEF OutOf
<1> QED BY <1>2, <1>3, <1>4, <1>5, <1>6, <1>7, <1>8

LEMMA AwaitingStep ==
    ASSUME SheetTyped, NEW r \in Lines, read' = Append(read, r), UNCHANGED range,
           NEW n, n = Len(read) + 1
    PROVE  /\ ~InWindow(r, range) => Awaiting' = Awaiting
           /\ InWindow(r, range) =>
                Awaiting' = {a \in Awaiting : Person(r, n) # Whose(a)}
                            \cup (IF r.type = "in" THEN {n} ELSE {})
<1>1. /\ Len(read) \in Nat /\ n \in Nat \ {0} /\ n \notin Ins /\ n \notin Looked
      /\ \A m \in 1..Len(read) : m \in Nat /\ m < n
      /\ Looked \subseteq 1..Len(read) /\ Ins \subseteq 1..Len(read)
      /\ Looked' = IF InWindow(r, range) THEN Looked \cup {n} ELSE Looked
      /\ Ins' = IF InWindow(r, range) /\ r.type = "in" THEN Ins \cup {n} ELSE Ins
  BY LineRead
<1>2. Whose(n)' = Person(r, n) /\ \A a \in 1..Len(read) : Whose(a)' = Whose(a)
  BY EndsStep
<1>3. \A a : a \in Awaiting' <=> a \in Ins' /\ \A k \in Looked' : a < k => Whose(k)' # Whose(a)'
  BY DEF Awaiting, Whose
<1>4. \A a \in Ins : a \in Awaiting' <=> /\ a \in Awaiting
                                         /\ InWindow(r, range) => Person(r, n) # Whose(a)
  BY <1>1, <1>2, <1>3 DEF Awaiting
<1>5. n \in Awaiting' <=> InWindow(r, range) /\ r.type = "in"
  BY <1>1, <1>3
<1>6. Awaiting \subseteq Ins /\ \A a \in Awaiting' : a \in Ins \/ a = n
  BY <1>1, <1>3 DEF Awaiting
<1>7. CASE ~InWindow(r, range)
  BY <1>4, <1>5, <1>6, <1>7
<1>8. CASE InWindow(r, range) /\ r.type = "in"
  BY <1>1, <1>4, <1>5, <1>6, <1>8
<1>9. CASE InWindow(r, range) /\ r.type # "in"
  BY <1>1, <1>4, <1>5, <1>6, <1>9
<1> QED BY <1>7, <1>8, <1>9

LEMMA StaysStep ==
    ASSUME SheetTyped, NEW r \in Lines, read' = Append(read, r), UNCHANGED range,
           NEW n, n = Len(read) + 1
    PROVE  \A s : s \in Stays' <=> \/ s \in Stays
                                   \/ \E a \in Awaiting :
                                        /\ InWindow(r, range) /\ Person(r, n) = Whose(a)
                                        /\ s = [in |-> a, out |-> IF r.type = "out" THEN n ELSE 0]
<1>1. /\ Len(read) \in Nat /\ n \in Nat \ {0} /\ n \notin Ins /\ n \notin Looked
      /\ \A m \in 1..Len(read) : m \in Nat /\ m < n
      /\ Looked \subseteq 1..Len(read) /\ Ins \subseteq 1..Len(read)
      /\ Looked' = IF InWindow(r, range) THEN Looked \cup {n} ELSE Looked
      /\ Ins' = IF InWindow(r, range) /\ r.type = "in" THEN Ins \cup {n} ELSE Ins
  BY LineRead
<1>2. /\ \A a, m \in 1..Len(read) : Ends(a, m)' <=> Ends(a, m)
      /\ \A a \in 1..Len(read) : ~Ends(n, a)'
      /\ ~Ends(n, n)'
      /\ \A a \in 1..Len(read) :
           Ends(a, n)' <=> /\ InWindow(r, range) /\ Person(r, n) = Whose(a)
                           /\ \A k \in Looked : a < k => Whose(k) # Whose(a)
      /\ \A a \in 1..Len(read) : OutOf(a)' = OutOf(a)
      /\ OutOf(n)' = IF r.type = "out" THEN n ELSE 0
  BY EndsStep
<1> DEFINE New(a) == [in |-> a, out |-> IF r.type = "out" THEN n ELSE 0]
<1>3. \A s : s \in Stays <=> \E a \in Ins, m \in Looked : Ends(a, m) /\ s = [in |-> a, out |-> OutOf(m)]
  <2> DEFINE P == {q \in Ins \X Looked : Ends(q[1], q[2])}
  <2>1. \A q \in P : q[1] \in Ins /\ q[2] \in Looked /\ Ends(q[1], q[2])
    OBVIOUS
  <2>2. ASSUME NEW a \in Ins, NEW m \in Looked, Ends(a, m)
        PROVE  \E q \in P : q[1] = a /\ q[2] = m
    <3>1. <<a, m>> \in Ins \X Looked /\ <<a, m>>[1] = a /\ <<a, m>>[2] = m
      OBVIOUS
    <3> DEFINE q == <<a, m>>
    <3>2. q \in P
      BY <2>2, <3>1 
    <3> QED BY <3>1, <3>2
  <2>3. \A s : s \in Stays <=> \E q \in P : s = [in |-> q[1], out |-> OutOf(q[2])]
    BY DEF Stays
  <2> HIDE DEF P
  <2> QED BY <2>1, <2>2, <2>3
<1>4. \A s : s \in Stays' <=> \E a \in Ins', m \in Looked' : Ends(a, m)' /\ s = [in |-> a, out |-> OutOf(m)']
  <2> DEFINE P == {q \in Ins' \X Looked' : Ends(q[1], q[2])'}
  <2>1. \A q \in P : q[1] \in Ins' /\ q[2] \in Looked' /\ Ends(q[1], q[2])'
    OBVIOUS
  <2>2. ASSUME NEW a \in Ins', NEW m \in Looked', Ends(a, m)'
        PROVE  \E q \in P : q[1] = a /\ q[2] = m
    <3>1. <<a, m>> \in Ins' \X Looked' /\ <<a, m>>[1] = a /\ <<a, m>>[2] = m
      OBVIOUS
    <3> DEFINE q == <<a, m>>
    <3>2. q \in P
      BY <2>2, <3>1 DEF Ends, Whose
    <3> QED BY <3>1, <3>2
  <2>3. \A s : s \in Stays' <=> \E q \in P : s = [in |-> q[1], out |-> OutOf(q[2])']
    BY DEF Stays, Ends, Whose, OutOf
  <2> HIDE DEF P
  <2> QED BY <2>1, <2>2, <2>3
<1>5. \A a \in Ins : Ends(a, n)' <=> InWindow(r, range) /\ Person(r, n) = Whose(a) /\ a \in Awaiting
  BY <1>1, <1>2 DEF Awaiting
<1>6. ASSUME NEW s, s \in Stays'
      PROVE  s \in Stays \/ \E a \in Awaiting :
               InWindow(r, range) /\ Person(r, n) = Whose(a) /\ s = New(a)
  <2>1. PICK a \in Ins', m \in Looked' : Ends(a, m)' /\ s = [in |-> a, out |-> OutOf(m)']
    BY <1>4, <1>6
  <2>2. (a \in Ins \/ a = n) /\ (m \in Looked \/ m = n)
    BY <1>1
  <2>3. a \in Ins
    BY <1>1, <1>2, <2>1, <2>2
  <2>4. CASE m \in Looked
    <3>1. Ends(a, m) /\ OutOf(m)' = OutOf(m)
      BY <1>1, <1>2, <2>1, <2>3, <2>4
    <3> QED BY <1>3, <2>1, <2>3, <2>4, <3>1
  <2>5. CASE m = n
    BY <1>2, <1>5, <2>1, <2>3, <2>5
  <2> QED BY <2>2, <2>4, <2>5
<1>7. ASSUME NEW s, s \in Stays
      PROVE  s \in Stays'
  <2>1. PICK a \in Ins, m \in Looked : Ends(a, m) /\ s = [in |-> a, out |-> OutOf(m)]
    BY <1>3, <1>7
  <2>2. Ends(a, m)' /\ OutOf(m)' = OutOf(m) /\ a \in Ins' /\ m \in Looked'
    BY <1>1, <1>2, <2>1
  <2> QED BY <1>4, <2>1, <2>2
<1>8. ASSUME NEW a \in Awaiting, InWindow(r, range), Person(r, n) = Whose(a)
      PROVE  New(a) \in Stays'
  <2>1. a \in Ins /\ a \in Ins' /\ n \in Looked'
    BY <1>1, <1>8 DEF Awaiting
  <2>2. Ends(a, n)'
    BY <1>5, <1>8, <2>1
  <2> QED BY <1>2, <1>4, <2>1, <2>2
<1> QED BY <1>6, <1>7, <1>8

\* Once crowded, always crowded; and those that nobody followed were in.
LEMMA CrowdStep ==
    ASSUME TimesheetAssumption, SheetTyped, NEW r \in Lines, read' = Append(read, r), UNCHANGED range,
           ~Crowded'
    PROVE  ~Crowded /\ IsFiniteSet(Awaiting') /\ Cardinality(Awaiting') <= MaxOpen
<1>0. PICK n : n = Len(read) + 1
  OBVIOUS
<1>1. /\ Len(read) \in Nat /\ n \in Nat \ {0}
      /\ DOMAIN read = 1..Len(read) /\ DOMAIN read' = 1..n
      /\ \A m \in 1..Len(read) : m \in Nat /\ m < n
      /\ Looked \subseteq 1..Len(read) /\ Ins \subseteq 1..Len(read)
      /\ \A k : k \in Looked' => k \in Looked \/ k = n
      /\ \A k : k \in Ins' => k \in Ins \/ k = n
      /\ Looked \subseteq Looked' /\ Ins \subseteq Ins'
  BY <1>0, LineRead
<1>2. \A a, m \in 1..Len(read) : Ends(a, m)' <=> Ends(a, m)
  BY <1>0, EndsStep
<1>3. ASSUME NEW k
      PROVE  \A a : a \in InAfter(k)' <=> a \in Ins' /\ a <= k /\ \A m \in Looked' : m <= k => ~Ends(a, m)'
  BY DEF InAfter, Ends, Whose
<1>4. \A k \in 1..n : Cardinality(InAfter(k)') <= MaxOpen \/ ~(Cardinality(InAfter(k)') \in Nat)
  <2>1. \A k \in DOMAIN read' : ~(Cardinality(InAfter(k)') > MaxOpen)
    BY DEF Crowded, InAfter, Ends, Whose
  <2> QED BY <1>1, <2>1 DEF TimesheetAssumption
<1>5. ASSUME NEW k \in 1..Len(read)
      PROVE  InAfter(k)' = InAfter(k)
  <2>1. \A m \in 1..Len(read) : m \in Looked' <=> m \in Looked
    BY <1>1
  <2>2. \A a : (a \in Ins' /\ a <= k) <=> (a \in Ins /\ a <= k)
    <3>1. ~(n <= k)
      BY <1>1
    <3> QED BY <1>1, <3>1
  <2>3. ASSUME NEW a \in 1..Len(read)
        PROVE  (\A m \in Looked' : m <= k => ~Ends(a, m)') <=> (\A m \in Looked : m <= k => ~Ends(a, m))
    BY <1>1, <1>2
  <2>4. \A a : a \in InAfter(k) <=> a \in Ins /\ a <= k /\ \A m \in Looked : m <= k => ~Ends(a, m)
    BY DEF InAfter
  <2>5. \A a : a \in InAfter(k)' <=> a \in InAfter(k)
    BY <1>1, <1>3, <2>2, <2>3, <2>4
  <2> QED BY <2>5
<1>6. ~Crowded
  <2>1. ASSUME NEW k \in DOMAIN read, Cardinality(InAfter(k)) > MaxOpen
        PROVE  FALSE
    <3>1. k \in 1..Len(read) /\ k \in DOMAIN read'
      BY <1>1
    <3>2. Cardinality(InAfter(k)') > MaxOpen
      BY <1>5, <2>1, <3>1
    <3> QED BY <3>1, <3>2 DEF Crowded, InAfter, Ends, Whose
  <2> QED BY <2>1 DEF Crowded
<1>7. Awaiting' \subseteq InAfter(n)'
  <2>1. \A a : a \in Awaiting' <=> a \in Ins' /\ \A m \in Looked' : a < m => Whose(m)' # Whose(a)'
    BY DEF Awaiting, Whose
  <2>2. \A a, m : Ends(a, m)' => a < m /\ Whose(m)' = Whose(a)'
    BY DEF Ends, Whose
  <2>3. \A a \in Ins' : a <= n
    BY <1>1
  <2> QED BY <1>3, <2>1, <2>2, <2>3
<1>8. IsFiniteSet(InAfter(n)')
  <2>1. InAfter(n)' \subseteq 1..n
    <3>1. Ins' \subseteq 1..n
      BY <1>1
    <3> QED BY <1>3, <3>1
  <2>2. IsFiniteSet(1..n)
    BY <1>1, FS_Interval
  <2> QED BY <2>1, <2>2, FS_Subset
<1>9. IsFiniteSet(Awaiting') /\ Cardinality(Awaiting') <= Cardinality(InAfter(n)')
  BY <1>7, <1>8, FS_Subset
<1>10. Cardinality(Awaiting') \in Nat /\ Cardinality(InAfter(n)') \in Nat
  BY <1>8, <1>9, FS_CardinalityType
<1>11. n \in 1..n
  BY <1>1
<1> QED BY <1>4, <1>6, <1>9, <1>10, <1>11 DEF TimesheetAssumption

LEMMA UnmixedStep ==
    ASSUME SheetTyped, NEW r \in Lines, read' = Append(read, r), UNCHANGED range, Unmixed',
           NEW n, n = Len(read) + 1
    PROVE  Unmixed /\ \A m \in 1..Len(read) : Matches(r, read[m]) <=> Person(r, n) = Whose(m)
<1>1. /\ Len(read) \in Nat /\ n \in Nat /\ n \in 1..n
      /\ DOMAIN read = 1..Len(read) /\ DOMAIN read' = 1..n /\ read'[n] = r
      /\ \A m \in 1..Len(read) : read'[m] = read[m] /\ m \in 1..n /\ m # n
  BY LineRead
<1>2. \A m, k \in 1..n :
        read'[m].peer = read'[k].peer /\ read'[m].peer # NoPeer => (read'[m].wid = 0) = (read'[k].wid = 0)
  BY <1>1 DEF Unmixed
<1>3. Unmixed
  BY <1>1, <1>2 DEF Unmixed
<1>4. ASSUME NEW m \in 1..Len(read)
      PROVE  Matches(r, read[m]) <=> Person(r, n) = Whose(m)
  <2>1. r.peer = read[m].peer /\ r.peer # NoPeer => ((r.wid = 0) <=> (read[m].wid = 0))
    BY <1>1, <1>2
  <2>2. Whose(m) = Person(read[m], m)
    BY DEF Whose, Person
  <2>3. m # n
    BY <1>1
  <2> QED BY <2>1, <2>2, <2>3, OnePerson
<1> QED BY <1>3, <1>4

\* There is room for one more: else as many as the table takes were in, and now one more.
LEMMA RoomLeft ==
    ASSUME TimesheetAssumption, SheetTyped, Carried, NEW n, n \notin StillOpen,
           NEW A, IsFiniteSet(A), Cardinality(A) <= MaxOpen, StillOpen \cup {n} \subseteq A
    PROVE  FreeOpens(opens) # {}
<1> SUFFICES ASSUME FreeOpens(opens) = {} PROVE FALSE
  OBVIOUS
<1>1. \A i \in OpenSlots : opens[i] # 0 /\ opens[i] \in StillOpen
  BY DEF FreeOpens, StillOpen
<1>2. \A i, j \in OpenSlots : opens[i] = opens[j] => i = j
  BY <1>1 DEF Carried
<1>3. opens \in [OpenSlots -> StillOpen]
  BY <1>1 DEF SheetTyped
<1>4. opens \in Injection(OpenSlots, StillOpen)
  BY <1>2, <1>3, Fun_IsInj
<1>5. IsFiniteSet(StillOpen)
  <2>1. StillOpen \subseteq A
    OBVIOUS
  <2> QED BY <2>1, FS_Subset
<1>6. Cardinality(OpenSlots) <= Cardinality(StillOpen)
  BY <1>4, <1>5, FS_Injection
<1>7. Cardinality(StillOpen \cup {n}) = Cardinality(StillOpen) + 1
  BY <1>5, FS_AddElement
<1>8. Cardinality(StillOpen \cup {n}) <= Cardinality(A)
  BY FS_Subset
<1>9. Cardinality(OpenSlots) = MaxOpen
  <2>1. MaxOpen \in Nat /\ MaxOpen # 0
    BY DEF TimesheetAssumption
  <2>2. Cardinality(1..MaxOpen) = IF 1 > MaxOpen THEN 0 ELSE MaxOpen - 1 + 1
    BY <2>1, FS_Interval
  <2> QED BY <2>1, <2>2 DEF OpenSlots
<1>10. Cardinality(StillOpen) \in Nat /\ Cardinality(A) \in Nat /\ MaxOpen \in Nat
  BY <1>5, FS_CardinalityType DEF TimesheetAssumption
<1> QED BY <1>6, <1>7, <1>8, <1>9, <1>10

LEMMA OneMore ==
    ASSUME segs \in Seq(Segment), NEW e \in Segment, segs' = Append(segs, e)
    PROVE  Segments' = Segments \cup {e}
<1>1. /\ segs' \in Seq(Segment) /\ Len(segs') = Len(segs) + 1 /\ Len(segs) \in Nat
      /\ \A k \in 1..Len(segs) : segs'[k] = segs[k]
      /\ segs'[Len(segs) + 1] = e
  BY AppendProperties, LenProperties
<1>2. DOMAIN segs' = 1..(Len(segs) + 1) /\ DOMAIN segs = 1..Len(segs)
  BY <1>1, LenProperties
<1>3. \A x : x \in Segments' <=> \E k \in 1..(Len(segs) + 1) : segs'[k] = x
  BY <1>2 DEF Segments
<1>4. \A x : x \in Segments <=> \E k \in 1..Len(segs) : segs[k] = x
  BY <1>2 DEF Segments
<1>5. \A k \in 1..(Len(segs) + 1) : k \in 1..Len(segs) \/ k = Len(segs) + 1
  BY <1>1
<1>6. 1..Len(segs) \subseteq 1..(Len(segs) + 1) /\ Len(segs) + 1 \in 1..(Len(segs) + 1)
  BY <1>1
<1> QED BY <1>1, <1>3, <1>4, <1>5, <1>6

\* The table after an IN for which there was room.
LEMMA RoomedStep ==
    ASSUME NEW slots \in [OpenSlots -> Nat], NEW n \in Nat \ {0}, Opened(slots, n),
           FreeOpens(slots) # {}
    PROVE  \A x : x \in StillOpen' <=> x = n \/ (x # 0 /\ \E k \in OpenSlots : slots[k] = x)
<1>1. PICK j \in OpenSlots : opens' = [slots EXCEPT ![j] = n] /\ slots[j] = 0
  BY OpenedAt
<1>2. opens'[j] = n /\ \A k \in OpenSlots : k # j => opens'[k] = slots[k]
  BY <1>1
<1>3. \A x : x \in StillOpen' <=> x # 0 /\ \E k \in OpenSlots : opens'[k] = x
  BY DEF StillOpen, OpenSlots
<1> QED BY <1>1, <1>2, <1>3

\* A slot is freed.
LEMMA FreedSlot ==
    ASSUME SheetTyped, Carried, NEW i \in OpenSlots, opens[i] # 0
    PROVE  /\ AfterOut(i) \in [OpenSlots -> Nat] /\ AfterOut(i)[i] = 0
           /\ \A x : x \in StillOpen \ {opens[i]} <=> x # 0 /\ \E k \in OpenSlots : AfterOut(i)[k] = x
<1>1. PICK slots : slots = AfterOut(i)
  OBVIOUS
<1>2. \A x : x \in StillOpen <=> x # 0 /\ \E k \in OpenSlots : opens[k] = x
  BY DEF StillOpen
<1>3. \A j, k \in OpenSlots : opens[j] = opens[k] /\ opens[j] # 0 => j = k
  BY DEF Carried
<1>4. slots \in [OpenSlots -> Nat] /\ slots[i] = 0 /\ \A k \in OpenSlots : k # i => slots[k] = opens[k]
  BY <1>1 DEF AfterOut, SheetTyped
<1>5. \A x : x \in StillOpen \ {opens[i]} => x # 0 /\ \E k \in OpenSlots : slots[k] = x
  BY <1>2, <1>4
<1>6. \A k \in OpenSlots : slots[k] # 0 => slots[k] \in StillOpen \ {opens[i]}
  BY <1>2, <1>3, <1>4
<1> QED BY <1>1, <1>4, <1>5, <1>6

LEMMA CompleteStep ==
    ASSUME TimesheetAssumption, SheetTyped, Carried, Complete, NEW r \in Lines,
           read' = Append(read, r), UNCHANGED range, Paired(r)
    PROVE  Complete'
<1> SUFFICES ASSUME Unmixed', ~Crowded'
             PROVE  Segments' = Stays' /\ StillOpen' = Awaiting'
  BY DEF Complete
<1>0. PICK n : n = Len(read) + 1
  OBVIOUS
<1>1. n \in Nat \ {0} /\ n \notin Ins /\ Ins \subseteq 1..Len(read) /\ Ins \subseteq Nat
  BY <1>0, LineRead
<1>2. Segments = Stays /\ StillOpen = Awaiting
  BY <1>0, UnmixedStep, CrowdStep DEF Complete
<1>3. /\ Awaiting \subseteq Ins
      /\ \A a, b \in Awaiting : Whose(a) = Whose(b) => a = b
  <2>1. Awaiting \subseteq Ins /\ Ins \subseteq Looked
    BY DEF Awaiting, Ins
  <2>2. \A a, b \in Awaiting : a < b => Whose(b) # Whose(a)
    BY <2>1 DEF Awaiting
  <2>3. \A a, b \in Awaiting : a < b \/ b < a \/ a = b
    BY <1>1, <2>1
  <2> QED BY <2>1, <2>2, <2>3
<1>4. \A i \in OpenSlots : i \in Hits(r) <=> opens[i] # 0 /\ Person(r, n) = Whose(opens[i])
  <2>1. \A m \in 1..Len(read) : Matches(r, read[m]) <=> Person(r, n) = Whose(m)
    BY <1>0, UnmixedStep
  <2>2. \A i \in OpenSlots : opens[i] # 0 => opens[i] \in 1..Len(read)
    BY <1>1 DEF Carried
  <2> QED BY <2>1, <2>2 DEF Hits
<1>5. /\ ~InWindow(r, range) => Awaiting' = Awaiting
      /\ InWindow(r, range) => Awaiting' = {a \in Awaiting : Person(r, n) # Whose(a)}
                                           \cup (IF r.type = "in" THEN {n} ELSE {})
  BY <1>0, AwaitingStep
<1>6. \A s : s \in Stays' <=> \/ s \in Stays
                              \/ \E a \in Awaiting :
                                   /\ InWindow(r, range) /\ Person(r, n) = Whose(a)
                                   /\ s = [in |-> a, out |-> IF r.type = "out" THEN n ELSE 0]
  BY <1>0, StaysStep
<1>7. \A x : x \in StillOpen <=> x # 0 /\ \E k \in OpenSlots : opens[k] = x
  BY DEF StillOpen
<1>8. \A i, k \in OpenSlots : opens[i] = opens[k] /\ opens[i] # 0 => i = k
  BY DEF Carried
<1>9. opens \in [OpenSlots -> Nat] /\ segs \in Seq(Segment)
  BY DEF SheetTyped
\* Nobody was in of whom the row is.
<1>10. CASE ~InWindow(r, range) /\ PairedSkips(r)
  <2>1. Segments' = Segments /\ StillOpen' = StillOpen
    BY <1>10 DEF PairedSkips, Segments, StillOpen, OpenSlots
  <2>2. Stays' = Stays
    BY <1>6, <1>10
  <2> QED BY <1>2, <1>5, <1>10, <2>1, <2>2
<1>11. ASSUME InWindow(r, range), Hits(r) = {}
       PROVE  /\ \A a \in Awaiting : Person(r, n) # Whose(a)
              /\ Stays' = Stays
              /\ Awaiting' = Awaiting \cup (IF r.type = "in" THEN {n} ELSE {})
  <2>1. \A a \in Awaiting : Person(r, n) # Whose(a)
    BY <1>2, <1>4, <1>7, <1>11
  <2>2. Stays' = Stays
    BY <1>6, <2>1
  <2>3. Awaiting' = Awaiting \cup (IF r.type = "in" THEN {n} ELSE {})
    BY <1>5, <1>11, <2>1
  <2> QED BY <2>1, <2>2, <2>3
<1>12. CASE InWindow(r, range) /\ r.type = "in" /\ Hits(r) = {} /\ Opened(opens, n) /\ UNCHANGED segs
  <2>1. Stays' = Stays /\ Awaiting' = Awaiting \cup {n}
    BY <1>11, <1>12
  <2>2. IsFiniteSet(Awaiting') /\ Cardinality(Awaiting') <= MaxOpen
    BY CrowdStep
  <2>3. n \notin StillOpen /\ StillOpen \cup {n} \subseteq Awaiting'
    BY <1>1, <1>2, <1>3, <2>1
  <2>4. FreeOpens(opens) # {}
    BY <2>2, <2>3, RoomLeft
  <2>5. \A x : x \in StillOpen' <=> x = n \/ (x # 0 /\ \E k \in OpenSlots : opens[k] = x)
    BY <1>1, <1>9, <1>12, <2>4, RoomedStep
  <2>6. StillOpen' = StillOpen \cup {n}
    BY <1>7, <2>5
  <2>7. Segments' = Segments
    BY <1>12 DEF Segments
  <2> QED BY <1>2, <2>1, <2>6, <2>7
<1>13. CASE InWindow(r, range) /\ r.type = "out" /\ Hits(r) = {} /\ UNCHANGED <<opens, segs>>
  <2>1. Stays' = Stays /\ Awaiting' = Awaiting
    BY <1>11, <1>13
  <2>2. Segments' = Segments /\ StillOpen' = StillOpen
    BY <1>13 DEF Segments, StillOpen, OpenSlots
  <2> QED BY <1>2, <2>1, <2>2
\* The IN in slot i is of the same person, and no other is.
<1>14. ASSUME NEW i \in Hits(r), InWindow(r, range), NEW out,
              out = IF r.type = "out" THEN n ELSE 0,
              segs' = Emitted(opens[i], out)
       PROVE  /\ i \in OpenSlots /\ opens[i] # 0 /\ opens[i] \in Awaiting
              /\ Segments' = Stays'
              /\ Awaiting' = (Awaiting \ {opens[i]}) \cup (IF r.type = "in" THEN {n} ELSE {})
  <2>1. i \in OpenSlots /\ opens[i] # 0 /\ Person(r, n) = Whose(opens[i])
    BY <1>4 DEF Hits
  <2>2. opens[i] \in Awaiting
    BY <1>2, <1>7, <2>1
  <2>3. \A a \in Awaiting : Person(r, n) = Whose(a) <=> a = opens[i]
    BY <1>3, <2>1, <2>2
  <2> DEFINE e == [in |-> opens[i], out |-> out]
  <2>4. e \in Segment
    BY <1>1, <1>9, <1>14, <2>1 DEF Segment
  <2>5. Segments' = Segments \cup {e}
    BY <1>9, <1>14, <2>4, OneMore DEF Emitted
  <2>6. \A s : s \in Stays' <=> s \in Stays \/ s = e
    BY <1>6, <1>14, <2>2, <2>3
  <2>7. Segments' = Stays'
    BY <1>2, <2>5, <2>6
  <2>8. Awaiting' = (Awaiting \ {opens[i]}) \cup (IF r.type = "in" THEN {n} ELSE {})
    BY <1>5, <1>14, <2>3
  <2> QED BY <2>1, <2>2, <2>7, <2>8
<1>16. ASSUME NEW i \in Hits(r), InWindow(r, range), r.type = "in", segs' = Emitted(opens[i], 0),
              Opened([opens EXCEPT ![i] = 0], n)
       PROVE  Segments' = Stays' /\ StillOpen' = Awaiting'
  <2>1. /\ i \in OpenSlots /\ opens[i] # 0 /\ Segments' = Stays'
        /\ Awaiting' = (Awaiting \ {opens[i]}) \cup {n}
    <3>1. 0 = IF r.type = "out" THEN n ELSE 0
      BY <1>16
    <3> QED BY <1>14, <1>16, <3>1
  <2>0. PICK slots : slots = AfterOut(i)
    OBVIOUS
  <2>2. /\ slots \in [OpenSlots -> Nat] /\ slots[i] = 0
        /\ \A x : x \in StillOpen \ {opens[i]} <=> x # 0 /\ \E k \in OpenSlots : slots[k] = x
    BY <2>0, <2>1, FreedSlot
  <2>3. Opened(slots, n)
    BY <1>16, <2>0 DEF AfterOut
  <2>4. FreeOpens(slots) # {}
    BY <2>1, <2>2 DEF FreeOpens
  <2>5. \A x : x \in StillOpen' <=> x = n \/ (x # 0 /\ \E k \in OpenSlots : slots[k] = x)
    BY <1>1, <2>2, <2>3, <2>4, RoomedStep
  <2>6. StillOpen' = (StillOpen \ {opens[i]}) \cup {n}
    BY <2>2, <2>5
  <2> QED BY <1>2, <2>1, <2>6
<1>17. ASSUME NEW i \in Hits(r), InWindow(r, range), r.type = "out", segs' = Emitted(opens[i], n),
              opens' = AfterOut(i)
       PROVE  Segments' = Stays' /\ StillOpen' = Awaiting'
  <2>1. /\ i \in OpenSlots /\ opens[i] # 0 /\ Segments' = Stays'
        /\ Awaiting' = Awaiting \ {opens[i]}
    <3>1. n = IF r.type = "out" THEN n ELSE 0
      BY <1>17
    <3> QED BY <1>14, <1>17, <3>1
  <2>2. \A x : x \in StillOpen \ {opens[i]} <=> x # 0 /\ \E k \in OpenSlots : opens'[k] = x
    BY <1>17, <2>1, FreedSlot
  <2>3. \A x : x \in StillOpen' <=> x # 0 /\ \E k \in OpenSlots : opens'[k] = x
    BY DEF StillOpen, OpenSlots
  <2> QED BY <1>2, <2>1, <2>2, <2>3
<1>18. CASE PairedIn(r)
  BY <1>0, <1>12, <1>16, <1>18 DEF PairedIn
<1>19. CASE PairedOut(r)
  BY <1>0, <1>13, <1>17, <1>19 DEF PairedOut
<1>20. CASE PairedSkips(r)
  BY <1>10, <1>20 DEF PairedSkips
<1> QED BY <1>18, <1>19, <1>20 DEF Paired

\* A person is in when no later row is theirs: a later one would make the next one.
LEMMA InAtTheEnd ==
    ASSUME SheetTyped
    PROVE  InAfter(Len(read)) = Awaiting
<1>1. Len(read) \in Nat /\ DOMAIN read = 1..Len(read)
  BY LenProperties DEF SheetTyped
<1>2. Looked \subseteq 1..Len(read) /\ Ins \subseteq Looked
  BY <1>1 DEF Looked, Ins
<1>3. \A m \in 1..Len(read) : m \in Nat /\ m <= Len(read)
  BY <1>1
<1>4. \A a : a \in InAfter(Len(read)) <=> a \in Ins /\ \A m \in Looked : ~Ends(a, m)
  BY <1>2, <1>3 DEF InAfter
<1>5. Awaiting \subseteq InAfter(Len(read))
  BY <1>4 DEF Awaiting, Ends
<1>6. ASSUME NEW a \in Ins, NEW k \in Looked, a < k, Whose(k) = Whose(a)
      PROVE  \E m \in Looked : Ends(a, m)
  <2> DEFINE S == {m \in Looked : a < m /\ Whose(m) = Whose(a)}
  <2>1. S \in SUBSET Nat /\ S # {}
    BY <1>2, <1>3, <1>6
  <2>2. PICK m \in S : \A j \in S : <<j, m>> \notin OpToRel(<, Nat)
    <3> HIDE DEF S
    <3> QED BY <2>1, WFMin, NatLessThanWellFounded, Zenon
  <2>3. \A j \in S : j \in Nat /\ ~(j < m)
    BY <2>1, <2>2 DEF OpToRel
  <2>4. m \in Looked /\ a < m /\ Whose(m) = Whose(a)
    OBVIOUS
  <2>5. \A j \in Looked : a < j /\ j < m => Whose(j) # Whose(a)
    BY <2>3
  <2> QED BY <2>4, <2>5 DEF Ends
<1>7. InAfter(Len(read)) \subseteq Awaiting
  BY <1>4, <1>6 DEF Awaiting
<1> QED BY <1>5, <1>7

LEMMA NoneTwice ==
    ASSUME SheetTyped, NothingIsInvented
    PROVE  Cardinality(Segments) = Len(segs)
<1>1. Len(segs) \in Nat /\ DOMAIN segs = 1..Len(segs)
  BY LenProperties DEF SheetTyped
<1> DEFINE I == 1..Len(segs)
           f == [k \in I |-> segs[k]]
<1>2. \A x : x \in Segments <=> \E k \in I : segs[k] = x
  BY <1>1 DEF Segments
<1>3. \A j, k \in I : segs[j] = segs[k] => j = k
  BY <1>1 DEF NothingIsInvented
<1>4. f \in [I -> Segments] /\ \A k \in I : f[k] = segs[k]
  BY <1>2
<1>5. IsFiniteSet(I) /\ Cardinality(I) = Len(segs)
  <2>1. IsFiniteSet(I) /\ Cardinality(I) = IF 1 > Len(segs) THEN 0 ELSE Len(segs) - 1 + 1
    BY <1>1, FS_Interval
  <2> QED BY <1>1, <2>1
<1> HIDE DEF I, f
<1>6. f \in Injection(I, Segments)
  BY <1>3, <1>4, Fun_IsInj
<1>7. f \in Surjection(I, Segments)
  BY <1>2, <1>4, Fun_IsSurj
<1>8. ExistsBijection(I, Segments)
  BY <1>6, <1>7 DEF ExistsBijection, Bijection
<1> QED BY <1>5, <1>8, FS_Bijection

(***************************************************************************)
(* The invariant.                                                          *)
(***************************************************************************)

LEMMA SheetInvInit == ASSUME TimesheetAssumption, SheetInit PROVE SheetInv
<1>1. /\ read \in Seq(Lines) /\ DOMAIN read = {} /\ segs \in Seq(Segment) /\ DOMAIN segs = {}
  BY DEF SheetInit
<1>2. SheetTyped
  BY <1>1 DEF SheetInit, SheetTyped
<1>3. Looked = {} /\ Ins = {} /\ StillOpen = {} /\ Segments = {}
  BY <1>1 DEF SheetInit, Looked, Ins, StillOpen, Segments
<1>4. Carried
  BY DEF SheetInit, Carried
<1>5. NothingIsInvented
  BY <1>1 DEF NothingIsInvented
<1>6. Stays = {} /\ Awaiting = {}
  BY <1>3 DEF Stays, Awaiting
<1> QED BY <1>2, <1>3, <1>4, <1>5, <1>6 DEF SheetInv, Complete

LEMMA SheetInvStep == ASSUME TimesheetAssumption, SheetInv, [SheetNext]_sheetVars PROVE SheetInv'
<1>1. CASE Answered
  <2>1. /\ read' \in Seq(Lines) /\ DOMAIN read' = {} /\ segs' \in Seq(Segment) /\ DOMAIN segs' = {}
    BY <1>1 DEF Answered
  <2>2. SheetTyped'
    BY <1>1, <2>1 DEF Answered, SheetTyped, SheetInv, OpenSlots
  <2>3. Looked' = {} /\ Ins' = {} /\ StillOpen' = {} /\ Segments' = {}
    BY <1>1, <2>1 DEF Answered, Looked, Ins, StillOpen, Segments, OpenSlots
  <2>4. Carried'
    BY <1>1 DEF Answered, Carried, OpenSlots
  <2>5. NothingIsInvented'
    BY <2>1 DEF NothingIsInvented
  <2>6. Stays' = {} /\ Awaiting' = {}
    BY <2>3 DEF Stays, Awaiting
  <2> QED BY <2>2, <2>3, <2>4, <2>5, <2>6 DEF SheetInv, Complete
<1>2. CASE \E r \in Lines : ReadLine(r)
  BY <1>2, NothingStep, CompleteStep DEF SheetInv, ReadLine
<1>3. CASE UNCHANGED sheetVars
  <2>1. SheetTyped' /\ Carried' /\ NothingIsInvented'
    BY <1>3 DEF SheetInv, sheetVars, SheetTyped, Carried, NothingIsInvented, Looked, Ins, StillOpen
  <2>2. Looked' = Looked /\ Ins' = Ins /\ Segments' = Segments /\ StillOpen' = StillOpen
    BY <1>3 DEF sheetVars, Looked, Ins, Segments, StillOpen, OpenSlots
  <2>3. Awaiting' = Awaiting
    BY <1>3, <2>2 DEF sheetVars, Awaiting, Whose
  <2>4. Stays' = Stays
    BY <1>3, <2>2 DEF sheetVars, Stays, Ends, Whose, OutOf
  <2>5. Crowded' = Crowded
    BY <1>3, <2>2 DEF sheetVars, Crowded, InAfter, Ends, Whose
  <2>6. Unmixed' = Unmixed
    BY <1>3 DEF sheetVars, Unmixed
  <2>7. Complete'
    BY <2>2, <2>3, <2>4, <2>5, <2>6 DEF SheetInv, Complete
  <2> QED BY <2>1, <2>7 DEF SheetInv
<1> QED BY <1>1, <1>2, <1>3 DEF SheetNext

LEMMA SheetInvHolds == SheetSpec => []SheetInv
BY TimesheetAssumption, SheetInvInit, SheetInvStep, PTL DEF SheetSpec

\* paired_iter_cb shows no IN twice and ends no stay with a row that is not a later OUT of
\* the same worker or phone, whatever the file holds and however small the table is.
THEOREM NothingIsInventedAlways == SheetSpec => []NothingIsInvented
<1>1. SheetInv => NothingIsInvented
  BY DEF SheetInv
<1> QED BY <1>1, SheetInvHolds, PTL

\* As long as no more are in at one time than the table takes, paired_iter_cb shows every
\* stay of the file once, and as open those who are still in.
THEOREM PairedIsCompleteAlways == SheetSpec => []PairedIsComplete
<1>1. SheetInv => PairedIsComplete
  BY InAtTheEnd, NoneTwice DEF SheetInv, Complete, PairedIsComplete
<1> QED BY <1>1, SheetInvHolds, PTL

-----------------------------------------------------------------------------
(***************************************************************************)
(* Sums over finite sets.                                                  *)
(***************************************************************************)
\* MapThenSumSet takes the elements out one by one.
Any(s) == CHOOSE x \in s : TRUE

SumBody(it, w, s) == IF s = {} THEN 0 ELSE w[Any(s)] + it[s \ {Any(s)}]
Sums(it, w, S) == it = [s \in SUBSET S |-> SumBody(it, w, s)]

LEMMA SumsAt ==
    ASSUME NEW S, NEW w, NEW it, Sums(it, w, S), NEW s \in SUBSET S
    PROVE  it[s] = SumBody(it, w, s)
BY DEF Sums

LEMMA AnyOf == ASSUME NEW s, s # {} PROVE Any(s) \in s
BY DEF Any

\* Of sets there is a least.
LEMMA LeastSet ==
    ASSUME NEW S, IsFiniteSet(S), NEW Bad, Bad \subseteq SUBSET S, Bad # {}
    PROVE  \E m \in Bad : \A s \in SUBSET m : s # m => s \notin Bad
<1>1. IsWellFoundedOn(StrictSubsetOrdering(S), SUBSET S)
  BY FS_StrictSubsetOrderingWellFounded, FS_FiniteSubsetsOfFinite
<1>2. PICK m \in Bad : \A s \in Bad : <<s, m>> \notin StrictSubsetOrdering(S)
  BY <1>1, WFMin, Zenon
<1>3. ASSUME NEW s \in SUBSET m, s # m PROVE s \notin Bad
  <2>1. m \in SUBSET S /\ s \in SUBSET S
    OBVIOUS
  <2>2. <<s, m>> \in StrictSubsetOrdering(S)
    BY <1>3, <2>1 DEF StrictSubsetOrdering
  <2> QED BY <1>2, <2>2
<1> QED BY <1>3

\* Where the values agree, so do the sums.
LEMMA SumsAgree ==
    ASSUME NEW S, IsFiniteSet(S), NEW T, S \subseteq T, NEW v, NEW w, \A x \in S : v[x] = w[x],
           NEW i, Sums(i, v, S), NEW j, Sums(j, w, T), NEW s \in SUBSET S
    PROVE  i[s] = j[s]
<1> DEFINE Bad == {t \in SUBSET S : i[t] # j[t]}
<1>1. SUFFICES ASSUME Bad # {} PROVE FALSE
  OBVIOUS
<1>2. PICK m \in Bad : \A t \in SUBSET m : t # m => t \notin Bad
  <2>1. Bad \subseteq SUBSET S
    OBVIOUS
  <2> HIDE DEF Bad
  <2> QED BY <1>1, <2>1, LeastSet
<1>3. m \in SUBSET S /\ m \in SUBSET T /\ i[m] # j[m]
  OBVIOUS
<1>4. i[m] = SumBody(i, v, m) /\ j[m] = SumBody(j, w, m)
  BY <1>3, SumsAt
<1>5. CASE m = {}
  BY <1>3, <1>4, <1>5 DEF SumBody
<1>6. CASE m # {}
  <2>1. Any(m) \in m
    BY <1>6, AnyOf
  <2> DEFINE t == m \ {Any(m)}
  <2>2. t \in SUBSET m /\ t # m /\ t \in SUBSET S
    BY <1>3, <2>1
  <2>3. i[t] = j[t]
    BY <1>2, <2>2
  <2>4. v[Any(m)] = w[Any(m)]
    BY <1>3, <2>1
  <2> QED BY <1>3, <1>4, <1>6, <2>3, <2>4 DEF SumBody
<1> QED BY <1>5, <1>6

LEMMA SumsExist ==
    ASSUME NEW S, IsFiniteSet(S), NEW w
    PROVE  \E it : Sums(it, w, S)
<1> DEFINE Bad == {s \in SUBSET S : ~\E it : Sums(it, w, s)}
           Of(s) == CHOOSE it : Sums(it, w, s)
<1>1. SUFFICES ASSUME Bad # {} PROVE FALSE
  OBVIOUS
<1>2. PICK m \in Bad : \A s \in SUBSET m : s # m => s \notin Bad
  <2>1. Bad \subseteq SUBSET S
    OBVIOUS
  <2> HIDE DEF Bad
  <2> QED BY <1>1, <2>1, LeastSet
<1>3. m \in SUBSET S /\ \A it : ~Sums(it, w, m)
  OBVIOUS
<1>4. ASSUME NEW s \in SUBSET m, s # m PROVE Sums(Of(s), w, s)
  <2>1. \E it : Sums(it, w, s)
    BY <1>2, <1>3, <1>4
  <2> QED BY <2>1
<1> HIDE DEF Bad, Of
<1> DEFINE old(s) == Of(s)[s]
           g == [s \in SUBSET m |->
                    IF s # m THEN old(s)
                    ELSE IF m = {} THEN 0 ELSE w[Any(m)] + old(m \ {Any(m)})]
<1>5. ASSUME NEW s \in SUBSET m PROVE g[s] = SumBody(g, w, s)
  <2>1. CASE s = {}
    <3>1. CASE s = m
      BY <2>1, <3>1 DEF SumBody
    <3>2. CASE s # m
      <4>1. Of(s)[s] = SumBody(Of(s), w, s)
        <5>1. Sums(Of(s), w, s) /\ s \in SUBSET s
          BY <1>4, <3>2
        <5> QED BY <5>1, SumsAt
      <4> QED BY <2>1, <3>2, <4>1 DEF SumBody
    <3> QED BY <3>1, <3>2
  <2>2. CASE s # {}
    <3> DEFINE t == s \ {Any(s)}
    <3>1. Any(s) \in s
      BY <2>2, AnyOf
    <3>2. t \in SUBSET m /\ t # m /\ t \in SUBSET s /\ t # s
      BY <3>1
    <3>3. g[t] = old(t)
      BY <3>2
    <3>4. CASE s = m
      BY <2>2, <3>3, <3>4 DEF SumBody
    <3>5. CASE s # m
      <4>1. Sums(Of(s), w, s) /\ Sums(Of(t), w, t)
        BY <1>4, <3>2, <3>5
      <4>2. Of(s)[s] = SumBody(Of(s), w, s)
        <5>1. s \in SUBSET s
          OBVIOUS
        <5> QED BY <4>1, <5>1, SumsAt
      <4>3. Of(t)[t] = Of(s)[t]
        <5>1. IsFiniteSet(t)
          BY <1>3, <3>2, FS_Subset
        <5>2. t \subseteq s /\ t \in SUBSET t
          OBVIOUS
        <5> HIDE DEF t
        <5> QED BY <4>1, <5>1, <5>2, SumsAgree
      <4>4. g[s] = Of(s)[s]
        BY <3>5
      <4> QED BY <2>2, <3>3, <4>2, <4>3, <4>4 DEF SumBody
    <3> QED BY <3>4, <3>5
  <2> QED BY <2>1, <2>2
<1>6. g = [s \in SUBSET m |-> g[s]]
  OBVIOUS
<1> HIDE DEF g
<1>7. Sums(g, w, m)
  BY <1>5, <1>6 DEF Sums
<1> QED BY <1>3, <1>7

\* In whatever order the elements are taken.
LEMMA SumsNat ==
    ASSUME NEW S, IsFiniteSet(S), NEW w, \A x \in S : w[x] \in Nat,
           NEW it, Sums(it, w, S), NEW s \in SUBSET S
    PROVE  it[s] \in Nat
<1> DEFINE Bad == {t \in SUBSET S : it[t] \notin Nat}
<1>1. SUFFICES ASSUME Bad # {} PROVE FALSE
  OBVIOUS
<1>2. PICK m \in Bad : \A t \in SUBSET m : t # m => t \notin Bad
  <2>1. Bad \subseteq SUBSET S
    OBVIOUS
  <2> HIDE DEF Bad
  <2> QED BY <1>1, <2>1, LeastSet
<1>3. m \in SUBSET S /\ it[m] \notin Nat
  OBVIOUS
<1>4. it[m] = SumBody(it, w, m)
  BY <1>3, SumsAt
<1>5. CASE m = {}
  BY <1>3, <1>4, <1>5 DEF SumBody
<1>6. CASE m # {}
  <2>1. Any(m) \in m
    BY <1>6, AnyOf
  <2> DEFINE t == m \ {Any(m)}
  <2>2. t \in SUBSET m /\ t # m /\ t \in SUBSET S
    BY <1>3, <2>1
  <2>3. it[t] \in Nat
    BY <1>2, <2>2
  <2>4. w[Any(m)] \in Nat
    BY <1>3, <2>1
  <2> QED BY <1>3, <1>4, <1>6, <2>3, <2>4 DEF SumBody
<1> QED BY <1>5, <1>6

LEMMA SumsAny ==
    ASSUME NEW S, IsFiniteSet(S), NEW w, \A x \in S : w[x] \in Nat,
           NEW it, Sums(it, w, S), NEW s \in SUBSET S, NEW x \in s
    PROVE  it[s] = w[x] + it[s \ {x}]
<1> DEFINE Right(t) == \A y \in t : it[t] = w[y] + it[t \ {y}]
           Bad == {t \in SUBSET S : ~Right(t)}
<1>1. SUFFICES ASSUME Bad # {} PROVE FALSE
  OBVIOUS
<1>2. PICK m \in Bad : \A t \in SUBSET m : t # m => t \notin Bad
  <2>1. Bad \subseteq SUBSET S
    OBVIOUS
  <2> HIDE DEF Bad
  <2> QED BY <1>1, <2>1, LeastSet
<1>3. m \in SUBSET S /\ ~Right(m)
  OBVIOUS
<1>4. PICK y \in m : it[m] # w[y] + it[m \ {y}]
  BY <1>3
<1> DEFINE c == Any(m)
           t == m \ {c}
           u == m \ {y}
           r == t \ {y}
<1>5. c \in m
  BY <1>4, AnyOf
<1>6. it[m] = w[c] + it[t]
  <2>1. it[m] = SumBody(it, w, m)
    BY <1>3, SumsAt
  <2> QED BY <1>4, <2>1 DEF SumBody
<1>7. c # y
  BY <1>4, <1>6
<1>8. /\ t \in SUBSET m /\ t # m /\ y \in t /\ u \in SUBSET m /\ u # m /\ c \in u
      /\ r = u \ {c} /\ t \in SUBSET S /\ u \in SUBSET S /\ r \in SUBSET S
  BY <1>3, <1>4, <1>5, <1>7
<1>9. Right(t) /\ Right(u)
  BY <1>2, <1>8
<1>10. it[t] = w[y] + it[r] /\ it[u] = w[c] + it[r]
  BY <1>8, <1>9
<1>11. it[r] \in Nat /\ w[y] \in Nat /\ w[c] \in Nat
  BY <1>3, <1>4, <1>5, <1>8, SumsNat
<1>12. it[m] = w[y] + it[u]
  BY <1>6, <1>10, <1>11
<1> QED BY <1>4, <1>12

\* v is the sum of w over S.
IsSum(v, w, S) == \E it : Sums(it, w, S) /\ v = it[S]

LEMMA SumOfNone == ASSUME NEW w PROVE IsSum(0, w, {}) /\ \A v : IsSum(v, w, {}) => v = 0
<1>1. PICK it : Sums(it, w, {})
  BY SumsExist, FS_EmptySet
<1>2. \A i : Sums(i, w, {}) => i[{}] = 0
  <2>1. {} \in SUBSET {}
    OBVIOUS
  <2> QED BY <2>1, SumsAt DEF SumBody
<1> QED BY <1>1, <1>2 DEF IsSum

LEMMA SumOfOne ==
    ASSUME NEW w, NEW x, w[x] \in Nat
    PROVE  \A v : IsSum(v, w, {x}) => v = w[x]
<1>1. SUFFICES ASSUME NEW it, Sums(it, w, {x}) PROVE it[{x}] = w[x]
  BY DEF IsSum
<1>2. IsFiniteSet({x}) /\ {x} \in SUBSET {x} /\ {} \in SUBSET {x} /\ {x} \ {x} = {}
  BY FS_Singleton
<1>3. it[{x}] = w[x] + it[{x} \ {x}]
  <2> DEFINE T == {x}
  <2>1. IsFiniteSet(T) /\ Sums(it, w, T) /\ T \in SUBSET T /\ x \in T /\ \A y \in T : w[y] \in Nat
    BY <1>1, <1>2
  <2> HIDE DEF T
  <2>2. it[T] = w[x] + it[T \ {x}]
    BY <2>1, SumsAny
  <2> QED BY <2>2 DEF T
<1>4. it[{}] = 0
  BY <1>1, <1>2, SumsAt DEF SumBody
<1> QED BY <1>2, <1>3, <1>4

LEMMA SumIsOne ==
    ASSUME NEW S, IsFiniteSet(S), NEW u, NEW w, \A x \in S : u[x] = w[x],
           NEW a, IsSum(a, u, S), NEW b, IsSum(b, w, S)
    PROVE  a = b
<1>1. PICK i : Sums(i, u, S) /\ a = i[S]
  BY DEF IsSum
<1>2. PICK j : Sums(j, w, S) /\ b = j[S]
  BY DEF IsSum
<1>3. S \in SUBSET S /\ S \subseteq S
  OBVIOUS
<1>4. \A s \in SUBSET S : i[s] = j[s]
  BY <1>1, <1>2, <1>3, SumsAgree
<1> QED BY <1>1, <1>2, <1>3, <1>4

LEMMA SumOfMore ==
    ASSUME NEW S, IsFiniteSet(S), NEW u, NEW a, IsSum(a, u, S),
           NEW x, x \notin S, NEW w, \A y \in S : u[y] = w[y], \A y \in S \cup {x} : w[y] \in Nat
    PROVE  a \in Nat /\ IsSum(a + w[x], w, S \cup {x})
<1> DEFINE T == S \cup {x}
<1>1. PICK i : Sums(i, u, S) /\ a = i[S]
  BY DEF IsSum
<1>2. IsFiniteSet(T) /\ S \subseteq T /\ S \in SUBSET S /\ S \in SUBSET T /\ T \in SUBSET T /\ T \ {x} = S
  BY FS_AddElement
<1>3. PICK j : Sums(j, w, T)
  BY <1>2, SumsExist
<1> HIDE DEF T
<1>4. i[S] = j[S]
  <2>1. \A s \in SUBSET S : i[s] = j[s]
    BY <1>1, <1>2, <1>3, SumsAgree
  <2> QED BY <1>2, <2>1
<1>5. j[T] = w[x] + j[S]
  <2>1. x \in T
    BY DEF T
  <2>2. \A y \in T : w[y] \in Nat
    BY DEF T
  <2> QED BY <1>2, <1>3, <2>1, <2>2, SumsAny
<1>6. j[S] \in Nat /\ w[x] \in Nat
  <2>1. \A y \in T : w[y] \in Nat
    BY DEF T
  <2>2. x \in T
    BY DEF T
  <2> QED BY <1>2, <1>3, <2>1, <2>2, SumsNat
<1>7. j[T] = a + w[x] /\ a \in Nat
  BY <1>1, <1>4, <1>5, <1>6
<1> QED BY <1>3, <1>7 DEF IsSum, T

(***************************************************************************)
(* /api/today.                                                             *)
(***************************************************************************)
\* How long a stay lasted, as today_iter_cb counts it.
StayTimes(S, rd) == [s \in S |-> Lasted(rd[s.in].ts, rd[s.out].ts)]

StayFold(it, S, rd) ==
    it = [s \in SUBSET S |->
            IF s = {} THEN 0
            ELSE Lasted(rd[Any(s).in].ts, rd[Any(s).out].ts) + it[s \ {Any(s)}]]

LEMMA StaySum ==
    ASSUME NEW S, IsFiniteSet(S), NEW rd
    PROVE  IsSum(MapThenSumSet(LAMBDA s : Lasted(rd[s.in].ts, rd[s.out].ts), S), StayTimes(S, rd), S)
<1> DEFINE w == StayTimes(S, rd)
           f == CHOOSE it : StayFold(it, S, rd)
<1>1. ASSUME NEW it PROVE Sums(it, w, S) <=> StayFold(it, S, rd)
  <2>1. ASSUME NEW s \in SUBSET S
        PROVE  SumBody(it, w, s) = IF s = {} THEN 0
                ELSE Lasted(rd[Any(s).in].ts, rd[Any(s).out].ts) + it[s \ {Any(s)}]
    <3>1. CASE s = {}
      BY <3>1 DEF SumBody
    <3>2. CASE s # {}
      <4>1. Any(s) \in S
        BY <3>2, AnyOf
      <4>2. w[Any(s)] = Lasted(rd[Any(s).in].ts, rd[Any(s).out].ts)
        BY <4>1 DEF StayTimes
      <4> QED BY <3>2, <4>2 DEF SumBody
    <3> QED BY <3>1, <3>2
  <2> HIDE DEF w
  <2>2. [s \in SUBSET S |-> SumBody(it, w, s)]
        = [s \in SUBSET S |-> IF s = {} THEN 0
                ELSE Lasted(rd[Any(s).in].ts, rd[Any(s).out].ts) + it[s \ {Any(s)}]]
    BY <2>1
  <2> QED BY <2>2 DEF Sums, StayFold
<1>2. StayFold(f, S, rd)
  BY <1>1, SumsExist
<1>3. MapThenSumSet(LAMBDA s : Lasted(rd[s.in].ts, rd[s.out].ts), S) = f[S]
  BY DEF MapThenSumSet, MapThenFoldSet, StayFold, Any
<1> QED BY <1>1, <1>2, <1>3 DEF IsSum

\* The stays that are still going on.
OpenFold(it, W, rd, now) ==
    it = [s \in SUBSET W |->
            IF s = {} THEN 0 ELSE Lasted(rd[Any(s)].ts, now) + it[s \ {Any(s)}]]

LEMMA OpenSum ==
    ASSUME NEW W, IsFiniteSet(W), NEW rd, NEW now
    PROVE  IsSum(MapThenSumSet(LAMBDA n : Lasted(rd[n].ts, now), W),
                 [n \in W |-> Lasted(rd[n].ts, now)], W)
<1> DEFINE w == [n \in W |-> Lasted(rd[n].ts, now)]
           f == CHOOSE it : OpenFold(it, W, rd, now)
<1>1. ASSUME NEW it PROVE Sums(it, w, W) <=> OpenFold(it, W, rd, now)
  <2>1. ASSUME NEW s \in SUBSET W
        PROVE  SumBody(it, w, s) = IF s = {} THEN 0 ELSE Lasted(rd[Any(s)].ts, now) + it[s \ {Any(s)}]
    <3>1. CASE s = {}
      BY <3>1 DEF SumBody
    <3>2. CASE s # {}
      <4>1. Any(s) \in W
        BY <3>2, AnyOf
      <4>2. w[Any(s)] = Lasted(rd[Any(s)].ts, now)
        BY <4>1
      <4> QED BY <3>2, <4>2 DEF SumBody
    <3> QED BY <3>1, <3>2
  <2> HIDE DEF w
  <2>2. [s \in SUBSET W |-> SumBody(it, w, s)]
        = [s \in SUBSET W |-> IF s = {} THEN 0 ELSE Lasted(rd[Any(s)].ts, now) + it[s \ {Any(s)}]]
    BY <2>1
  <2> QED BY <2>2 DEF Sums, OpenFold
<1>2. OpenFold(f, W, rd, now)
  BY <1>1, SumsExist
<1>3. MapThenSumSet(LAMBDA n : Lasted(rd[n].ts, now), W) = f[W]
  BY DEF MapThenSumSet, MapThenFoldSet, OpenFold, Any
<1> QED BY <1>1, <1>2, <1>3 DEF IsSum

LEMMA LastedNat == ASSUME NEW a \in Int, NEW b \in Int PROVE Lasted(a, b) \in Nat
<1>1. b - a \in Int
  OBVIOUS
<1> QED BY <1>1 DEF Lasted

(***************************************************************************)
(* The account of one person.                                              *)
(***************************************************************************)
RowPeers == {r.peer : r \in Lines}
Listed == [wid : Nat, peer : RowPeers, since : Nat, total : Nat, segments : Nat, inside : BOOLEAN]

Named(e) == e.wid # 0 \/ e.peer # NoPeer

\* Whom an entry of the list is of, as Whose tells it of a line.
Holder(e) == Person(e, 0)

\* The entry e is right, if W are the INs of its person that wait for the end and S the
\* stays that have come to one, as lines of rd.
Right(e, W, S, rd) ==
    /\ e.since = 0 => W = {}
    /\ e.since # 0 => \E a \in DOMAIN rd : W = {a} /\ rd[a].ts = e.since
    /\ e.inside <=> e.since # 0
    /\ IsFiniteSet(S) /\ \A s \in S : s.in \in DOMAIN rd /\ s.out \in DOMAIN rd
    /\ e.segments = Cardinality(S)
    /\ IsSum(e.total, StayTimes(S, rd), S)

\* The times of stays are those of lines that stay where they are.
LEMMA StayTimesOf ==
    ASSUME TimesheetAssumption, NEW rd \in Seq(Lines), NEW S,
           \A s \in S : s.in \in DOMAIN rd /\ s.out \in DOMAIN rd
    PROVE  \A s \in S : /\ StayTimes(S, rd)[s] = Lasted(rd[s.in].ts, rd[s.out].ts)
                        /\ StayTimes(S, rd)[s] \in Nat
<1> SUFFICES ASSUME NEW s \in S PROVE Lasted(rd[s.in].ts, rd[s.out].ts) \in Nat
  BY DEF StayTimes
<1>1. \A n \in DOMAIN rd : rd[n].ts \in Int
  BY ElementOfSeq, LenProperties DEF TimesheetAssumption
<1> QED BY <1>1, LastedNat

LEMMA RightKept ==
    ASSUME TimesheetAssumption, NEW rd \in Seq(Lines), NEW rd2 \in Seq(Lines),
           NEW e, NEW W, NEW S, Right(e, W, S, rd),
           DOMAIN rd \subseteq DOMAIN rd2, \A n \in DOMAIN rd : rd2[n] = rd[n]
    PROVE  Right(e, W, S, rd2)
<1>1. /\ IsFiniteSet(S) /\ \A s \in S : s.in \in DOMAIN rd /\ s.out \in DOMAIN rd
      /\ \A s \in S : s.in \in DOMAIN rd2 /\ s.out \in DOMAIN rd2
  BY DEF Right
<1>2. StayTimes(S, rd) = StayTimes(S, rd2)
  BY <1>1 DEF StayTimes
<1> QED BY <1>1, <1>2 DEF Right

\* An IN: the stay begins anew.
LEMMA RightIn ==
    ASSUME NEW rd, NEW r, NEW e, NEW W, NEW S, Right(e, W, S, rd), r.ts # 0,
           NEW n \in DOMAIN rd, rd[n].ts = r.ts,
           NEW f, f.since = r.ts, f.inside = TRUE, f.total = e.total, f.segments = e.segments
    PROVE  Right(f, {n}, S, rd)
BY DEF Right

\* S2 are the stays S and those that the line n ends.
Ended(S, W, n, S2) == \A s : s \in S2 <=> s \in S \/ \E a \in W : s = [in |-> a, out |-> n]

\* An OUT: the stay comes to its end.
LEMMA RightOut ==
    ASSUME TimesheetAssumption, NEW rd \in Seq(Lines), NEW e, e.segments \in Nat,
           NEW W, NEW S, Right(e, W, S, rd), e.since # 0,
           NEW n \in DOMAIN rd, \A s \in S : s.out # n,
           NEW f, f.since = 0, f.inside = FALSE, f.total = e.total + Lasted(e.since, rd[n].ts),
           f.segments = e.segments + 1,
           NEW S2, Ended(S, W, n, S2)
    PROVE  Right(f, {}, S2, rd)
<1>1. PICK a \in DOMAIN rd : W = {a} /\ rd[a].ts = e.since
  BY DEF Right
<1>2. PICK x : x = [in |-> a, out |-> n]
  OBVIOUS
<1>3. x.in = a /\ x.out = n /\ x \notin S
  BY <1>2
<1>4. S2 = S \cup {x}
  BY <1>1, <1>2 DEF Ended
<1>5. IsFiniteSet(S) /\ \A s \in S : s.in \in DOMAIN rd /\ s.out \in DOMAIN rd
  BY DEF Right
<1>6. \A s \in S2 : s.in \in DOMAIN rd /\ s.out \in DOMAIN rd
  BY <1>3, <1>4, <1>5
<1>7. IsFiniteSet(S2) /\ Cardinality(S2) = Cardinality(S) + 1
  BY <1>3, <1>4, <1>5, FS_AddElement
<1>8. f.segments = Cardinality(S2)
  BY <1>7 DEF Right
<1> DEFINE u == StayTimes(S, rd)
           w == StayTimes(S2, rd)
<1>9. /\ \A s \in S : u[s] = w[s]
      /\ \A s \in S2 : w[s] \in Nat
      /\ w[x] = Lasted(e.since, rd[n].ts)
  <2>1. \A s \in S : u[s] = Lasted(rd[s.in].ts, rd[s.out].ts)
    BY <1>5, StayTimesOf
  <2>2. \A s \in S2 : w[s] = Lasted(rd[s.in].ts, rd[s.out].ts) /\ w[s] \in Nat
    BY <1>6, StayTimesOf
  <2>3. x \in S2 /\ S \subseteq S2
    BY <1>4
  <2> QED BY <1>1, <1>3, <2>1, <2>2, <2>3
<1>10. IsSum(e.total, u, S)
  BY DEF Right
<1> HIDE DEF u, w
<1>11. IsSum(e.total + w[x], w, S2)
  <2>1. \A s \in S \cup {x} : w[s] \in Nat
    BY <1>4, <1>9
  <2>2. IsSum(e.total + w[x], w, S \cup {x})
    BY <1>3, <1>5, <1>9, <1>10, <2>1, SumOfMore
  <2> QED BY <1>4, <2>2
<1>12. IsSum(f.total, StayTimes(S2, rd), S2)
  BY <1>9, <1>11 DEF w
<1> QED BY <1>6, <1>7, <1>8, <1>12 DEF Right

LEMMA RightNew ==
    ASSUME NEW rd, NEW e, e.since = 0, e.total = 0, e.segments = 0, e.inside = FALSE
    PROVE  Right(e, {}, {}, rd)
BY SumOfNone, FS_EmptySet DEF Right

\* today_iter_cb changes neither whose an entry is nor what it is made of.
LEMMA CountedListed ==
    ASSUME TimesheetAssumption, NEW r \in Lines, NEW e \in Listed
    PROVE  /\ CountedRow(e, r) \in Listed
           /\ CountedRow(e, r).wid = e.wid /\ CountedRow(e, r).peer = e.peer
<1> DEFINE f == CountedRow(e, r)
           t == e.total + Lasted(e.since, r.ts)
           c == e.segments + 1
<1>1. r.ts \in Nat /\ e.since \in Nat /\ e.segments \in Nat /\ e.total \in Nat
  BY DEF TimesheetAssumption, Listed
<1>2. t \in Nat /\ c \in Nat
  <2>1. e.since \in Int /\ r.ts \in Int
    BY <1>1
  <2>2. Lasted(e.since, r.ts) \in Nat
    BY <2>1, LastedNat
  <2> QED BY <1>1, <2>2
<1> HIDE DEF t, c
<1>3. \/ f = [e EXCEPT !.since = r.ts, !.inside = TRUE]
      \/ f = e
      \/ f = [e EXCEPT !.total = t, !.segments = c, !.since = 0, !.inside = FALSE]
  BY DEF CountedRow, CountedStay, t, c
<1> HIDE DEF f
<1>4. CASE f = [e EXCEPT !.since = r.ts, !.inside = TRUE]
  <2>1. f \in Listed
    BY <1>1, <1>4, Zenon DEF Listed
  <2> QED BY <1>4, <2>1 DEF Listed, f
<1>5. CASE f = e
  BY <1>5 DEF f
<1>6. CASE f = [e EXCEPT !.total = t, !.segments = c, !.since = 0, !.inside = FALSE]
  <2>1. f \in Listed
    <3>1. 0 \in Nat
      OBVIOUS
    <3> QED BY <1>2, <1>6, <3>1, Zenon DEF Listed
  <2> QED BY <1>6, <2>1 DEF Listed, f
<1> QED BY <1>3, <1>4, <1>5, <1>6

\* A row of the person: today_iter_cb keeps the entry right.
LEMMA CountedRight ==
    ASSUME TimesheetAssumption, NEW rd \in Seq(Lines), NEW r \in Lines, r.ts # 0,
           NEW e \in Listed, NEW W, NEW S, Right(e, W, S, rd),
           NEW n \in DOMAIN rd, rd[n] = r, \A s \in S : s.out # n,
           NEW S2, Ended(S, IF r.type = "out" THEN W ELSE {}, n, S2)
    PROVE  /\ Right(CountedRow(e, r), IF r.type = "in" THEN {n} ELSE {}, S2, rd)
           /\ CountedRow(e, r) \in Listed
           /\ CountedRow(e, r).wid = e.wid /\ CountedRow(e, r).peer = e.peer
<1> DEFINE f == CountedRow(e, r)
<1>1. r.ts \in Nat /\ r.type \in {"in", "out"} /\ e.since \in Nat /\ e.segments \in Nat /\ e.total \in Nat
  BY DEF TimesheetAssumption, Listed
<1>2. CASE r.type = "in"
  <2>1. f = [e EXCEPT !.since = r.ts, !.inside = TRUE]
    BY <1>2 DEF CountedRow
  <2>2. /\ f \in Listed /\ f.since = r.ts /\ f.inside = TRUE /\ f.total = e.total
        /\ f.segments = e.segments /\ f.wid = e.wid /\ f.peer = e.peer
    BY <1>1, <2>1 DEF Listed
  <2>3. S2 = S
    BY <1>2 DEF Ended
  <2> HIDE DEF f
  <2>4. Right(f, {n}, S, rd)
    BY <2>2, RightIn
  <2> QED BY <1>2, <2>2, <2>3, <2>4 DEF f
<1>3. CASE r.type = "out" /\ e.since = 0
  <2>1. f = e
    BY <1>3 DEF CountedRow, CountedStay
  <2>2. W = {}
    BY <1>3 DEF Right
  <2>3. S2 = S
    BY <1>3, <2>2 DEF Ended
  <2> QED BY <1>3, <2>1, <2>2, <2>3
<1>4. CASE r.type = "out" /\ e.since # 0
  <2>1. f = [e EXCEPT !.total = @ + Lasted(e.since, r.ts), !.segments = @ + 1, !.since = 0,
                      !.inside = FALSE]
    BY <1>4 DEF CountedRow, CountedStay
  <2>2. Lasted(e.since, r.ts) \in Nat
    <3>1. e.since \in Int /\ r.ts \in Int
      BY <1>1
    <3> QED BY <3>1, LastedNat
  <2>6. PICK t : t = e.total + Lasted(e.since, r.ts)
    OBVIOUS
  <2>7. t \in Nat /\ e.segments + 1 \in Nat
    BY <1>1, <2>2, <2>6
  <2>8. f = [e EXCEPT !.total = t, !.segments = @ + 1, !.since = 0, !.inside = FALSE]
    BY <2>1, <2>6
  <2>9. PICK c : c = e.segments + 1
    OBVIOUS
  <2>10. f = [e EXCEPT !.total = t, !.segments = c, !.since = 0, !.inside = FALSE] /\ c \in Nat
    BY <2>7, <2>8, <2>9
  <2>3. /\ f \in Listed /\ f.since = 0 /\ f.inside = FALSE /\ f.total = e.total + Lasted(e.since, r.ts)
        /\ f.segments = e.segments + 1 /\ f.wid = e.wid /\ f.peer = e.peer
    <3> HIDE DEF f
    <3>1. /\ f.since = 0 /\ f.inside = FALSE /\ f.total = t /\ f.segments = c
          /\ f.wid = e.wid /\ f.peer = e.peer
      BY <2>10 DEF Listed
    <3>2. f \in Listed
      BY <2>7, <2>10, Zenon DEF Listed
    <3> QED BY <2>6, <2>9, <3>1, <3>2
  <2>11. f.total = e.total + Lasted(e.since, rd[n].ts)
    BY <2>3
  <2>4. Ended(S, W, n, S2)
    BY <1>4
  <2> HIDE DEF f
  <2>5. Right(f, {}, S2, rd)
    BY <1>1, <1>4, <2>3, <2>4, <2>11, RightOut
  <2> QED BY <1>4, <2>3, <2>5 DEF f
<1> QED BY <1>1, <1>2, <1>3, <1>4

(***************************************************************************)
(* The list.                                                               *)
(***************************************************************************)
WaitsOf(k) == {a \in Awaiting : Whose(a) = k}
StaysOf(k) == {s \in Stays : s.out # 0 /\ Whose(s.in) = k}

\* The list is of people who were in the file,
Origins ==
    \A i \in DOMAIN today :
        \E m \in DOMAIN read : read[m].wid = today[i].wid /\ read[m].peer = today[i].peer

\* each of them once,
EachOnce ==
    \A i, j \in DOMAIN today :
        Named(today[i]) /\ Holder(today[i]) = Holder(today[j]) => i = j

\* of all of them as long as there is room,
AllListed ==
    Len(today) < MaxToday =>
        \A m \in Looked : Named(read[m]) => \E i \in DOMAIN today : Holder(today[i]) = Whose(m)

\* and has the right account of everybody.
AllRight ==
    \A i \in DOMAIN today : \A k \in {Holder(today[i])} :
        Named(today[i]) => Right(today[i], WaitsOf(k), StaysOf(k), read)

FromToday == range = [from |-> Today, to |-> 0]

TodayInv ==
    /\ SheetTyped /\ today \in Seq(Listed)
    /\ FromToday /\ Unmixed => Origins /\ EachOnce /\ AllListed /\ AllRight

LEMMA StaysAre == \A s \in Stays : s.in \in Ins /\ (s.out = 0 \/ s.out \in Looked)
BY DEF Stays, OutOf, Ends

\* What a line changes about the person k.
LEMMA AccountStep ==
    ASSUME SheetTyped, NEW r \in Lines, read' = Append(read, r), UNCHANGED range,
           NEW n, n = Len(read) + 1, NEW k
    PROVE  /\ ~(InWindow(r, range) /\ Person(r, n) = k) =>
                WaitsOf(k)' = WaitsOf(k) /\ StaysOf(k)' = StaysOf(k)
           /\ InWindow(r, range) /\ Person(r, n) = k =>
                /\ WaitsOf(k)' = IF r.type = "in" THEN {n} ELSE {}
                /\ Ended(StaysOf(k), IF r.type = "out" THEN WaitsOf(k) ELSE {}, n, StaysOf(k)')
           /\ \A s \in StaysOf(k) : s.out # n
<1>1. /\ Len(read) \in Nat /\ n \in Nat \ {0}
      /\ \A m \in 1..Len(read) : m \in Nat /\ m < n /\ m # 0 /\ m # n
      /\ Looked \subseteq 1..Len(read) /\ Ins \subseteq 1..Len(read)
  BY LineRead
<1>2. Whose(n)' = Person(r, n) /\ \A a \in 1..Len(read) : Whose(a)' = Whose(a)
  BY EndsStep
<1>3. /\ ~InWindow(r, range) => Awaiting' = Awaiting
      /\ InWindow(r, range) =>
           Awaiting' = {a \in Awaiting : Person(r, n) # Whose(a)}
                       \cup (IF r.type = "in" THEN {n} ELSE {})
  BY AwaitingStep
<1>4. \A s : s \in Stays' <=> \/ s \in Stays
                              \/ \E a \in Awaiting :
                                   /\ InWindow(r, range) /\ Person(r, n) = Whose(a)
                                   /\ s = [in |-> a, out |-> IF r.type = "out" THEN n ELSE 0]
  BY StaysStep
<1>5. Awaiting \subseteq 1..Len(read)
  BY <1>1 DEF Awaiting
<1>6. \A a : a \in WaitsOf(k)' <=> a \in Awaiting' /\ Whose(a)' = k
  BY DEF WaitsOf, Whose
<1>7. \A s : s \in StaysOf(k)' <=> s \in Stays' /\ s.out # 0 /\ Whose(s.in)' = k
  BY DEF StaysOf, Whose
<1>8. \A s \in Stays : s.in \in 1..Len(read) /\ Whose(s.in)' = Whose(s.in) /\ s.out # n
  BY <1>1, <1>2, StaysAre
<1>9. ASSUME NEW s
      PROVE  s \in StaysOf(k)' <=> \/ s \in StaysOf(k)
                                   \/ /\ InWindow(r, range) /\ Person(r, n) = k /\ r.type = "out"
                                      /\ \E a \in WaitsOf(k) : s = [in |-> a, out |-> n]
  <2>1. ASSUME s \in StaysOf(k)' PROVE \/ s \in StaysOf(k)
                                   \/ /\ InWindow(r, range) /\ Person(r, n) = k /\ r.type = "out"
                                      /\ \E a \in WaitsOf(k) : s = [in |-> a, out |-> n]
    <3>1. s \in Stays' /\ s.out # 0 /\ Whose(s.in)' = k
      BY <1>7, <2>1
    <3>2. CASE s \in Stays
      BY <1>8, <3>1, <3>2 DEF StaysOf
    <3>3. ASSUME NEW a \in Awaiting, InWindow(r, range), Person(r, n) = Whose(a),
                 s = [in |-> a, out |-> IF r.type = "out" THEN n ELSE 0]
          PROVE  /\ InWindow(r, range) /\ Person(r, n) = k /\ r.type = "out"
                 /\ \E b \in WaitsOf(k) : s = [in |-> b, out |-> n]
      <4>1. s.in = a /\ s.out = IF r.type = "out" THEN n ELSE 0
        BY <3>3
      <4>2. Whose(s.in)' = Whose(a)
        BY <1>2, <1>5, <4>1
      <4>3. r.type = "out" /\ Whose(a) = k
        BY <3>1, <4>1, <4>2
      <4> QED BY <3>3, <4>3 DEF WaitsOf
    <3> QED BY <1>4, <3>1, <3>2, <3>3
  <2>2. ASSUME s \in StaysOf(k) PROVE s \in StaysOf(k)'
    BY <1>4, <1>7, <1>8, <2>2 DEF StaysOf
  <2>3. ASSUME InWindow(r, range), Person(r, n) = k, r.type = "out",
               NEW a \in WaitsOf(k), s = [in |-> a, out |-> n]
        PROVE  s \in StaysOf(k)'
    <3>1. a \in Awaiting /\ Whose(a) = k /\ a \in 1..Len(read)
      BY <1>5 DEF WaitsOf
    <3>2. s.in = a /\ s.out = n
      BY <2>3
    <3>3. s \in Stays'
      BY <1>4, <2>3, <3>1
    <3>4. Whose(s.in)' = k
      BY <1>2, <3>1, <3>2
    <3> QED BY <1>1, <1>7, <3>2, <3>3, <3>4
  <2> QED BY <2>1, <2>2, <2>3
<1>10. ~(InWindow(r, range) /\ Person(r, n) = k) => WaitsOf(k)' = WaitsOf(k)
  BY <1>2, <1>3, <1>5, <1>6 DEF WaitsOf
<1>11. InWindow(r, range) /\ Person(r, n) = k => WaitsOf(k)' = IF r.type = "in" THEN {n} ELSE {}
  BY <1>2, <1>3, <1>5, <1>6
<1>12. \A s \in StaysOf(k) : s.out # n
  BY <1>8 DEF StaysOf
<1>13. ~(InWindow(r, range) /\ Person(r, n) = k) => StaysOf(k)' = StaysOf(k)
  BY <1>9
<1>14. InWindow(r, range) /\ Person(r, n) = k =>
            Ended(StaysOf(k), IF r.type = "out" THEN WaitsOf(k) ELSE {}, n, StaysOf(k)')
  BY <1>9 DEF Ended
<1> QED BY <1>10, <1>11, <1>12, <1>13, <1>14

\* Which entry a row goes to.
LEMMA GoesTo ==
    ASSUME SheetTyped, NEW r \in Lines, read' = Append(read, r), UNCHANGED range, Unmixed',
           NEW n, n = Len(read) + 1, Origins, NEW i \in DOMAIN today
    PROVE  Matches(r, today[i]) <=> Holder(today[i]) = Person(r, n)
<1>1. /\ Len(read) \in Nat /\ n \in Nat \ {0} /\ DOMAIN read = 1..Len(read)
      /\ DOMAIN read' = 1..n /\ read'[n] = r /\ n \in 1..n
      /\ \A m \in 1..Len(read) : read'[m] = read[m] /\ m \in 1..n
  <2>1. /\ Len(read) \in Nat /\ n \in Nat \ {0} /\ DOMAIN read = 1..Len(read)
        /\ DOMAIN read' = 1..n /\ read'[n] = r
        /\ \A m \in 1..Len(read) : read'[m] = read[m] /\ m \in Nat /\ m < n /\ m # 0
    BY LineRead
  <2> QED BY <2>1
<1>2. PICK m \in 1..Len(read) : read[m].wid = today[i].wid /\ read[m].peer = today[i].peer
  BY <1>1 DEF Origins
<1>3. r.peer = read[m].peer /\ r.peer # NoPeer => ((r.wid = 0) <=> (read[m].wid = 0))
  BY <1>1, <1>2 DEF Unmixed
<1>4. r.peer = today[i].peer /\ r.peer # NoPeer => ((r.wid = 0) <=> (today[i].wid = 0))
  BY <1>2, <1>3
<1> QED BY <1>1, <1>4, OnePerson DEF Holder

LEMMA SameHolder ==
    ASSUME NEW e, NEW f, e.wid = f.wid, e.peer = f.peer
    PROVE  Holder(e) = Holder(f) /\ (Named(e) <=> Named(f))
BY DEF Holder, Person, Named

\* Entries of people the row is not of stay right.
LEMMA OthersRight ==
    ASSUME TimesheetAssumption, SheetTyped, NEW r \in Lines, read' = Append(read, r),
           UNCHANGED range, NEW n, n = Len(read) + 1,
           NEW e, NEW k, ~(InWindow(r, range) /\ Person(r, n) = k),
           Right(e, WaitsOf(k), StaysOf(k), read)
    PROVE  Right(e, WaitsOf(k)', StaysOf(k)', read')
<1>1. WaitsOf(k)' = WaitsOf(k) /\ StaysOf(k)' = StaysOf(k)
  BY AccountStep
<1>2. /\ read \in Seq(Lines) /\ read' \in Seq(Lines) /\ DOMAIN read \subseteq DOMAIN read'
      /\ \A m \in DOMAIN read : read'[m] = read[m]
  <2>1. /\ Len(read) \in Nat /\ DOMAIN read = 1..Len(read) /\ n \in Nat
        /\ read' \in Seq(Lines) /\ DOMAIN read' = 1..n
        /\ \A m \in 1..Len(read) : read'[m] = read[m]
    BY LineRead
  <2> QED BY <2>1 DEF SheetTyped
<1>3. Right(e, WaitsOf(k), StaysOf(k), read')
  BY <1>2, RightKept
<1> QED BY <1>1, <1>3

\* And so does the entry it is counted in.
LEMMA TheirsRight ==
    ASSUME TimesheetAssumption, SheetTyped, NEW r \in Lines, read' = Append(read, r),
           UNCHANGED range, NEW n, n = Len(read) + 1, r.ts # 0,
           NEW e \in Listed, NEW k, InWindow(r, range), Person(r, n) = k,
           Right(e, WaitsOf(k), StaysOf(k), read)
    PROVE  Right(CountedRow(e, r), WaitsOf(k)', StaysOf(k)', read')
<1>1. /\ WaitsOf(k)' = IF r.type = "in" THEN {n} ELSE {}
      /\ Ended(StaysOf(k), IF r.type = "out" THEN WaitsOf(k) ELSE {}, n, StaysOf(k)')
      /\ \A s \in StaysOf(k) : s.out # n
  BY AccountStep
<1>2. /\ read \in Seq(Lines) /\ read' \in Seq(Lines) /\ DOMAIN read \subseteq DOMAIN read'
      /\ \A m \in DOMAIN read : read'[m] = read[m]
      /\ n \in DOMAIN read' /\ read'[n] = r
  <2>1. /\ Len(read) \in Nat /\ DOMAIN read = 1..Len(read) /\ n \in Nat \ {0}
        /\ read' \in Seq(Lines) /\ DOMAIN read' = 1..n /\ read'[n] = r
        /\ \A m \in 1..Len(read) : read'[m] = read[m]
    BY LineRead
  <2> QED BY <2>1 DEF SheetTyped
<1>3. Right(e, WaitsOf(k), StaysOf(k), read')
  BY <1>2, RightKept
<1>4. Right(CountedRow(e, r), IF r.type = "in" THEN {n} ELSE {}, StaysOf(k)', read')
  BY <1>1, <1>2, <1>3, CountedRight
<1> QED BY <1>1, <1>4

\* Somebody of whom there is no entry was not in the file, if there is room.
LEMMA NotYetThere ==
    ASSUME SheetTyped, AllListed, Len(today) < MaxToday, NEW r, NEW n, Named(r),
           \A i \in DOMAIN today : Holder(today[i]) # Person(r, n)
    PROVE  WaitsOf(Person(r, n)) = {} /\ StaysOf(Person(r, n)) = {}
<1>1. \A m \in Looked : Whose(m) # Person(r, n)
  <2>1. ASSUME NEW m \in Looked, Whose(m) = Person(r, n) PROVE FALSE
    <3>1. Named(read[m])
      BY <2>1 DEF Named, Whose, Person
    <3> QED BY <2>1, <3>1 DEF AllListed
  <2> QED BY <2>1
<1>2. Ins \subseteq Looked /\ Awaiting \subseteq Ins
  BY DEF Ins, Awaiting
<1>3. \A s \in Stays : s.in \in Ins
  BY StaysAre
<1> QED BY <1>1, <1>2, <1>3 DEF WaitsOf, StaysOf

LEMMA ListStep ==
    ASSUME TimesheetAssumption, TodayInv, NEW r \in Lines, read' = Append(read, r), UNCHANGED range,
           SheetTyped', TodayLine(r), NEW n, n = Len(read) + 1
    PROVE  TodayInv'
<1>1. SheetTyped /\ today \in Seq(Listed) /\ Len(today) \in Nat /\ DOMAIN today = 1..Len(today)
      /\ \A i \in DOMAIN today : today[i] \in Listed
  BY LenProperties, ElementOfSeq DEF TodayInv
<1>2. r.ts \in Nat /\ Today \in Nat /\ Today # 0 /\ MaxToday \in Nat
  <2>1. Days * DayLen # 0
    BY DEF TimesheetAssumption
  <2> QED BY <2>1 DEF TimesheetAssumption
<1> DEFINE e0 == NewEntry(r)
<1>3. e0 \in Listed /\ e0.wid = r.wid /\ e0.peer = r.peer
      /\ e0.since = 0 /\ e0.total = 0 /\ e0.segments = 0 /\ e0.inside = FALSE
  BY DEF NewEntry, Listed, RowPeers, TimesheetAssumption
<1> HIDE DEF e0
<1>4. ASSUME NEW e \in Listed
      PROVE  /\ CountedRow(e, r) \in Listed
             /\ CountedRow(e, r).wid = e.wid /\ CountedRow(e, r).peer = e.peer
  BY <1>2, <1>4, CountedListed
<1>5. \A k, l \in DOMAIN today : today[k] \in Listed
  BY <1>1
<1>6. today' \in Seq(Listed)
  <2>1. CASE UNCHANGED today
    BY <1>1, <2>1
  <2>2. ASSUME NEW i \in DOMAIN today, today' = [today EXCEPT ![i] = CountedRow(@, r)]
        PROVE  today' \in Seq(Listed)
    <3> DEFINE c == CountedRow(today[i], r)
    <3>1. c \in Listed /\ today' = [today EXCEPT ![i] = c]
      BY <1>1, <1>4, <2>2
    <3> HIDE DEF c
    <3> QED BY <1>1, <3>1, ExceptSeq
  <2>3. CASE today' = Append(today, CountedRow(NewEntry(r), r))
    <3>1. CountedRow(e0, r) \in Listed
      BY <1>3, <1>4
    <3>2. today' = Append(today, CountedRow(e0, r))
      BY <2>3 DEF e0
    <3> QED BY <1>1, <3>1, <3>2, AppendProperties
  <2>4. \A i \in DOMAIN today : today' = [today EXCEPT ![i] = CountedRow(@, r)] => today' \in Seq(Listed)
    BY <2>2
  <2>5. Entries(r) \subseteq DOMAIN today
    BY DEF Entries
  <2> HIDE DEF e0
  <2> QED BY <2>1, <2>3, <2>4, <2>5, Zenon DEF TodayLine
<1>7. ASSUME FromToday', Unmixed'
      PROVE  Origins' /\ EachOnce' /\ AllListed' /\ AllRight'
  <2>1. FromToday /\ Unmixed /\ Origins /\ EachOnce /\ AllListed /\ AllRight
    BY <1>1, <1>7, UnmixedStep DEF FromToday, TodayInv
  <2>2. InWindow(r, range) <=> r.ts >= Today
    BY <1>2, <2>1 DEF FromToday, InWindow
  <2>3. /\ Len(read) \in Nat /\ n \in Nat \ {0} /\ DOMAIN read = 1..Len(read)
        /\ DOMAIN read' = 1..n /\ read'[n] = r /\ n \in 1..n
        /\ \A m \in 1..Len(read) : read'[m] = read[m] /\ m \in 1..n /\ Whose(m)' = Whose(m)
        /\ Whose(n)' = Person(r, n) /\ Looked \subseteq 1..Len(read)
        /\ Looked' = IF InWindow(r, range) THEN Looked \cup {n} ELSE Looked
    <3>1. /\ Len(read) \in Nat /\ n \in Nat \ {0} /\ DOMAIN read = 1..Len(read)
          /\ DOMAIN read' = 1..n /\ read'[n] = r
          /\ \A m \in 1..Len(read) : read'[m] = read[m] /\ m \in Nat /\ m < n /\ m # 0
          /\ Looked \subseteq 1..Len(read)
          /\ Looked' = IF InWindow(r, range) THEN Looked \cup {n} ELSE Looked
      BY <1>1, LineRead
    <3>2. Whose(n)' = Person(r, n) /\ \A m \in 1..Len(read) : Whose(m)' = Whose(m)
      BY <1>1, EndsStep
    <3>3. n \in 1..n /\ \A m \in 1..Len(read) : m \in 1..n
      BY <3>1
    <3> QED BY <3>1, <3>2, <3>3
  <2>5. \A i \in DOMAIN today : Matches(r, today[i]) <=> Holder(today[i]) = Person(r, n)
    BY <1>1, <1>7, <2>1, GoesTo
  \* What is there of the old entries.
  <2>6. ASSUME NEW i \in DOMAIN today
        PROVE  \E m \in 1..n : read'[m].wid = today[i].wid /\ read'[m].peer = today[i].peer
    BY <2>1, <2>3 DEF Origins
  <2>7. ASSUME NEW i \in DOMAIN today, NEW k, k = Holder(today[i]), Named(today[i]),
               ~(InWindow(r, range) /\ Person(r, n) = k)
        PROVE  Right(today[i], WaitsOf(k)', StaysOf(k)', read')
    <3>1. Right(today[i], WaitsOf(k), StaysOf(k), read)
      BY <2>1, <2>7 DEF AllRight
    <3> QED BY <1>1, <2>7, <3>1, OthersRight
  <2>8. \A m \in Looked : Named(read'[m]) => Named(read[m])
    BY <2>3
  <2>9. CASE UNCHANGED today /\ (r.ts < Today \/ (Len(today) >= MaxToday /\ Entries(r) = {}))
    <3>1. Origins' /\ EachOnce'
      BY <2>1, <2>3, <2>6, <2>9 DEF Origins, EachOnce
    <3>2. AllListed'
      <4>1. CASE r.ts < Today
        <5>1. Looked' = Looked
          BY <1>2, <2>2, <2>3, <4>1
        <5>2. ASSUME Len(today) < MaxToday, NEW m \in Looked, Named(read'[m])
              PROVE  \E i \in DOMAIN today : Holder(today[i]) = Whose(m)'
          BY <2>1, <2>3, <2>8, <5>2 DEF AllListed
        <5> QED BY <2>9, <5>1, <5>2 DEF AllListed, Whose
      <4>2. CASE Len(today) >= MaxToday
        <5>1. ~(Len(today') < MaxToday)
          BY <1>1, <1>2, <2>9, <4>2
        <5> QED BY <5>1 DEF AllListed
      <4> QED BY <2>9, <4>1, <4>2
    <3>3. AllRight'
      <4>1. ASSUME NEW i \in DOMAIN today, NEW k, k = Holder(today[i]), Named(today[i])
            PROVE  ~(InWindow(r, range) /\ Person(r, n) = k)
        BY <1>2, <2>2, <2>5, <2>9, <4>1 DEF Entries
      <4>2. ASSUME NEW i \in DOMAIN today', NEW k \in {Holder(today'[i])}, Named(today'[i])
            PROVE  Right(today'[i], WaitsOf(k)', StaysOf(k)', read')
        BY <2>7, <2>9, <4>1, <4>2
      <4> QED BY <4>2 DEF AllRight
    <3> QED BY <3>1, <3>2, <3>3
  <2>10. ASSUME NEW i \in Entries(r), r.ts >= Today, today' = [today EXCEPT ![i] = CountedRow(@, r)]
         PROVE  Origins' /\ EachOnce' /\ AllListed' /\ AllRight'
    <3> DEFINE c == CountedRow(today[i], r)
    <3>1. i \in DOMAIN today /\ Matches(r, today[i]) /\ Holder(today[i]) = Person(r, n)
      BY <2>5, <2>10 DEF Entries
    <3>2. c \in Listed /\ c.wid = today[i].wid /\ c.peer = today[i].peer
      BY <1>1, <1>4, <3>1
    <3>3. /\ DOMAIN today' = DOMAIN today /\ Len(today') = Len(today) /\ today'[i] = c
          /\ \A j \in DOMAIN today : j # i => today'[j] = today[j]
      <4> HIDE DEF c
      <4>1. today' = [today EXCEPT ![i] = c]
        BY <2>10 DEF c
      <4> QED BY <1>1, <3>1, <3>2, <4>1, ExceptSeq
    <3> HIDE DEF c
    <3>4. \A j \in DOMAIN today : /\ today'[j].wid = today[j].wid /\ today'[j].peer = today[j].peer
                                  /\ Holder(today'[j]) = Holder(today[j])
                                  /\ Named(today'[j]) <=> Named(today[j])
      BY <3>2, <3>3, SameHolder
    <3>5. Origins'
      BY <2>3, <2>6, <3>3, <3>4 DEF Origins
    <3>6. EachOnce'
      BY <2>1, <3>3, <3>4 DEF EachOnce
    <3>7. AllListed'
      <4>1. ASSUME Len(today) < MaxToday, NEW m \in Looked, Named(read'[m])
            PROVE  \E j \in DOMAIN today : Holder(today[j]) = Whose(m)'
        BY <2>1, <2>3, <2>8, <4>1 DEF AllListed
      <4>2. ASSUME Len(today) < MaxToday, NEW m \in Looked', Named(read'[m])
            PROVE  \E j \in DOMAIN today' : Holder(today'[j]) = Whose(m)'
        <5>1. CASE m \in Looked
          <6>1. PICK j \in DOMAIN today : Holder(today[j]) = Whose(m)'
            BY <4>1, <4>2, <5>1
          <6> QED BY <3>3, <3>4, <6>1
        <5>2. CASE m = n
          <6>1. Whose(m)' = Person(r, n)
            BY <2>3, <5>2 DEF Whose
          <6> QED BY <3>1, <3>3, <3>4, <6>1
        <5> QED BY <2>3, <4>2, <5>1, <5>2
      <4> QED BY <3>3, <4>2 DEF AllListed, Whose
    <3>8. AllRight'
      <4>1. SUFFICES ASSUME NEW j \in DOMAIN today', NEW k \in {Holder(today'[j])}, Named(today'[j])
                     PROVE  Right(today'[j], WaitsOf(k)', StaysOf(k)', read')
        BY DEF AllRight
      <4>2. j \in DOMAIN today /\ k = Holder(today[j]) /\ Named(today[j])
        BY <3>3, <3>4, <4>1
      <4>3. CASE j = i
        <5>1. Right(today[i], WaitsOf(k), StaysOf(k), read)
          BY <2>1, <4>2, <4>3 DEF AllRight
        <5>2. r.ts # 0 /\ InWindow(r, range) /\ Person(r, n) = k
          BY <1>2, <2>2, <2>10, <3>1, <4>2, <4>3
        <5>3. Right(CountedRow(today[i], r), WaitsOf(k)', StaysOf(k)', read')
          BY <1>1, <3>1, <5>1, <5>2, TheirsRight
        <5> QED BY <3>3, <4>3, <5>3 DEF c
      <4>4. CASE j # i
        <5>1. Person(r, n) # k
          BY <2>1, <3>1, <4>2, <4>4 DEF EachOnce
        <5> QED BY <2>7, <3>3, <4>2, <4>4, <5>1
      <4> QED BY <4>3, <4>4
    <3> QED BY <3>5, <3>6, <3>7, <3>8
  <2>11. ASSUME Entries(r) = {}, r.ts >= Today, Len(today) < MaxToday,
                today' = Append(today, CountedRow(NewEntry(r), r))
         PROVE  Origins' /\ EachOnce' /\ AllListed' /\ AllRight'
    <3> DEFINE c == CountedRow(e0, r)
               l == Len(today) + 1
    <3>1. c \in Listed /\ c.wid = r.wid /\ c.peer = r.peer
      BY <1>3, <1>4
    <3>2. today' = Append(today, c)
      BY <2>11 DEF e0
    <3> HIDE DEF c
    <3>3. /\ Len(today') = l /\ DOMAIN today' = 1..l /\ today'[l] = c /\ l \in 1..l
          /\ \A j \in DOMAIN today : today'[j] = today[j] /\ j \in 1..l /\ j # l
          /\ \A j \in 1..l : j \in DOMAIN today \/ j = l
      <4>1. today' \in Seq(Listed) /\ Len(today') = l /\ today'[l] = c
            /\ \A j \in 1..Len(today) : today'[j] = today[j]
        BY <1>1, <3>1, <3>2, AppendProperties
      <4>2. DOMAIN today' = 1..l
        BY <4>1, LenProperties
      <4>3. /\ l \in 1..l /\ \A j \in 1..Len(today) : j \in 1..l /\ j # l
            /\ \A j \in 1..l : j \in 1..Len(today) \/ j = l
        BY <1>1
      <4> QED BY <1>1, <4>1, <4>2, <4>3
    <3> HIDE DEF l
    <3>4. \A j \in DOMAIN today : Holder(today[j]) # Person(r, n)
      BY <2>5, <2>11 DEF Entries
    <3>5. Named(c) <=> Named(r)
      BY <3>1, SameHolder
    <3>6. Named(r) => Holder(c) = Person(r, n)
      BY <3>1 DEF Named, Holder, Person
    <3>7. Origins'
      <4>1. ASSUME NEW j \in 1..l
            PROVE  \E m \in 1..n : read'[m].wid = today'[j].wid /\ read'[m].peer = today'[j].peer
        <5>1. CASE j \in DOMAIN today
          <6>1. PICK m \in 1..n : read'[m].wid = today[j].wid /\ read'[m].peer = today[j].peer
            BY <2>6, <5>1
          <6>2. today'[j] = today[j]
            BY <3>3, <5>1
          <6> QED BY <6>1, <6>2
        <5>2. CASE j = l
          BY <2>3, <3>1, <3>3, <5>2
        <5> QED BY <3>3, <4>1, <5>1, <5>2
      <4> QED BY <2>3, <3>3, <4>1 DEF Origins
    <3>8. EachOnce'
      <4>1. \A j \in DOMAIN today : Named(c) \/ Named(today[j]) => Holder(today[j]) # Holder(c)
        <5>1. ASSUME NEW j \in DOMAIN today, Named(c) PROVE Holder(today[j]) # Holder(c)
          BY <3>4, <3>5, <3>6, <5>1
        <5>2. ASSUME NEW j \in DOMAIN today, Named(today[j]), ~Named(c)
              PROVE  Holder(today[j]) # Holder(c)
          BY <5>2 DEF Named, Holder, Person
        <5> QED BY <5>1, <5>2
      <4> QED BY <2>1, <3>3, <4>1 DEF EachOnce
    <3>9. AllListed'
      <4>1. ASSUME NEW m \in Looked', Named(read'[m])
            PROVE  \E j \in DOMAIN today' : Holder(today'[j]) = Whose(m)'
        <5>1. CASE m \in Looked
          <6>1. PICK j \in DOMAIN today : Holder(today[j]) = Whose(m)
            BY <2>1, <2>8, <2>11, <4>1, <5>1 DEF AllListed
          <6> QED BY <2>3, <3>3, <5>1, <6>1
        <5>2. CASE m = n
          <6>1. Named(r)
            BY <2>3, <4>1, <5>2
          <6>2. Whose(m)' = Person(r, n)
            BY <2>3, <5>2 DEF Whose
          <6> QED BY <3>3, <3>6, <6>1, <6>2
        <5> QED BY <2>3, <4>1, <5>1, <5>2
      <4> QED BY <4>1 DEF AllListed, Whose
    <3>10. AllRight'
      <4>1. SUFFICES ASSUME NEW j \in DOMAIN today', NEW k \in {Holder(today'[j])}, Named(today'[j])
                     PROVE  Right(today'[j], WaitsOf(k)', StaysOf(k)', read')
        BY DEF AllRight
      <4>2. CASE j = l
        <5>1. Named(r) /\ k = Person(r, n) /\ today'[j] = c
          BY <3>3, <3>5, <3>6, <4>1, <4>2
        <5>2. WaitsOf(k) = {} /\ StaysOf(k) = {}
          <6>1. WaitsOf(Person(r, n)) = {} /\ StaysOf(Person(r, n)) = {}
            BY <1>1, <2>1, <2>11, <3>4, <5>1, NotYetThere
          <6> QED BY <5>1, <6>1
        <5>3. Right(e0, WaitsOf(k), StaysOf(k), read)
          BY <1>3, <5>2, RightNew
        <5>4. r.ts # 0 /\ InWindow(r, range)
          BY <1>2, <2>2, <2>11
        <5>5. Right(CountedRow(e0, r), WaitsOf(k)', StaysOf(k)', read')
          BY <1>1, <1>3, <5>1, <5>3, <5>4, TheirsRight
        <5> QED BY <5>1, <5>5 DEF c
      <4>3. CASE j \in DOMAIN today
        <5>1. today'[j] = today[j] /\ k = Holder(today[j]) /\ Named(today[j])
          BY <3>3, <4>1, <4>3
        <5>2. Person(r, n) # k
          BY <3>4, <4>3, <5>1
        <5> QED BY <2>7, <4>3, <5>1, <5>2
      <4> QED BY <3>3, <4>2, <4>3
    <3> QED BY <3>7, <3>8, <3>9, <3>10
  <2>12. r.ts < Today \/ r.ts >= Today
    BY <1>2
  <2>13. CASE r.ts >= Today /\ \E i \in Entries(r) :
                First(i, Entries(r)) /\ today' = [today EXCEPT ![i] = CountedRow(@, r)]
    <3>1. PICK i \in Entries(r) : today' = [today EXCEPT ![i] = CountedRow(@, r)]
      BY <2>13
    <3> QED BY <2>10, <2>13, <3>1
  <2>14. CASE /\ r.ts >= Today /\ Entries(r) = {}
              /\ Len(today) < MaxToday /\ today' = Append(today, CountedRow(NewEntry(r), r))
    BY <2>11, <2>14
  <2>15. CASE UNCHANGED today /\ (r.ts < Today \/ (Len(today) >= MaxToday /\ Entries(r) = {}))
    BY <2>9, <2>15
  <2> QED BY <2>13, <2>14, <2>15 DEF TodayLine
<1> QED BY <1>6, <1>7 DEF TodayInv

LEMMA NobodyListed ==
    ASSUME read = <<>>, today = <<>>, SheetTyped
    PROVE  TodayInv
<1>1. DOMAIN read = {} /\ DOMAIN today = {} /\ today \in Seq(Listed)
  OBVIOUS
<1>2. Looked = {}
  BY <1>1 DEF Looked
<1> QED BY <1>1, <1>2 DEF TodayInv, Origins, EachOnce, AllListed, AllRight

LEMMA TodayInvStep ==
    ASSUME TimesheetAssumption, SheetInv, TodayInv, [SheetNext]_sheetVars
    PROVE  SheetInv' /\ TodayInv'
<1>1. SheetInv' /\ SheetTyped'
  BY SheetInvStep DEF SheetInv
<1>2. CASE Answered
  <2>1. read' = <<>> /\ today' = <<>>
    BY <1>2 DEF Answered
  <2>2. DOMAIN read' = {} /\ DOMAIN today' = {} /\ today' \in Seq(Listed)
    BY <2>1
  <2>3. Looked' = {}
    BY <2>2 DEF Looked
  <2>4. Origins' /\ EachOnce' /\ AllListed' /\ AllRight'
    BY <2>2, <2>3 DEF Origins, EachOnce, AllListed, AllRight
  <2> QED BY <1>1, <2>2, <2>4 DEF TodayInv
<1>3. ASSUME NEW r \in Lines, ReadLine(r) PROVE TodayInv'
  <2>1. read' = Append(read, r) /\ UNCHANGED range /\ TodayLine(r)
    BY <1>3 DEF ReadLine
  <2> QED BY <1>1, <2>1, ListStep
<1>4. CASE UNCHANGED sheetVars
  <2>1. read' = read /\ range' = range /\ today' = today
    BY <1>4 DEF sheetVars
  <2>2. Looked' = Looked /\ Ins' = Ins
    BY <2>1 DEF Looked, Ins
  <2>3. Awaiting' = Awaiting /\ Stays' = Stays
    BY <2>1, <2>2 DEF Awaiting, Stays, Ends, Whose, OutOf
  <2>4. \A k : WaitsOf(k)' = WaitsOf(k) /\ StaysOf(k)' = StaysOf(k)
    BY <2>1, <2>3 DEF WaitsOf, StaysOf, Whose
  <2>5. (FromToday' <=> FromToday) /\ (Unmixed' <=> Unmixed)
    BY <2>1 DEF FromToday, Unmixed
  <2>6. (Origins => Origins') /\ (EachOnce => EachOnce')
    BY <2>1 DEF Origins, EachOnce
  <2>7. AllListed => AllListed'
    BY <2>1, <2>2 DEF AllListed, Whose
  <2>8. AllRight => AllRight'
    <3>1. SUFFICES ASSUME AllRight, NEW i \in DOMAIN today', NEW k \in {Holder(today'[i])}, Named(today'[i])
                   PROVE  Right(today'[i], WaitsOf(k)', StaysOf(k)', read')
      BY DEF AllRight
    <3>2. Right(today[i], WaitsOf(k), StaysOf(k), read)
      BY <2>1, <3>1 DEF AllRight
    <3> QED BY <2>1, <2>4, <3>2
  <2> QED BY <1>1, <2>1, <2>5, <2>6, <2>7, <2>8 DEF TodayInv
<1> QED BY <1>1, <1>2, <1>3, <1>4 DEF SheetNext

LEMMA TodayInvHolds == SheetSpec => [](SheetInv /\ TodayInv)
<1>1. SheetInit => SheetInv /\ TodayInv
  <2>1. ASSUME SheetInit PROVE SheetInv /\ TodayInv
    <3>1. SheetInv /\ read = <<>> /\ today = <<>>
      BY <2>1, TimesheetAssumption, SheetInvInit DEF SheetInit
    <3> QED BY <3>1, NobodyListed DEF SheetInv
  <2> QED BY <2>1
<1>2. SheetInv /\ TodayInv /\ [SheetNext]_sheetVars => SheetInv' /\ TodayInv'
  BY TimesheetAssumption, TodayInvStep
<1> QED BY <1>1, <1>2, PTL DEF SheetSpec

\* The account that is right is the one that the paired view gives.
LEMMA AccountAgrees ==
    ASSUME TimesheetAssumption, SheetTyped, NEW e \in Listed, NEW W, NEW S, Right(e, W, S, read)
    PROVE  /\ e.segments = Cardinality(S)
           /\ e.total = MapThenSumSet(LAMBDA s : Lasted(read[s.in].ts, read[s.out].ts), S)
           /\ \A now \in Nat :
                TotalAt(e, now) = e.total + MapThenSumSet(LAMBDA n : Lasted(read[n].ts, now), W)
           /\ e.inside <=> W # {}
<1>1. /\ IsFiniteSet(S) /\ e.segments = Cardinality(S) /\ IsSum(e.total, StayTimes(S, read), S)
      /\ e.since = 0 => W = {}
      /\ e.since # 0 => \E a \in DOMAIN read : W = {a} /\ read[a].ts = e.since
      /\ e.inside <=> e.since # 0
  BY DEF Right
<1>2. e.since \in Nat /\ e.total \in Nat
  BY DEF Listed
<1>3. e.total = MapThenSumSet(LAMBDA s : Lasted(read[s.in].ts, read[s.out].ts), S)
  <2>1. PICK b : b = MapThenSumSet(LAMBDA s : Lasted(read[s.in].ts, read[s.out].ts), S)
    OBVIOUS
  <2>2. IsSum(b, StayTimes(S, read), S)
    BY <1>1, <2>1, StaySum
  <2>3. e.total = b
    BY <1>1, <2>2, SumIsOne
  <2> QED BY <2>1, <2>3
<1>4. ASSUME NEW now \in Nat
      PROVE  TotalAt(e, now) = e.total + MapThenSumSet(LAMBDA n : Lasted(read[n].ts, now), W)
  <2>1. PICK b : b = MapThenSumSet(LAMBDA n : Lasted(read[n].ts, now), W)
    OBVIOUS
  <2>2. PICK w : w = [n \in W |-> Lasted(read[n].ts, now)]
    OBVIOUS
  <2>3. IsFiniteSet(W)
    <3>1. W = {} \/ \E a : W = {a}
      BY <1>1
    <3>2. CASE W = {}
      BY <3>2, FS_EmptySet
    <3>3. ASSUME NEW a, W = {a} PROVE IsFiniteSet(W)
      BY <3>3, FS_Singleton
    <3> QED BY <3>1, <3>2, <3>3
  <2>4. IsSum(b, w, W)
    BY <2>1, <2>2, <2>3, OpenSum
  <2>5. CASE e.since = 0
    <3>1. IsSum(b, w, {})
      BY <1>1, <2>4, <2>5
    <3>2. b = 0
      BY <3>1, SumOfNone
    <3>3. TotalAt(e, now) = e.total + b
      BY <1>2, <2>5, <3>2 DEF TotalAt
    <3> QED BY <2>1, <3>3
  <2>6. CASE e.since # 0
    <3>1. PICK a \in DOMAIN read : W = {a} /\ read[a].ts = e.since
      BY <1>1, <2>6
    <3>2. w[a] = Lasted(e.since, now)
      BY <2>2, <3>1
    <3>3. w[a] \in Nat
      <4>1. e.since \in Int /\ now \in Int
        BY <1>2
      <4> QED BY <3>2, <4>1, LastedNat
    <3>4. IsSum(b, w, {a})
      BY <2>4, <3>1
    <3>5. b = w[a]
      BY <3>3, <3>4, SumOfOne
    <3>6. TotalAt(e, now) = e.total + b
      BY <1>2, <2>6, <3>2, <3>5 DEF TotalAt
    <3> QED BY <2>1, <3>6
  <2> QED BY <2>5, <2>6
<1>5. e.inside <=> W # {}
  BY <1>1
<1> QED BY <1>1, <1>3, <1>4, <1>5

\* As long as the paired view shows every stay, everybody in the list of today_get has in
\* it the stays, the time and the presence that the paired export gives from today on.
THEOREM TodayAgreesAlways == SheetSpec => []TodayAgrees
<1>1. ASSUME SheetInv, TodayInv, range = [from |-> Today, to |-> 0], Unmixed, ~Crowded,
             NEW i \in DOMAIN today, today[i].wid # 0 \/ today[i].peer # NoPeer,
             NEW mine, mine = {s \in Segments : s.out # 0 /\ Matches(today[i], read[s.in])},
             NEW going, going = {n \in StillOpen : Matches(today[i], read[n])}
      PROVE  /\ today[i].segments = Cardinality(mine)
             /\ today[i].total = MapThenSumSet(
                    LAMBDA s : Lasted(read[s.in].ts, read[s.out].ts), mine)
             /\ \A now \in Today..(Today + DayLen - 1) :
                    TotalAt(today[i], now) = today[i].total
                        + MapThenSumSet(LAMBDA n : Lasted(read[n].ts, now), going)
             /\ today[i].inside = (\E n \in StillOpen : Matches(today[i], read[n]))
  <2>1. /\ SheetTyped /\ Segments = Stays /\ StillOpen = Awaiting
        /\ Origins /\ AllRight /\ today \in Seq(Listed) /\ today[i] \in Listed
    BY <1>1, ElementOfSeq, LenProperties DEF SheetInv, Complete, TodayInv, FromToday
  <2>2. PICK k : k = Holder(today[i])
    OBVIOUS
  <2>3. ASSUME NEW a \in Ins PROVE Matches(today[i], read[a]) <=> Whose(a) = k
    <3>1. a \in DOMAIN read /\ a # 0
      BY <2>1, LenProperties DEF Ins, Looked, SheetTyped
    <3>2. PICK m \in DOMAIN read : read[m].wid = today[i].wid /\ read[m].peer = today[i].peer
      BY <2>1 DEF Origins
    <3>3. today[i].peer = read[a].peer /\ today[i].peer # NoPeer
            => ((today[i].wid = 0) <=> (read[a].wid = 0))
      BY <1>1, <3>1, <3>2 DEF Unmixed
    <3>4. Matches(today[i], read[a]) <=> Person(today[i], 0) = Person(read[a], a)
      BY <3>1, <3>3, OnePerson
    <3> QED BY <2>2, <3>4 DEF Holder, Person, Whose
  <2>4. mine = StaysOf(k)
    BY <1>1, <2>1, <2>3, StaysAre DEF StaysOf
  <2>5. going = WaitsOf(k)
    BY <1>1, <2>1, <2>3 DEF WaitsOf, Awaiting
  <2>6. Right(today[i], going, mine, read)
    BY <1>1, <2>1, <2>2, <2>4, <2>5 DEF AllRight, Named
  <2>7. /\ today[i].segments = Cardinality(mine)
        /\ today[i].total = MapThenSumSet(
               LAMBDA s : Lasted(read[s.in].ts, read[s.out].ts), mine)
        /\ \A now \in Nat :
               TotalAt(today[i], now) = today[i].total
                   + MapThenSumSet(LAMBDA n : Lasted(read[n].ts, now), going)
        /\ today[i].inside <=> going # {}
    BY <2>1, <2>6, TimesheetAssumption, AccountAgrees
  <2>8. \A now \in Today..(Today + DayLen - 1) : now \in Nat
    BY TimesheetAssumption DEF TimesheetAssumption
  <2>9. today[i].inside = (\E n \in StillOpen : Matches(today[i], read[n]))
    <3>1. today[i].inside \in BOOLEAN
      BY <2>1, Zenon DEF Listed
    <3>2. going # {} <=> \E n \in StillOpen : Matches(today[i], read[n])
      BY <1>1
    <3> QED BY <2>7, <3>1, <3>2, Zenon
  <2> QED BY <2>7, <2>8, <2>9
<1>2. SheetInv /\ TodayInv => TodayAgrees
  BY <1>1 DEF TodayAgrees
<1> QED BY <1>2, TodayInvHolds, PTL

-----------------------------------------------------------------------------
(***************************************************************************)
(* The calendar.                                                           *)
(***************************************************************************)
Asked == {Today - k * DayLen : k \in 0..(Days - 1)}
Bucket == [day : Int, events : Nat, mask : SUBSET Nat]

\* A day is what lies between two midnights.
LEMMA OneDay ==
    ASSUME NEW D \in Nat \ {0}, NEW x \in Int, NEW b \in 0..(D - 1)
    PROVE  0 <= x * D + b /\ x * D + b < D <=> x = 0
<1>1. CASE x = 0
  BY <1>1
<1>2. CASE x >= 1
  <2>1. x * D >= D
    BY <1>2
  <2> QED BY <1>2, <2>1
<1>3. CASE x <= -1
  <2>1. x * D <= -D
    BY <1>3
  <2> QED BY <1>3, <2>1
<1> QED BY <1>1, <1>2, <1>3

LEMMA Quotients ==
    ASSUME NEW D \in Nat \ {0}, NEW t \in Nat
    PROVE  t % D \in 0..(D - 1) /\ \E a \in Nat : t = a * D + (t % D)
<1>1. PICK a : a = t \div D
  OBVIOUS
<1>2. a \in Int /\ a >= 0
  BY <1>1
<1>3. t % D \in 0..(D - 1)
  OBVIOUS
<1>4. t = D * (t \div D) + (t % D)
  OBVIOUS
<1>5. t = D * a + (t % D)
  BY <1>1, <1>4
<1>6. PICK b \in 0..(D - 1) : b = t % D
  BY <1>3
<1>7. t = a * D + b
  BY <1>2, <1>5, <1>6
<1>8. a \in Nat /\ t = a * D + (t % D)
  BY <1>2, <1>6, <1>7
<1> QED BY <1>3, <1>8, Zenon

LEMMA DayOf ==
    ASSUME TimesheetAssumption, NEW t \in Nat
    PROVE  /\ \A d \in Asked : d \in Nat \ {0} /\ (d <= t /\ t < d + DayLen <=> Midnight(t) = d)
           /\ t >= CalFrom /\ t < CalTo <=> Midnight(t) \in Asked
           /\ Midnight(t) \in Int
<1> DEFINE D == DayLen
           b == t % D
<1>1. D \in Nat \ {0} /\ Days \in Nat \ {0} /\ Today \in Nat /\ Today >= Days * D
  BY DEF TimesheetAssumption
<1>2. PICK q \in Nat : Today = q * D
  <2>1. PICK q \in Nat : Today = q * D + (Today % D)
    BY <1>1, Quotients
  <2>2. q * D \in Int /\ Today % D = 0
    BY <1>1 DEF TimesheetAssumption
  <2> QED BY <2>1, <2>2
<1>3. b \in 0..(D - 1) /\ Midnight(t) = t - b /\ \E a \in Nat : t = a * D + b
  BY <1>1, Quotients DEF Midnight
<1> HIDE DEF D, b
<1>3a. PICK a \in Nat : t = a * D + b
  BY <1>3
<1>4. D = DayLen
  BY DEF D
<1>5. Midnight(t) = a * D /\ Midnight(t) \in Int
  <2>1. a * D \in Int
    BY <1>1, <1>3, <1>3a
  <2> QED BY <1>3, <1>3a, <2>1
<1>6. ASSUME NEW k \in Int
      PROVE  /\ Today - k * D = (q - k) * D
             /\ t - (Today - k * D) = (a - (q - k)) * D + b
  BY <1>1, <1>2, <1>3, <1>3a
<1>7. ASSUME NEW k \in 0..(Days - 1), NEW d, d = Today - k * D
      PROVE  d \in Nat \ {0} /\ (d <= t /\ t < d + D <=> Midnight(t) = d)
  <2>1. k \in Int /\ d \in Int
    BY <1>1, <1>7
  <2>2. k * D <= (Days - 1) * D
    BY <1>1, <1>7
  <2>3. (Days - 1) * D = Days * D - D /\ Days * D \in Int /\ k * D \in Int
    BY <1>1, <1>7
  <2>4. d >= D
    BY <1>1, <1>7, <2>2, <2>3
  <2>5. d <= t /\ t < d + D <=> a - (q - k) = 0
    <3>1. a - (q - k) \in Int
      BY <1>2, <1>3, <1>3a, <2>1
    <3>2. 0 <= (a - (q - k)) * D + b /\ (a - (q - k)) * D + b < D <=> a - (q - k) = 0
      BY <1>1, <1>3, <1>3a, <3>1, OneDay
    <3>3. t - d = (a - (q - k)) * D + b
      BY <1>6, <1>7, <2>1
    <3> QED BY <1>1, <2>1, <3>2, <3>3
  <2>6. Midnight(t) = d <=> a = q - k
    <3>1. d = (q - k) * D
      BY <1>6, <1>7, <2>1
    <3>2. a * D = (q - k) * D <=> a = q - k
      BY <1>1, <1>2, <1>3, <1>3a, <2>1
    <3> QED BY <1>5, <3>1, <3>2
  <2>7. a - (q - k) = 0 <=> a = q - k
    BY <1>2, <1>3, <1>3a, <2>1
  <2> QED BY <1>1, <2>1, <2>4, <2>5, <2>6, <2>7
<1>8. \A d \in Asked : d \in Nat \ {0} /\ (d <= t /\ t < d + DayLen <=> Midnight(t) = d)
  BY <1>4, <1>7 DEF Asked
<1>9. ASSUME Midnight(t) \in Asked
      PROVE  t >= CalFrom /\ t < CalTo
  <2>1. PICK k \in 0..(Days - 1) : Midnight(t) = Today - k * D
    BY <1>4, <1>9 DEF Asked
  <2> DEFINE d == Today - k * D
  <2>2. d \in Nat /\ d <= t /\ t < d + D
    BY <1>7, <2>1
  <2>3. k * D <= (Days - 1) * D /\ 0 <= k * D /\ k * D \in Int /\ (Days - 1) * D \in Int
    BY <1>1
  <2>4. Today - (Days - 1) * D <= t /\ t < Today + D
    BY <1>1, <2>2, <2>3
  <2> QED BY <1>1, <1>4, <2>4 DEF CalFrom, CalTo
<1>10. ASSUME t >= CalFrom, t < CalTo
       PROVE  Midnight(t) \in Asked
  <2> DEFINE k == q - a
  <2>1. k \in Int /\ Today - k * D = a * D
    BY <1>1, <1>2, <1>3, <1>3a
  <2>2. (q - a) * D = q * D - a * D /\ q * D \in Int /\ a * D \in Int /\ (Days - 1) * D \in Int
    BY <1>1, <1>2, <1>3, <1>3a
  <2>3. k * D - b <= (Days - 1) * D /\ -D < k * D - b
    BY <1>1, <1>2, <1>3, <1>3a, <1>4, <1>10, <2>2 DEF CalFrom, CalTo
  <2>4. k >= 0
    <3>1. k <= -1 => k * D <= -D
      BY <1>1, <2>1
    <3> QED BY <1>1, <1>3, <1>3a, <2>1, <2>3, <3>1
  <2>5. k <= Days - 1
    <3>1. k >= Days => k * D >= Days * D
      BY <1>1, <2>1
    <3>2. (Days - 1) * D = Days * D - D /\ Days * D \in Int
      BY <1>1
    <3> QED BY <1>1, <1>3, <1>3a, <2>1, <2>3, <3>1, <3>2
  <2>6. k \in 0..(Days - 1)
    BY <1>1, <2>1, <2>4, <2>5
  <2> QED BY <1>4, <1>5, <2>1, <2>6 DEF Asked
<1> QED BY <1>5, <1>8, <1>9, <1>10

\* The rows of a day in a file, and the bits of their workers.
RowsOn(rd, d) == {n \in DOMAIN rd : InWindow(rd[n], [from |-> d, to |-> d + DayLen])}
MaskOn(rd, d) == {rd[m].wid : m \in RowsOn(rd, d)} \cap 1..(MaskBits - 1)

\* A file with one more line, and what cal_iter_cb makes of it.
Longer(rd, r, rd2) == rd2 = Append(rd, r)

Marking(ds, r, ds2) ==
    \/ ~(r.ts >= CalFrom /\ r.ts < CalTo) /\ ds2 = ds
    \/ /\ r.ts >= CalFrom /\ r.ts < CalTo
       /\ \E i \in DOMAIN ds : /\ ds[i].day = Midnight(r.ts)
                               /\ ds2 = [ds EXCEPT ![i].events = @ + 1, ![i].mask = Marked(@, r)]
    \/ /\ r.ts >= CalFrom /\ r.ts < CalTo
       /\ \A i \in DOMAIN ds : ds[i].day # Midnight(r.ts)
       /\ ds2 = Append(ds, [day |-> Midnight(r.ts), events |-> 1, mask |-> Marked({}, r)])

\* One more line is one more row of its day.
LEMMA DayRowsStep ==
    ASSUME TimesheetAssumption, NEW rd \in Seq(Lines), NEW r \in Lines, NEW rd2, Longer(rd, r, rd2),
           NEW n, n = Len(rd) + 1, NEW d \in Asked
    PROVE  /\ RowsOn(rd2, d) = IF Midnight(r.ts) = d THEN RowsOn(rd, d) \cup {n} ELSE RowsOn(rd, d)
           /\ n \notin RowsOn(rd, d) /\ IsFiniteSet(RowsOn(rd, d))
           /\ rd2[n] = r /\ \A m \in RowsOn(rd, d) : rd2[m] = rd[m]
<1>1. /\ Len(rd) \in Nat /\ n \in Nat /\ DOMAIN rd = 1..Len(rd)
      /\ n \notin 1..Len(rd) /\ \A m : m \in 1..n <=> m \in 1..Len(rd) \/ m = n
  BY LenProperties
<1>2. /\ rd2 \in Seq(Lines) /\ Len(rd2) = n /\ rd2[n] = r
      /\ \A m \in 1..Len(rd) : rd2[m] = rd[m]
  BY <1>1, AppendProperties DEF Longer
<1>3. DOMAIN rd2 = 1..n
  BY <1>2, LenProperties
<1>4. RowsOn(rd, d) \subseteq 1..Len(rd)
  BY <1>1 DEF RowsOn
<1>5. n \notin RowsOn(rd, d) /\ IsFiniteSet(RowsOn(rd, d))
  <2>1. IsFiniteSet(1..Len(rd))
    BY <1>1, FS_Interval
  <2>2. IsFiniteSet(RowsOn(rd, d))
    BY <1>4, <2>1, FS_Subset
  <2> QED BY <1>1, <1>4, <2>2
<1>6. RowsOn(rd2, d) = IF Midnight(r.ts) = d THEN RowsOn(rd, d) \cup {n} ELSE RowsOn(rd, d)
  <2> DEFINE g == [from |-> d, to |-> d + DayLen]
  <2>1. \A m : m \in RowsOn(rd2, d) <=> m \in 1..n /\ InWindow(rd2[m], g)
    BY <1>3 DEF RowsOn
  <2>2. \A m : m \in RowsOn(rd, d) <=> m \in 1..Len(rd) /\ InWindow(rd[m], g)
    BY <1>1 DEF RowsOn
  <2>3. InWindow(r, g) <=> Midnight(r.ts) = d
    <3>1. r.ts \in Nat /\ DayLen \in Nat
      BY DEF TimesheetAssumption
    <3>2. d \in Nat \ {0} /\ (d <= r.ts /\ r.ts < d + DayLen <=> Midnight(r.ts) = d)
      BY <3>1, DayOf
    <3>3. g.from = d /\ g.to = d + DayLen
      OBVIOUS
    <3> HIDE DEF g
    <3>4. InWindow(r, g) <=> r.ts >= d /\ r.ts < d + DayLen
      BY <3>1, <3>2, <3>3 DEF InWindow
    <3> QED BY <3>1, <3>2, <3>4
  <2> HIDE DEF g
  <2>4. \A m : m \in RowsOn(rd2, d) <=> m \in RowsOn(rd, d) \/ (m = n /\ Midnight(r.ts) = d)
    BY <1>1, <1>2, <2>1, <2>2, <2>3
  <2> QED BY <2>4
<1> QED BY <1>2, <1>4, <1>5, <1>6

\* The bucket of the day counts the row and has its worker's bit.
LEMMA BucketStep ==
    ASSUME TimesheetAssumption, NEW rd \in Seq(Lines), NEW r \in Lines, NEW rd2, Longer(rd, r, rd2),
           NEW d \in Asked
    PROVE  /\ Midnight(r.ts) = d =>
                /\ Cardinality(RowsOn(rd2, d)) = Cardinality(RowsOn(rd, d)) + 1
                /\ MaskOn(rd2, d) = Marked(MaskOn(rd, d), r)
                /\ RowsOn(rd2, d) # {}
           /\ Midnight(r.ts) # d =>
                RowsOn(rd2, d) = RowsOn(rd, d) /\ MaskOn(rd2, d) = MaskOn(rd, d)
<1>0. PICK n : n = Len(rd) + 1
  OBVIOUS
<1>1. /\ RowsOn(rd2, d) = IF Midnight(r.ts) = d THEN RowsOn(rd, d) \cup {n} ELSE RowsOn(rd, d)
      /\ n \notin RowsOn(rd, d) /\ IsFiniteSet(RowsOn(rd, d))
      /\ rd2[n] = r /\ \A m \in RowsOn(rd, d) : rd2[m] = rd[m]
  <2>1. RowsOn(rd2, d) = IF Midnight(r.ts) = d THEN RowsOn(rd, d) \cup {n} ELSE RowsOn(rd, d)
    BY <1>0, DayRowsStep
  <2>2. n \notin RowsOn(rd, d) /\ IsFiniteSet(RowsOn(rd, d))
    BY <1>0, DayRowsStep
  <2>3. rd2[n] = r /\ \A m \in RowsOn(rd, d) : rd2[m] = rd[m]
    BY <1>0, DayRowsStep
  <2> QED BY <2>1, <2>2, <2>3
<1>2. \A x : x \in MaskOn(rd2, d) <=> x \in 1..(MaskBits - 1) /\ \E m \in RowsOn(rd2, d) : rd2[m].wid = x
  BY DEF MaskOn
<1>3. \A x : x \in MaskOn(rd, d) <=> x \in 1..(MaskBits - 1) /\ \E m \in RowsOn(rd, d) : rd[m].wid = x
  BY DEF MaskOn
<1>4. CASE Midnight(r.ts) = d
  <2>1. Cardinality(RowsOn(rd, d) \cup {n}) = Cardinality(RowsOn(rd, d)) + 1
    BY <1>1, FS_AddElement
  <2>2. ASSUME NEW x \in 1..(MaskBits - 1)
        PROVE  (\E m \in RowsOn(rd2, d) : rd2[m].wid = x) <=> x = r.wid \/ \E m \in RowsOn(rd, d) : rd[m].wid = x
    <3>1. RowsOn(rd2, d) = RowsOn(rd, d) \cup {n}
      BY <1>1, <1>4
    <3> QED BY <1>1, <3>1
  <2>2a. \A x : x \in MaskOn(rd2, d) <=> x \in MaskOn(rd, d) \/ (x = r.wid /\ x \in 1..(MaskBits - 1))
    BY <1>2, <1>3, <2>2
  <2>3. \A x : x \in Marked(MaskOn(rd, d), r) <=> x \in MaskOn(rd, d) \/ (x = r.wid /\ x \in 1..(MaskBits - 1))
    BY DEF Marked
  <2>4. MaskOn(rd2, d) = Marked(MaskOn(rd, d), r)
    BY <2>2a, <2>3
  <2> QED BY <1>1, <1>4, <2>1, <2>4
<1>5. CASE Midnight(r.ts) # d
  <2>1. \A x : x \in MaskOn(rd2, d) <=> x \in MaskOn(rd, d)
    <3>1. RowsOn(rd2, d) = RowsOn(rd, d)
      BY <1>1, <1>5
    <3>2. \A x : (\E m \in RowsOn(rd2, d) : rd2[m].wid = x) <=> \E m \in RowsOn(rd, d) : rd[m].wid = x
      BY <1>1, <3>1
    <3> QED BY <1>2, <1>3, <3>2
  <2> QED BY <1>1, <1>5, <2>1
<1> QED BY <1>4, <1>5

BucketRight(b, rd) ==
    /\ b.day \in Asked
    /\ b.events = Cardinality(RowsOn(rd, b.day))
    /\ b.mask = MaskOn(rd, b.day)

\* CalendarAgrees of a file and the buckets.
Agreed(rd, ds) ==
    /\ \A i \in DOMAIN ds : BucketRight(ds[i], rd)
    /\ \A i, j \in DOMAIN ds : ds[i].day = ds[j].day => i = j
    /\ \A d \in Asked : RowsOn(rd, d) # {} => \E i \in DOMAIN ds : ds[i].day = d
    /\ \A i \in DOMAIN ds : RowsOn(rd, ds[i].day) # {}

LEMMA CalendarAgreed == CalendarAgrees <=> Agreed(read, days)
<1>1. /\ \A d : DayRows(d) = RowsOn(read, d)
      /\ \A d : {read[n].wid : n \in DayRows(d)} \cap 1..(MaskBits - 1) = MaskOn(read, d)
  BY DEF DayRows, RowsOn, MaskOn
<1>2. {days[i].day : i \in DOMAIN days} = {d \in Asked : DayRows(d) # {}}
      <=> /\ \A i \in DOMAIN days : days[i].day \in Asked /\ RowsOn(read, days[i].day) # {}
          /\ \A d \in Asked : RowsOn(read, d) # {} => \E i \in DOMAIN days : days[i].day = d
  BY <1>1
<1>3. CalendarAgrees <=>
        /\ \A i \in DOMAIN days :
             /\ days[i].events = Cardinality(RowsOn(read, days[i].day))
             /\ days[i].mask = MaskOn(read, days[i].day)
             /\ \A j \in DOMAIN days : days[i].day = days[j].day => i = j
        /\ {days[i].day : i \in DOMAIN days} = {d \in Asked : DayRows(d) # {}}
  BY <1>1, Zenon DEF CalendarAgrees, Asked
<1> QED BY <1>2, <1>3 DEF Agreed, BucketRight

LEMMA AgreedStep ==
    ASSUME TimesheetAssumption, NEW rd \in Seq(Lines), NEW r \in Lines, NEW rd2, Longer(rd, r, rd2),
           NEW ds \in Seq(Bucket), Agreed(rd, ds), NEW ds2,
           Marking(ds, r, ds2)
    PROVE  ds2 \in Seq(Bucket) /\ Agreed(rd2, ds2)
<1>1. PICK m : m = Midnight(r.ts)
  OBVIOUS
<1>2. m \in Int /\ (r.ts >= CalFrom /\ r.ts < CalTo <=> m \in Asked)
  <2>1. r.ts \in Nat
    BY DEF TimesheetAssumption
  <2> QED BY <1>1, <2>1, DayOf
<1>3. ASSUME NEW d \in Asked
      PROVE  /\ m = d => /\ Cardinality(RowsOn(rd2, d)) = Cardinality(RowsOn(rd, d)) + 1
                         /\ MaskOn(rd2, d) = Marked(MaskOn(rd, d), r)
                         /\ RowsOn(rd2, d) # {}
             /\ m # d => RowsOn(rd2, d) = RowsOn(rd, d) /\ MaskOn(rd2, d) = MaskOn(rd, d)
  <2>1. /\ Midnight(r.ts) = d => /\ Cardinality(RowsOn(rd2, d)) = Cardinality(RowsOn(rd, d)) + 1
                                 /\ MaskOn(rd2, d) = Marked(MaskOn(rd, d), r)
                                 /\ RowsOn(rd2, d) # {}
        /\ Midnight(r.ts) # d => RowsOn(rd2, d) = RowsOn(rd, d) /\ MaskOn(rd2, d) = MaskOn(rd, d)
    BY BucketStep
  <2> QED BY <1>1, <2>1
<1>4. Len(ds) \in Nat /\ DOMAIN ds = 1..Len(ds) /\ \A i \in 1..Len(ds) : ds[i] \in Bucket
  BY LenProperties, ElementOfSeq
<1>5. ASSUME NEW b, BucketRight(b, rd), b.day # m
      PROVE  BucketRight(b, rd2) /\ RowsOn(rd2, b.day) = RowsOn(rd, b.day)
  BY <1>3, <1>5 DEF BucketRight
<1>6. CASE m \notin Asked /\ ds2 = ds
  <2>1. \A i \in DOMAIN ds : BucketRight(ds[i], rd) /\ ds[i].day # m
    <3>1. \A i \in DOMAIN ds : BucketRight(ds[i], rd)
      BY DEF Agreed
    <3>2. \A b : BucketRight(b, rd) => b.day \in Asked
      BY DEF BucketRight
    <3> QED BY <1>6, <3>1, <3>2
  <2>2. \A d \in Asked : RowsOn(rd2, d) = RowsOn(rd, d)
    BY <1>3, <1>6
  <2> QED BY <1>5, <1>6, <2>1, <2>2 DEF Agreed
<1>7. ASSUME m \in Asked, NEW i \in DOMAIN ds, ds[i].day = m,
             ds2 = [ds EXCEPT ![i].events = @ + 1, ![i].mask = Marked(@, r)]
      PROVE  ds2 \in Seq(Bucket) /\ Agreed(rd2, ds2)
  <2>0. PICK b : b = [ds[i] EXCEPT !.events = @ + 1, !.mask = Marked(@, r)]
    OBVIOUS
  <2>1. ds[i] \in Bucket /\ BucketRight(ds[i], rd)
    BY <1>4 DEF Agreed
  <2>2. ds2 = [ds EXCEPT ![i] = b]
    BY <1>7, <2>0
  <2>3. b.day = m /\ b.events = ds[i].events + 1 /\ b.mask = Marked(ds[i].mask, r) /\ b \in Bucket
    <3>1. \A x \in Nat : x + 1 \in Nat
      OBVIOUS
    <3>2. Marked(ds[i].mask, r) \in SUBSET Nat
      BY <2>1 DEF Bucket, Marked, TimesheetAssumption
    <3> QED BY <1>7, <2>0, <2>1, <3>1, <3>2 DEF Bucket
  <2>4. BucketRight(b, rd2) /\ b.day = m
    BY <1>3, <1>7, <2>1, <2>3 DEF BucketRight
  <2>5. ds2 \in Seq(Bucket) /\ Len(ds2) = Len(ds) /\ ds2[i] = b /\ \A j \in 1..Len(ds) : j # i => ds2[j] = ds[j]
    BY <1>4, <2>2, <2>3, ExceptSeq
  <2>6. DOMAIN ds2 = 1..Len(ds)
    BY <2>5, LenProperties
  <2>7. \A j \in 1..Len(ds) : ds2[j].day = ds[j].day
    BY <1>7, <2>4, <2>5
  <2>8. \A j \in 1..Len(ds) : j # i => ds[j].day # m /\ BucketRight(ds[j], rd)
    BY <1>4, <1>7 DEF Agreed
  <2>9. \A j \in 1..Len(ds) : BucketRight(ds2[j], rd2) /\ RowsOn(rd2, ds2[j].day) # {}
    <3>1. RowsOn(rd2, m) # {}
      BY <1>3, <1>7
    <3>2. \A j \in 1..Len(ds) : RowsOn(rd, ds[j].day) # {}
      BY <1>4 DEF Agreed
    <3> QED BY <1>5, <2>4, <2>5, <2>8, <3>1, <3>2
  <2>10. \A d \in Asked : RowsOn(rd2, d) # {} => \E j \in 1..Len(ds) : ds2[j].day = d
    <3>1. \A d \in Asked : d # m /\ RowsOn(rd2, d) # {} => \E j \in 1..Len(ds) : ds[j].day = d
      BY <1>3, <1>4 DEF Agreed
    <3> QED BY <1>4, <1>7, <2>7, <3>1
  <2>11. \A j, k \in 1..Len(ds) : ds2[j].day = ds2[k].day => j = k
    BY <1>4, <2>7 DEF Agreed
  <2> QED BY <2>5, <2>6, <2>9, <2>10, <2>11 DEF Agreed
<1>8. ASSUME m \in Asked, \A i \in DOMAIN ds : ds[i].day # m,
             ds2 = Append(ds, [day |-> m, events |-> 1, mask |-> Marked({}, r)])
      PROVE  ds2 \in Seq(Bucket) /\ Agreed(rd2, ds2)
  <2> DEFINE b == [day |-> m, events |-> 1, mask |-> Marked({}, r)]
  <2>1. b \in Bucket
    <3>1. Marked({}, r) \in SUBSET Nat
      BY DEF Marked, TimesheetAssumption
    <3> QED BY <1>2, <3>1 DEF Bucket
  <2>2. RowsOn(rd, m) = {}
    BY <1>8 DEF Agreed
  <2>3. BucketRight(b, rd2) /\ b.day = m /\ RowsOn(rd2, m) # {}
    <3>1. Cardinality(RowsOn(rd, m)) = 0 /\ MaskOn(rd, m) = {}
      BY <2>2, FS_EmptySet DEF MaskOn
    <3>2. /\ Cardinality(RowsOn(rd2, m)) = 1 /\ MaskOn(rd2, m) = Marked({}, r)
          /\ RowsOn(rd2, m) # {}
      <4>1. /\ Cardinality(RowsOn(rd2, m)) = Cardinality(RowsOn(rd, m)) + 1
            /\ MaskOn(rd2, m) = Marked(MaskOn(rd, m), r)
            /\ RowsOn(rd2, m) # {}
        BY <1>3, <1>8
      <4> QED BY <3>1, <4>1
    <3>3. b.day = m /\ b.events = 1 /\ b.mask = Marked({}, r)
      OBVIOUS
    <3> HIDE DEF b
    <3> QED BY <1>8, <3>2, <3>3 DEF BucketRight
  <2>4. ds2 = Append(ds, b)
    BY <1>8
  <2> HIDE DEF b
  <2>5. /\ ds2 \in Seq(Bucket) /\ Len(ds2) = Len(ds) + 1 /\ ds2[Len(ds) + 1] = b
        /\ \A j \in 1..Len(ds) : ds2[j] = ds[j]
    <3>1. /\ Append(ds, b) \in Seq(Bucket) /\ Len(Append(ds, b)) = Len(ds) + 1
          /\ Append(ds, b)[Len(ds) + 1] = b
          /\ \A j \in 1..Len(ds) : Append(ds, b)[j] = ds[j]
      BY <2>1, AppendProperties
    <3> QED BY <2>4, <3>1
  <2>6. DOMAIN ds2 = 1..(Len(ds) + 1)
    BY <2>5, LenProperties
  <2>7. \A j \in 1..(Len(ds) + 1) : j \in 1..Len(ds) \/ j = Len(ds) + 1
    BY <1>4
  <2>8. 1..Len(ds) \subseteq 1..(Len(ds) + 1) /\ Len(ds) + 1 \in 1..(Len(ds) + 1)
    BY <1>4
  <2>9. \A j \in 1..Len(ds) : BucketRight(ds[j], rd) /\ ds[j].day # m /\ RowsOn(rd, ds[j].day) # {}
    BY <1>4, <1>8 DEF Agreed
  <2>10. \A j \in 1..(Len(ds) + 1) : BucketRight(ds2[j], rd2) /\ RowsOn(rd2, ds2[j].day) # {}
    BY <1>5, <2>3, <2>5, <2>7, <2>9
  <2>11. \A d \in Asked : RowsOn(rd2, d) # {} => \E j \in 1..(Len(ds) + 1) : ds2[j].day = d
    <3>1. \A d \in Asked : d # m /\ RowsOn(rd2, d) # {} => \E j \in 1..Len(ds) : ds[j].day = d
      BY <1>3, <1>4 DEF Agreed
    <3> QED BY <2>3, <2>5, <2>8, <3>1
  <2>12. \A j, k \in 1..(Len(ds) + 1) : ds2[j].day = ds2[k].day => j = k
    <3>1. \A j, k \in 1..Len(ds) : ds[j].day = ds[k].day => j = k
      BY <1>4 DEF Agreed
    <3>2. \A j \in 1..Len(ds) : ds2[j].day = ds[j].day /\ ds2[j].day # m
      BY <2>5, <2>9
    <3>3. ds2[Len(ds) + 1].day = m
      BY <2>3, <2>5
    <3>4. \A j, k \in 1..Len(ds) : ds2[j].day = ds2[k].day => j = k
      BY <3>1, <3>2
    <3>5. /\ \A j \in 1..Len(ds) : ds2[j].day # ds2[Len(ds) + 1].day
          /\ \A j \in 1..Len(ds) : ds2[Len(ds) + 1].day # ds2[j].day
      BY <3>2, <3>3
    <3> QED BY <2>7, <3>4, <3>5
  <2> QED BY <2>5, <2>6, <2>10, <2>11, <2>12 DEF Agreed
<1> QED BY <1>1, <1>2, <1>6, <1>7, <1>8 DEF Marking

CalendarInv == read \in Seq(Lines) /\ days \in Seq(Bucket) /\ Agreed(read, days)

LEMMA NoLines == Agreed(<<>>, <<>>)
<1>1. \A d : RowsOn(<<>>, d) = {}
  BY DEF RowsOn
<1>2. DOMAIN <<>> = {}
  OBVIOUS
<1> QED BY <1>1, <1>2 DEF Agreed

LEMMA CalendarInvHolds == SheetSpec => []CalendarInv
<1>1. SheetInit => CalendarInv
  BY NoLines DEF SheetInit, CalendarInv
<1>2. CalendarInv /\ [SheetNext]_sheetVars => CalendarInv'
  <2> SUFFICES ASSUME CalendarInv, [SheetNext]_sheetVars PROVE CalendarInv'
    OBVIOUS
  <2>1. CASE Answered
    BY <2>1, NoLines DEF Answered, CalendarInv
  <2>2. ASSUME NEW r \in Lines, ReadLine(r)
        PROVE  CalendarInv'
    <3>1. read' = Append(read, r) /\ CalendarLine(r)
      BY <2>2 DEF ReadLine
    <3>2. Marking(days, r, days')
      <4>1. \A i : i \in Buckets(r) <=> i \in DOMAIN days /\ days[i].day = Midnight(r.ts)
        BY DEF Buckets
      <4> QED BY <3>1, <4>1 DEF CalendarLine, Marking
    <3>3. Longer(read, r, read')
      BY <3>1 DEF Longer
    <3>4. read' \in Seq(Lines)
      BY <3>1, AppendProperties DEF CalendarInv
    <3>5. days' \in Seq(Bucket) /\ Agreed(read', days')
      BY <3>2, <3>3, AgreedStep, TimesheetAssumption DEF CalendarInv
    <3> QED BY <3>4, <3>5 DEF CalendarInv
  <2>3. CASE UNCHANGED sheetVars
    BY <2>3 DEF sheetVars, CalendarInv
  <2> QED BY <2>1, <2>2, <2>3 DEF SheetNext
<1> QED BY <1>1, <1>2, PTL DEF SheetSpec

\* A day of cal_iter_cb counts the rows of that day and has the bits of their workers, and
\* of the days that were asked for it lists those that have rows, for any file.
THEOREM CalendarAgreesAlways == SheetSpec => []CalendarAgrees
<1>1. CalendarInv => CalendarAgrees
  BY CalendarAgreed DEF CalendarInv
<1> QED BY <1>1, CalendarInvHolds, PTL

-----------------------------------------------------------------------------
(***************************************************************************)
(* The latest rows, for logs and requests of any size.                     *)
(***************************************************************************)
Surplus(n, limit) == IF n > limit THEN n - limit ELSE 0

Grown ==
    stage = "counted" =>
        /\ Latest(query) => offset \in Nat
        /\ Latest(query) /\ sure =>
               offset = Surplus(Cardinality(Wanted(due, query)), query.limit)
        /\ ~dropped => Len(due) <= Len(rows) /\ \A i \in 1..Len(due) : rows[i] = due[i]

PageInv ==
    /\ rows \in Seq(PageRows) /\ due \in Seq(PageRows) /\ cached \in Nat
    /\ stage # "idle" => query \in Queries
    /\ Grown /\ LatestRows

\* Ranks count the members of a finite set of numbers through.
LEMMA Ranking ==
    ASSUME NEW S, S \subseteq Nat, IsFiniteSet(S)
    PROVE  /\ Cardinality(S) \in Nat
           /\ \A i \in S : Rank(S, i) \in 1..Cardinality(S)
           /\ \A i, j \in S : Rank(S, i) = Rank(S, j) => i = j
           /\ \A n \in 1..Cardinality(S) : \E i \in S : Rank(S, i) = n
<1> DEFINE UpTo(i) == {j \in S : j <= i}
<1>1. Cardinality(S) \in Nat
  BY FS_CardinalityType
<1>2. ASSUME NEW i \in S
      PROVE  IsFiniteSet(UpTo(i)) /\ Cardinality(UpTo(i)) \in Nat /\ Cardinality(UpTo(i)) <= Cardinality(S)
  <2>1. UpTo(i) \in SUBSET S
    OBVIOUS
  <2>2. IsFiniteSet(UpTo(i)) /\ Cardinality(UpTo(i)) <= Cardinality(S)
    BY <2>1, FS_Subset
  <2> QED BY <2>2, FS_CardinalityType
<1>3. ASSUME NEW i \in S PROVE Rank(S, i) \in 1..Cardinality(S)
  <2>1. i \in UpTo(i)
    OBVIOUS
  <2>2. Cardinality(UpTo(i)) # 0
    BY <1>2, <2>1, FS_EmptySet
  <2> QED BY <1>1, <1>2, <2>2 DEF Rank
<1>4. ASSUME NEW i \in S, NEW j \in S, i < j, Rank(S, i) = Rank(S, j) PROVE FALSE
  <2>1. UpTo(i) \in SUBSET UpTo(j)
    <3> SUFFICES ASSUME NEW k \in UpTo(i) PROVE k \in UpTo(j)
      OBVIOUS
    <3>1. i \in Nat /\ j \in Nat /\ k \in Nat /\ k <= i
      OBVIOUS
    <3> QED BY <1>4, <3>1
  <2>2. Cardinality(UpTo(i)) = Cardinality(UpTo(j))
    BY <1>4 DEF Rank
  <2>3. UpTo(j) = UpTo(i)
    BY <1>2, <2>1, <2>2, FS_Subset
  <2>4. j \in UpTo(j) /\ j \notin UpTo(i)
    BY <1>4
  <2> QED BY <2>3, <2>4
<1>5. \A i, j \in S : Rank(S, i) = Rank(S, j) => i = j
  BY <1>4
<1>6. \A n \in 1..Cardinality(S) : \E i \in S : Rank(S, i) = n
  <2> DEFINE N == 1..Cardinality(S)
             f == [i \in S |-> Rank(S, i)]
  <2>1. f \in [S -> N] /\ \A i, j \in S : f[i] = f[j] => i = j
    BY <1>3, <1>5
  <2>2. f \in Injection(S, N)
    BY <2>1, Fun_IsInj
  <2>3. IsFiniteSet(N) /\ Cardinality(N) = Cardinality(S)
    BY <1>1, FS_Interval
  <2>4. f \in Surjection(S, N)
    BY <2>2, <2>3, FS_Injection
  <2>5. \A n \in N : \E i \in S : f[i] = n
    BY <2>4 DEF Surjection
  <2> QED BY <2>5
<1> QED BY <1>1, <1>3, <1>5, <1>6

\* The rows that are picked from a log, by their rank.
LEMMA PickedRows ==
    ASSUME NEW log \in Seq(PageRows), NEW S, S \subseteq DOMAIN log
    PROVE  /\ IsFiniteSet(S) /\ S \subseteq Nat /\ Cardinality(S) \in Nat
           /\ Stored!Picked(log, S) \in Seq(PageRows) /\ Len(Stored!Picked(log, S)) = Cardinality(S)
           /\ \A i \in S : Stored!Picked(log, S)[Rank(S, i)] = log[i]
<1>1. DOMAIN log = 1..Len(log) /\ Len(log) \in Nat /\ \A i \in 1..Len(log) : log[i] \in PageRows
  BY LenProperties, ElementOfSeq
<1>2. IsFiniteSet(S) /\ S \subseteq Nat
  <2>1. IsFiniteSet(1..Len(log))
    BY <1>1, FS_Interval
  <2> QED BY <1>1, <2>1, FS_Subset
<1> DEFINE c == Cardinality(S)
           at(k) == CHOOSE i \in S : Rank(S, i) = k
           f == [k \in 1..c |-> log[at(k)]]
<1>3. /\ c \in Nat
      /\ \A i \in S : Rank(S, i) \in 1..c
      /\ \A i, j \in S : Rank(S, i) = Rank(S, j) => i = j
      /\ \A k \in 1..c : \E i \in S : Rank(S, i) = k
  BY <1>2, Ranking
<1>4. Stored!Picked(log, S) = f
  BY Zenon DEF Stored!Picked, Stored!Cardinality, Cardinality, Rank
<1>5. \A k \in 1..c : at(k) \in S /\ Rank(S, at(k)) = k
  BY <1>3
<1>6. \A i \in S : at(Rank(S, i)) = i
  BY <1>3, <1>5
<1> HIDE DEF at, c
<1>7. f \in [1..c -> PageRows]
  BY <1>1, <1>5
<1>8. f \in Seq(PageRows) /\ Len(f) = c
  BY <1>3, <1>7
<1>9. \A i \in S : f[Rank(S, i)] = log[i]
  BY <1>3, <1>6
<1> QED BY <1>2, <1>3, <1>4, <1>8, <1>9 DEF c

LEMMA PickedFirst ==
    ASSUME NEW log \in Seq(PageRows), NEW old \in Seq(PageRows), NEW S, S \subseteq DOMAIN log,
           NEW n \in Nat, NEW T, \A i : i \in T <=> i \in S /\ i <= n, T \subseteq DOMAIN old,
           \A i \in T : log[i] = old[i]
    PROVE  /\ Cardinality(T) <= Cardinality(S)
           /\ SubSeq(Stored!Picked(log, S), 1, Cardinality(T)) = Stored!Picked(old, T)
<1>1. /\ IsFiniteSet(S) /\ S \subseteq Nat /\ Cardinality(S) \in Nat
      /\ Stored!Picked(log, S) \in Seq(PageRows) /\ Len(Stored!Picked(log, S)) = Cardinality(S)
      /\ \A i \in S : Stored!Picked(log, S)[Rank(S, i)] = log[i]
  BY PickedRows
<1>2. /\ IsFiniteSet(T) /\ T \subseteq Nat /\ Cardinality(T) \in Nat
      /\ Stored!Picked(old, T) \in Seq(PageRows) /\ Len(Stored!Picked(old, T)) = Cardinality(T)
      /\ \A i \in T : Stored!Picked(old, T)[Rank(T, i)] = old[i]
  BY PickedRows
<1>3. ASSUME NEW i \in T
      PROVE  Rank(T, i) = Rank(S, i)
  <2>1. {j \in T : j <= i} = {j \in S : j <= i}
    BY <1>1
  <2> QED BY <2>1 DEF Rank
<1>4. Cardinality(T) <= Cardinality(S)
  BY <1>1, FS_Subset
<1>5. \A k \in 1..Cardinality(T) : \E i \in T : Rank(T, i) = k
  <2>1. IsFiniteSet(T) /\ T \subseteq Nat
    BY <1>2
  <2> QED BY <2>1, Ranking
<1> DEFINE p == Stored!Picked(log, S)
           o == Stored!Picked(old, T)
           m == Cardinality(T)
<1>6. \A k \in 1..m : p[k] = o[k]
  <2> SUFFICES ASSUME NEW k \in 1..m PROVE p[k] = o[k]
    OBVIOUS
  <2>1. PICK i \in T : Rank(T, i) = k
    BY <1>5
  <2>2. i \in S /\ log[i] = old[i] /\ Rank(S, i) = k
    BY <1>3, <2>1
  <2>3. p[Rank(S, i)] = log[i] /\ o[Rank(T, i)] = old[i]
    BY <1>1, <1>2, <2>1, <2>2
  <2> QED BY <2>1, <2>2, <2>3
<1>7. m \in Nat /\ p \in Seq(PageRows) /\ o \in Seq(PageRows) /\ Len(o) = m /\ m <= Len(p)
  BY <1>1, <1>2, <1>4
<1> HIDE DEF p, o, m
<1>8. \A k \in 1..m : p[k] \in PageRows
  BY <1>7, ElementOfSeq
<1>9. /\ SubSeq(p, 1, m) \in Seq(PageRows) /\ Len(SubSeq(p, 1, m)) = m
      /\ \A k \in 1..m : SubSeq(p, 1, m)[k] = p[k]
  BY <1>7, <1>8, SubSeqProperties
<1>10. SubSeq(p, 1, m) = o
  BY <1>6, <1>7, <1>9, SeqEqual
<1> QED BY <1>4, <1>10 DEF p, o, m

\* The rows wanted of a log that has grown.
LEMMA WantedOf ==
    ASSUME NEW log \in Seq(PageRows), NEW q
    PROVE  Wanted(log, q) \subseteq DOMAIN log /\ DOMAIN log = 1..Len(log) /\ Len(log) \in Nat
BY LenProperties DEF Wanted

\* A walk answers no more rows than were asked for, wherever it begins.
LEMMA PageLimited ==
    ASSUME NEW log \in Seq(PageRows), NEW q, q.limit \in Nat \ {0}, NEW skip \in Nat
    PROVE  Page(log, q, skip) \in Seq(PageRows) /\ Len(Page(log, q, skip)) <= q.limit
<1> DEFINE S == Wanted(log, q)
           lim == q.limit
           P == {i \in S : Rank(S, i) > skip /\ (lim > 0 => Rank(S, i) <= skip + lim)}
<1>1. S \subseteq 1..Len(log) /\ DOMAIN log = 1..Len(log) /\ Len(log) \in Nat
  BY WantedOf
<1>2. IsFiniteSet(S) /\ S \subseteq Nat
  <2>1. IsFiniteSet(1..Len(log))
    BY <1>1, FS_Interval
  <2> QED BY <1>1, <2>1, FS_Subset
<1>3. /\ \A i \in S : Rank(S, i) \in 1..Cardinality(S) /\ Rank(S, i) \in Nat
      /\ \A i, j \in S : Rank(S, i) = Rank(S, j) => i = j
  BY <1>2, Ranking
<1>4. Page(log, q, skip) = Stored!Picked(log, P)
  BY DEF Page
<1>5. P \subseteq DOMAIN log /\ P \subseteq S
  BY <1>1
<1> HIDE DEF S
<1>6. IsFiniteSet(P) /\ Cardinality(P) <= lim
  <2> DEFINE N == (skip + 1)..(skip + lim)
             f == [i \in P |-> Rank(S, i)]
  <2>1. \A i \in P : Rank(S, i) \in N
    BY <1>3
  <2>2. f \in [P -> N] /\ \A i, j \in P : f[i] = f[j] => i = j
    BY <1>3, <2>1
  <2>3. IsFiniteSet(N) /\ Cardinality(N) = lim
    <3>1. IsFiniteSet(N) /\ Cardinality(N) = IF skip + 1 > skip + lim THEN 0 ELSE (skip + lim) - (skip + 1) + 1
      <4>1. skip + 1 \in Int /\ skip + lim \in Int
        OBVIOUS
      <4> QED BY <4>1, FS_Interval
    <3> QED BY <3>1
  <2> HIDE DEF N, f, P
  <2>4. f \in Injection(P, N)
    BY <2>2, Fun_IsInj
  <2> QED BY <2>3, <2>4, FS_Injection
<1> HIDE DEF P
<1>7. Stored!Picked(log, P) \in Seq(PageRows) /\ Len(Stored!Picked(log, P)) = Cardinality(P)
  BY <1>5, PickedRows
<1> QED BY <1>4, <1>6, <1>7

LEMMA PageOfLatest ==
    ASSUME NEW log \in Seq(PageRows), NEW old \in Seq(PageRows), Len(old) <= Len(log),
           \A i \in 1..Len(old) : log[i] = old[i],
           NEW q, q.limit \in Nat \ {0}, NEW skip,
           skip = Surplus(Cardinality(Wanted(old, q)), q.limit)
    PROVE  /\ Len(Page(log, q, skip)) >= Len(Last(old, q))
           /\ SubSeq(Page(log, q, skip), 1, Len(Last(old, q))) = Last(old, q)
<1> DEFINE S == Wanted(log, q)
           T == Wanted(old, q)
           c == Cardinality(T)
           lim == q.limit
           n == Len(old)
<1>1. /\ S \subseteq 1..Len(log) /\ DOMAIN log = 1..Len(log) /\ Len(log) \in Nat
      /\ T \subseteq 1..n /\ DOMAIN old = 1..n /\ n \in Nat
  BY WantedOf
<1>2. IsFiniteSet(S) /\ S \subseteq Nat /\ IsFiniteSet(T) /\ T \subseteq Nat
  <2>1. IsFiniteSet(1..Len(log)) /\ IsFiniteSet(1..n)
    BY <1>1, FS_Interval
  <2> QED BY <1>1, <2>1, FS_Subset
<1>3. T = {i \in S : i <= n}
  <2>1. \A i : i \in T <=> i \in 1..n /\ i \in S
    <3>1. \A i \in 1..n : i \in 1..Len(log)
      BY <1>1
    <3> QED BY <1>1, <3>1 DEF Wanted
  <2>2. \A i \in S : i <= n <=> i \in 1..n
    BY <1>1
  <2> HIDE DEF S, T
  <2> QED BY <2>1, <2>2
<1>4. /\ c \in Nat /\ \A i \in T : Rank(T, i) \in 1..c
  BY <1>2, Ranking
<1>5. /\ \A i \in S : Rank(S, i) \in 1..Cardinality(S) /\ Rank(S, i) \in Nat
      /\ \A i, j \in S : Rank(S, i) = Rank(S, j) => i = j
  BY <1>2, Ranking
<1>6. lim \in Nat \ {0} /\ skip \in Nat /\ skip = IF c > lim THEN c - lim ELSE 0
  BY <1>4 DEF Surplus
<1> DEFINE P == {i \in S : Rank(S, i) > skip /\ (lim > 0 => Rank(S, i) <= skip + lim)}
           Q == {i \in T : Rank(T, i) + lim > c}
<1>7. Page(log, q, skip) = Stored!Picked(log, P) /\ Last(old, q) = Stored!Picked(old, Q)
  BY DEF Page, Last
<1> HIDE DEF S, T, c, lim, n
<1>8. \A i \in T : Rank(S, i) = Rank(T, i)
  <2> SUFFICES ASSUME NEW i \in T PROVE Rank(S, i) = Rank(T, i)
    OBVIOUS
  <2>1. {j \in S : j <= i} = {j \in T : j <= i}
    <3>1. i \in Nat /\ i <= n /\ n \in Nat /\ S \subseteq Nat
      BY <1>1, <1>2, <1>3
    <3>2. \A j \in S : j <= i => j <= n
      BY <3>1
    <3>3. \A j : j \in T <=> j \in S /\ j <= n
      BY <1>3
    <3> QED BY <3>2, <3>3
  <2> QED BY <2>1 DEF Rank
<1>9. \A i \in S : i \notin T => Rank(S, i) > c
  <2> SUFFICES ASSUME NEW i \in S, i \notin T PROVE Rank(S, i) > c
    OBVIOUS
  <2> DEFINE U == {j \in S : j <= i}
  <2>1. T \cup {i} \subseteq U
    <3>1. \A j \in T : j \in S /\ j <= n
      BY <1>3
    <3>2. ~(i <= n) /\ i \in Nat /\ n \in Nat /\ T \subseteq Nat
      <4>1. ~(i <= n)
        BY <1>3
      <4>2. i \in Nat /\ T \subseteq Nat
        BY <1>2
      <4> QED BY <1>1, <4>1, <4>2
    <3>3. \A j \in T : j <= i
      BY <3>1, <3>2
    <3> QED BY <3>1, <3>2, <3>3
  <2>2. IsFiniteSet(U) /\ Rank(S, i) = Cardinality(U)
    <3>1. U \subseteq S
      OBVIOUS
    <3>2. Cardinality(U) = Rank(S, i)
      BY DEF Rank
    <3> QED BY <1>2, <3>1, <3>2, FS_Subset
  <2> HIDE DEF U
  <2>3. Cardinality(T \cup {i}) = c + 1
    BY <1>2, FS_AddElement DEF c
  <2>4. Cardinality(T \cup {i}) <= Cardinality(U)
    BY <2>1, <2>2, FS_Subset
  <2> QED BY <1>4, <1>5, <2>2, <2>3, <2>4
<1>10. \A i \in T : i \in P <=> i \in Q
  <2> SUFFICES ASSUME NEW i \in T PROVE i \in P <=> i \in Q
    OBVIOUS
  <2>1. i \in S /\ Rank(S, i) = Rank(T, i) /\ Rank(T, i) \in 1..c
    BY <1>3, <1>4, <1>8
  <2> QED BY <1>4, <1>6, <2>1
<1>11. \A i : i \in Q <=> i \in P /\ i <= n
  <2>1. \A i \in P : i \in S /\ (i <= n <=> i \in T)
    BY <1>3
  <2> QED BY <1>10, <2>1
<1>12. P \subseteq DOMAIN log /\ Q \subseteq DOMAIN old /\ \A i \in Q : log[i] = old[i]
  BY <1>1 DEF n
<1> HIDE DEF P, Q
<1>13. /\ Stored!Picked(log, P) \in Seq(PageRows) /\ Len(Stored!Picked(log, P)) = Cardinality(P)
       /\ Len(Stored!Picked(old, Q)) = Cardinality(Q)
       /\ Cardinality(P) \in Nat /\ Cardinality(Q) \in Nat
  BY <1>12, PickedRows
<1>14. /\ Cardinality(Q) <= Cardinality(P)
       /\ SubSeq(Stored!Picked(log, P), 1, Cardinality(Q)) = Stored!Picked(old, Q)
  BY <1>1, <1>11, <1>12, PickedFirst
<1> QED BY <1>7, <1>13, <1>14

LEMMA GrownKept ==
    ASSUME PageInv, UNCHANGED <<handlerVars, dropped>>, rows' \in Seq(PageRows),
           Len(rows) <= Len(rows') /\ \A i \in 1..Len(rows) : rows'[i] = rows[i], cached' \in Nat
    PROVE  PageInv'
<1> USE DEF handlerVars
<1>1. due \in Seq(PageRows) /\ Len(due) \in Nat /\ Len(rows) \in Nat /\ Len(rows') \in Nat
  BY LenProperties DEF PageInv
<1>2. Grown'
  <2>1. ASSUME stage = "counted", ~dropped
        PROVE  Len(due) <= Len(rows') /\ \A i \in 1..Len(due) : rows'[i] = due[i]
    <3>1. Len(due) <= Len(rows) /\ \A i \in 1..Len(due) : rows[i] = due[i]
      BY <2>1 DEF PageInv, Grown
    <3> QED BY <1>1, <3>1
  <2>2. ASSUME stage = "counted", Latest(query), sure
        PROVE  offset = Surplus(Cardinality(Wanted(due, query)), query.limit)
    BY <2>2 DEF PageInv, Grown
  <2>3. Latest(query)' = Latest(query) /\ Wanted(due, query)' = Wanted(due, query)
    BY DEF Latest, Wanted
  <2>4. stage = "counted" /\ Latest(query) => offset \in Nat
    BY DEF PageInv, Grown
  <2> QED BY <2>1, <2>2, <2>3, <2>4 DEF Grown
<1>3. LatestRows'
  <2>1. Latest(query)' = Latest(query) /\ Last(due, query)' = Last(due, query)
    BY DEF Latest, Last, Wanted, Rank, Stored!Picked
  <2> QED BY <2>1 DEF PageInv, LatestRows
<1> QED BY <1>1, <1>2, <1>3 DEF PageInv

LEMMA PageInvHolds == PageSpec => []PageInv
<1>1. PageInit => PageInv
  BY DEF PageInit, PageInv, Grown, LatestRows
<1>2. PageInv /\ [PageNext]_pageVars => PageInv'
  <2> SUFFICES ASSUME PageInv, [PageNext]_pageVars PROVE PageInv'
    OBVIOUS
  <2>1. rows \in Seq(PageRows) /\ Len(rows) \in Nat /\ cached \in Nat
    BY LenProperties DEF PageInv
  <2>2. ASSUME NEW q \in Queries, Ask(q)
        PROVE  PageInv'
    BY <2>2 DEF Ask, PageInv, Grown, LatestRows
  <2>3. CASE Count
    <3>1. /\ stage' = "counted" /\ due' = rows /\ rows' = rows /\ query' = query
          /\ query \in Queries /\ query' \in Queries
      BY <2>3 DEF Count, PageInv
    <3>2. ASSUME Latest(query), sure'
          PROVE  offset' = Surplus(Cardinality(Wanted(rows, query)), query.limit)
      <4>1. Matching(query) = Cardinality(Wanted(rows, query))
        <5>1. CASE query.worker = 0
          <6>1. Wanted(rows, query) = 1..Len(rows)
            BY <2>1, <3>2, <5>1, LenProperties DEF Wanted, Latest
          <6>2. Cardinality(1..Len(rows)) = Len(rows)
            <7>1. Cardinality(1..Len(rows)) = IF 1 > Len(rows) THEN 0 ELSE Len(rows) - 1 + 1
              BY <2>1, FS_Interval
            <7> QED BY <2>1, <7>1
          <6>3. cached = Len(rows)
            BY <2>3, <3>2, <5>1 DEF Count
          <6> QED BY <5>1, <6>1, <6>2, <6>3 DEF Matching
        <5>2. CASE query.worker # 0
          BY <5>2 DEF Matching
        <5> QED BY <5>1, <5>2
      <4>2. StartAt(Matching(query))
        BY <2>3, <3>2 DEF Count
      <4> QED BY <3>2, <4>1, <4>2 DEF StartAt, Surplus
    <3>3. Latest(query)' = Latest(query) /\ Wanted(due, query)' = Wanted(rows, query)
      BY <3>1 DEF Latest, Wanted
    <3>4. ASSUME Latest(query)
          PROVE  offset' \in Nat
      <4>1. Cardinality(Wanted(rows, query)) \in Nat
        <5>1. IsFiniteSet(1..Len(rows))
          BY <2>1, FS_Interval
        <5>2. Wanted(rows, query) \subseteq 1..Len(rows)
          BY <2>1, WantedOf
        <5> QED BY <5>1, <5>2, FS_Subset, FS_CardinalityType
      <4>2. Matching(query) \in Nat
        BY <2>1, <4>1 DEF Matching
      <4>3. query.limit \in Nat
        BY <3>1, PageAssumption
      <4>4. StartAt(Matching(query)) \/ StartAt(0)
        BY <2>3 DEF Count
      <4> QED BY <3>4, <4>2, <4>3, <4>4 DEF StartAt
    <3>5. Grown'
      BY <2>1, <3>1, <3>2, <3>3, <3>4 DEF Grown
    <3>6. cached' = cached
      BY <2>3 DEF Count
    <3> QED BY <2>1, <3>1, <3>5, <3>6 DEF PageInv, LatestRows
  <2>4. CASE Walk
    <3>1. /\ UNCHANGED <<rows, cached, query, offset, due, dropped>>
          /\ stage = "counted" /\ stage' = "walked"
          /\ \/ page' = Page(rows, query, offset) /\ sure' = sure
             \/ page' = <<>> /\ sure' = FALSE
      BY <2>4 DEF Walk
    <3>2. query \in Queries /\ due \in Seq(PageRows)
      BY <3>1 DEF PageInv
    <3>3. ASSUME Latest(query), ~dropped, sure'
          PROVE  /\ Len(page') >= Len(Last(due, query))
                 /\ SubSeq(page', 1, Len(Last(due, query))) = Last(due, query)
      <4>1. query.limit \in Nat \ {0}
        BY <3>2, <3>3, PageAssumption DEF Latest
      <4>2. /\ offset = Surplus(Cardinality(Wanted(due, query)), query.limit)
            /\ Len(due) <= Len(rows) /\ \A i \in 1..Len(due) : rows[i] = due[i]
        BY <3>1, <3>3 DEF PageInv, Grown
      <4>3. page' = Page(rows, query, offset)
        BY <3>1, <3>3
      <4> QED BY <2>1, <3>2, <4>1, <4>2, <4>3, PageOfLatest
    <3>4. ASSUME Latest(query)
          PROVE  Len(page') <= query.limit
      <4>1. query.limit \in Nat \ {0}
        BY <3>2, <3>4, PageAssumption DEF Latest
      <4>2. offset \in Nat
        BY <3>1, <3>4 DEF PageInv, Grown
      <4>3. Len(Page(rows, query, offset)) <= query.limit
        BY <2>1, <4>1, <4>2, PageLimited
      <4>4. Len(<<>>) = 0
        OBVIOUS
      <4> QED BY <3>1, <4>1, <4>3, <4>4
    <3>5. LatestRows'
      <4>1. Latest(query)' = Latest(query) /\ Last(due, query)' = Last(due, query)
        BY <3>1 DEF Latest, Last, Wanted, Rank, Stored!Picked
      <4> QED BY <3>1, <3>3, <3>4, <4>1 DEF LatestRows
    <3> QED BY <2>1, <3>1, <3>5 DEF PageInv, Grown
  <2>5. CASE Answer
    BY <2>5 DEF Answer, PageInv, Grown, LatestRows
  <2>6. CASE Grows
    <3>1. PICK r \in PageRows : rows' = Append(rows, r)
      BY <2>6 DEF Grows, Stored!AppendRow
    <3>2. /\ rows' \in Seq(PageRows) /\ Len(rows') = Len(rows) + 1
          /\ \A i \in 1..Len(rows) : rows'[i] = rows[i]
      BY <2>1, <3>1, AppendProperties
    <3>3. cached' \in Nat
      BY <2>1, <2>6 DEF Grows
    <3> QED BY <2>1, <2>6, <3>2, <3>3, GrownKept DEF Grows
  <2>7. CASE Shrinks
    <3>1. rows' \in Seq(PageRows)
      <4>1. ASSUME NEW S, S \subseteq DOMAIN rows, rows' = Stored!Picked(rows, S)
            PROVE  rows' \in Seq(PageRows)
        BY <2>1, <4>1, PickedRows
      <4>2. \A c, w, r : /\ Stored!NewestHalf(rows) \subseteq DOMAIN rows
                         /\ Stored!Since(rows, c) \subseteq DOMAIN rows
                         /\ Stored!NotOf(rows, w) \subseteq DOMAIN rows
                         /\ Stored!OtherThan(rows, r) \subseteq DOMAIN rows
        BY DEF Stored!NewestHalf, Stored!Since, Stored!NotOf, Stored!OtherThan
      <4>3. <<>> \in Seq(PageRows)
        OBVIOUS
      <4> QED BY <2>7, <4>1, <4>2, <4>3
              DEF Shrinks, Stored!Trim, Stored!Expire, Stored!ForgetWorker, Stored!DeleteRow, Stored!Wipe
    <3>2. /\ UNCHANGED <<stage, query, offset, page, due, sure>>
          /\ dropped' = (dropped \/ stage = "counted")
      BY <2>7 DEF Shrinks, handlerVars
    <3>3. Latest(query)' = Latest(query) /\ Wanted(due, query)' = Wanted(due, query)
          /\ Last(due, query)' = Last(due, query)
      BY <3>2 DEF Latest, Wanted, Last, Rank, Stored!Picked
    <3>4. Grown'
      BY <3>2, <3>3 DEF Grown, PageInv
    <3>5. LatestRows'
      BY <3>2, <3>3 DEF LatestRows, PageInv
    <3>6. cached' \in Nat
      <4>1. Len(rows') \in Nat /\ (cached' \in 0..Len(rows') \/ cached' = Len(rows'))
        BY <2>7, <3>1, LenProperties DEF Shrinks
      <4> QED BY <4>1
    <3> QED BY <3>1, <3>2, <3>4, <3>5, <3>6 DEF PageInv
  <2>8. CASE Miscounts
    <3>1. rows' = rows /\ cached' \in Nat /\ UNCHANGED <<handlerVars, dropped>>
      BY <2>1, <2>8 DEF Miscounts
    <3> QED BY <2>1, <3>1, GrownKept
  <2>9. CASE UNCHANGED pageVars
    BY <2>1, <2>9, GrownKept DEF pageVars, handlerVars
  <2> QED BY <2>2, <2>3, <2>4, <2>5, <2>6, <2>7, <2>8, <2>9 DEF PageNext
<1> QED BY <1>1, <1>2, PTL DEF PageSpec

\* The page that events_get answers without an offset has no more rows than were asked
\* for, whatever the cached count; and it has the latest rows there were when they were
\* counted, if the count was right, for any log, any limit and whatever rows came between
\* the two walks.
THEOREM LatestRowsAlways == PageSpec => []LatestRows
<1>1. PageInv => LatestRows
  BY DEF PageInv
<1> QED BY <1>1, PageInvHolds, PTL

-----------------------------------------------------------------------------
(***************************************************************************)
(* The latest row.                                                         *)
(*                                                                         *)
(* Rows of one boot have stamps on the same monotone clock, and two boots  *)
(* are two seconds apart, so that rows of the same second are of one boot  *)
(* (Booted).  Rows with a time say when they were begun (Dated); those     *)
(* without stand where they belong, unless one was stored late (InOrder).  *)
(***************************************************************************)
Begun == [ts : Nat, mono : Nat, born : Nat \ {0}]

\* The rows there are, in the log and on their way.
Known == {stored[i] : i \in DOMAIN stored} \cup ({pending[t] : t \in Writers} \ {NoStamp})

LatestTyped ==
    /\ stored \in Seq(Begun)
    /\ pending \in [Writers -> Begun \cup {NoStamp}]
    /\ uptime \in Nat /\ wall \in Nat \ {0} /\ uptime <= wall

Dated ==
    \A r \in Known : /\ r.born <= wall
                     /\ r.ts = 0 \/ r.ts = 1 + ((r.born - 1) \div Second)

SameBoot(r, s) == r.born + s.mono = s.born + r.mono
BootBefore(r, s) == r.born + 2 * Second <= s.born

Booted ==
    /\ \A r \in Known : \/ r.born + uptime = wall + r.mono
                        \/ r.born + 2 * Second + uptime <= wall
    /\ \A r, s \in Known : SameBoot(r, s) \/ BootBefore(r, s) \/ BootBefore(s, r)

InOrder ==
    ~straddled => \A i, j \in DOMAIN stored :
        i < j /\ 0 \in {stored[i].ts, stored[j].ts} => stored[i].born <= stored[j].born

LatestInv == LatestTyped /\ Dated /\ Booted /\ InOrder

LEMMA KnownBegun == ASSUME LatestTyped PROVE Known \subseteq Begun
<1>1. \A i \in DOMAIN stored : stored[i] \in Begun
  BY DEF LatestTyped
<1> QED BY <1>1 DEF LatestTyped, Known

LEMMA LatestInvInit == LatestInit => LatestInv
<1> SUFFICES ASSUME LatestInit PROVE LatestInv
  OBVIOUS
<1>1. stored = <<>> /\ \A t \in Writers : pending[t] = NoStamp
  BY DEF LatestInit
<1>2. DOMAIN stored = {} /\ stored \in Seq(Begun)
  BY <1>1
<1>3. Known = {}
  BY <1>1, <1>2 DEF Known
<1> QED BY <1>2, <1>3 DEF LatestInit, LatestInv, LatestTyped, Dated, Booted, InOrder

\* No row is new and no time has passed.
LEMMA NothingNew ==
    ASSUME LatestInv, Known' \subseteq Known, UNCHANGED <<uptime, wall>>
    PROVE  Dated' /\ Booted'
BY DEF LatestInv, Dated, Booted, SameBoot, BootBefore

(***************************************************************************)
(* The steps.                                                              *)
(***************************************************************************)
LEMMA LatestStamps ==
    ASSUME LatestInv, NEW t \in Writers, Stamp(t)
    PROVE  LatestInv'
<1> DEFINE r == [ts |-> NowUnix, mono |-> uptime + 1, born |-> wall + 1]
<1>1. /\ uptime \in Nat /\ wall \in Nat \ {0} /\ uptime <= wall /\ Second \in Nat \ {0}
      /\ uptime' = uptime + 1 /\ wall' = wall + 1 /\ stored' = stored
      /\ Known \subseteq Begun
  BY LatestRowAssumption, KnownBegun DEF LatestInv, LatestTyped, Stamp
<1>2. wall \div Second \in Nat
  BY <1>1
<1>3. r \in Begun /\ (r.ts = 0 \/ r.ts = 1 + ((r.born - 1) \div Second))
  <2>1. r.born - 1 = wall /\ r.ts = NowUnix
    BY <1>1
  <2>2. NowUnix = 0 \/ NowUnix = 1 + (wall \div Second)
    BY DEF NowUnix
  <2>3. NowUnix \in Nat
    BY <1>2, <2>2
  <2> QED BY <1>1, <2>1, <2>2, <2>3 DEF Begun
<1>4. r.born = wall + 1 /\ r.mono = uptime + 1
  OBVIOUS
<1>5. pending' = [pending EXCEPT ![t] = r] /\ pending \in [Writers -> Begun \cup {NoStamp}]
  BY DEF Stamp, LatestInv, LatestTyped
<1> HIDE DEF r
<1>6. LatestTyped'
  BY <1>1, <1>3, <1>5 DEF LatestInv, LatestTyped
<1>7. \A s \in Known' : s \in Known \/ s = r
  BY <1>1, <1>5 DEF Known
<1>8. Dated'
  <2>1. SUFFICES ASSUME NEW s \in Known'
                 PROVE  s.born <= wall + 1 /\ (s.ts = 0 \/ s.ts = 1 + ((s.born - 1) \div Second))
    BY <1>1 DEF Dated
  <2>2. CASE s = r
    BY <1>1, <1>3, <1>4, <2>2
  <2>3. CASE s \in Known
    <3>1. s.born \in Nat /\ s.born <= wall /\ (s.ts = 0 \/ s.ts = 1 + ((s.born - 1) \div Second))
      BY <1>1, <2>3 DEF LatestInv, Dated, Begun
    <3> QED BY <1>1, <3>1
  <2> QED BY <1>7, <2>2, <2>3
<1>9. Booted'
  <2>1. \A s \in Known : s.born \in Nat /\ s.mono \in Nat
    BY <1>1 DEF Begun
  <2>2. ASSUME NEW s \in Known'
        PROVE  s.born + (uptime + 1) = (wall + 1) + s.mono \/ s.born + 2 * Second + (uptime + 1) <= wall + 1
    BY <1>1, <1>4, <1>7, <2>1 DEF LatestInv, Booted
  <2>3. ASSUME NEW s \in Known PROVE SameBoot(s, r) \/ BootBefore(s, r)
    <3>1. s.born + uptime = wall + s.mono \/ s.born + 2 * Second + uptime <= wall
      BY DEF LatestInv, Booted
    <3> QED BY <1>1, <1>4, <2>1, <3>1 DEF SameBoot, BootBefore
  <2>4. SameBoot(r, r)
    BY DEF SameBoot
  <2>5. ASSUME NEW s \in Known', NEW u \in Known'
        PROVE  SameBoot(s, u) \/ BootBefore(s, u) \/ BootBefore(u, s)
    <3>1. CASE s \in Known /\ u \in Known
      BY <3>1 DEF LatestInv, Booted
    <3>2. CASE s \in Known /\ u = r
      BY <2>3, <3>2
    <3>3. CASE s = r /\ u \in Known
      <4>1. SameBoot(u, s) \/ BootBefore(u, s)
        BY <2>3, <3>3
      <4> QED BY <4>1 DEF SameBoot
    <3>4. CASE s = r /\ u = r
      BY <2>4, <3>4
    <3> QED BY <1>7, <3>1, <3>2, <3>3, <3>4
  <2> QED BY <1>1, <2>2, <2>5 DEF Booted, SameBoot, BootBefore
<1>10. InOrder'
  BY <1>1 DEF Stamp, LatestInv, InOrder
<1> QED BY <1>6, <1>8, <1>9, <1>10 DEF LatestInv

LEMMA LatestStores ==
    ASSUME LatestInv, NEW t \in Writers, Store(t)
    PROVE  LatestInv'
<1> DEFINE r == pending[t]
<1>1. /\ stored \in Seq(Begun) /\ pending \in [Writers -> Begun \cup {NoStamp}]
      /\ r \in Begun /\ r \in Known
      /\ pending' = [pending EXCEPT ![t] = NoStamp]
      /\ UNCHANGED <<uptime, wall>>
  BY DEF LatestInv, LatestTyped, Store, Known
<1>2. \A u \in Writers : pending'[u] = NoStamp \/ pending'[u] = pending[u]
  BY <1>1
<1>3. CASE UNCHANGED <<stored, straddled>>
  <2>1. LatestTyped'
    BY <1>1, <1>3 DEF LatestInv, LatestTyped
  <2>2. Known' \subseteq Known
    BY <1>2, <1>3 DEF Known
  <2>3. InOrder'
    BY <1>3 DEF LatestInv, InOrder
  <2> QED BY <1>1, <2>1, <2>2, <2>3, NothingNew DEF LatestInv
<1>4. CASE /\ stored' = Append(stored, r)
           /\ straddled' = (straddled \/ \E i \in DOMAIN stored :
                                stored[i].born > r.born /\ 0 \in {stored[i].ts, r.ts})
  <2> DEFINE n == Len(stored) + 1
  <2>1. Len(stored) \in Nat /\ DOMAIN stored = 1..Len(stored)
    BY <1>1, LenProperties
  <2>2. /\ stored' \in Seq(Begun) /\ Len(stored') = n /\ stored'[n] = r
        /\ \A i \in 1..Len(stored) : stored'[i] = stored[i]
    BY <1>1, <1>4, AppendProperties
  <2>3. DOMAIN stored' = 1..n
    BY <2>2, LenProperties
  <2>4. \A i \in 1..n : i \in 1..Len(stored) \/ i = n
    BY <2>1
  <2>5. LatestTyped'
    BY <1>1, <2>2 DEF LatestInv, LatestTyped
  <2>6. Known' \subseteq Known
    <3>1. \A i \in DOMAIN stored' : stored'[i] \in Known
      BY <1>1, <2>1, <2>2, <2>3, <2>4 DEF Known
    <3> QED BY <1>2, <3>1 DEF Known
  <2>7. InOrder'
    <3>1. SUFFICES ASSUME ~straddled', NEW i \in 1..n, NEW j \in 1..n, i < j,
                          0 \in {stored'[i].ts, stored'[j].ts}
                   PROVE  stored'[i].born <= stored'[j].born
      BY <2>3 DEF InOrder
    <3>2. i \in 1..Len(stored) /\ stored'[i] = stored[i]
      BY <2>1, <2>2, <3>1
    <3>3. /\ ~straddled
          /\ \A k \in DOMAIN stored :
                ~(stored[k].born > r.born /\ 0 \in {stored[k].ts, r.ts})
      BY <1>4, <3>1, Zenon
    <3>4. CASE j \in 1..Len(stored)
      BY <2>1, <2>2, <3>1, <3>2, <3>3, <3>4 DEF LatestInv, InOrder
    <3>5. CASE j = n
      <4>1. stored'[j] = r
        BY <2>2, <3>5
      <4>2. stored[i] \in Begun /\ i \in DOMAIN stored
        BY <1>1, <2>1, <3>2
      <4>3. stored[i].born \in Nat /\ r.born \in Nat
        BY <1>1, <4>2 DEF Begun
      <4>4. ~(stored[i].born > r.born)
        BY <3>1, <3>2, <3>3, <4>1, <4>2
      <4> QED BY <3>2, <4>1, <4>3, <4>4
    <3> QED BY <2>4, <3>4, <3>5
  <2> QED BY <1>1, <2>5, <2>6, <2>7, NothingNew DEF LatestInv
<1> QED BY <1>3, <1>4 DEF Store

\* One row less: those behind it move up.
LEMMA OneLess ==
    ASSUME NEW S, NEW s \in Seq(S), NEW i \in DOMAIN s, NEW d,
           d = SubSeq(s, 1, i - 1) \o SubSeq(s, i + 1, Len(s))
    PROVE  /\ Len(s) \in Nat /\ DOMAIN s = 1..Len(s) /\ d \in Seq(S)
           /\ DOMAIN d = 1..(Len(s) - 1)
           /\ \A k \in 1..(Len(s) - 1) : d[k] = s[IF k < i THEN k ELSE k + 1]
<1>1. Len(s) \in Nat /\ DOMAIN s = 1..Len(s) /\ i \in 1..Len(s)
  BY LenProperties
<1> DEFINE a == SubSeq(s, 1, i - 1)
           b == SubSeq(s, i + 1, Len(s))
<1>2. /\ a \in Seq(S) /\ Len(a) = i - 1 /\ \A k \in 1..(i - 1) : a[k] = s[k]
  BY <1>1, SubSeqProperties
<1>3. /\ b \in Seq(S) /\ Len(b) = Len(s) - i
      /\ \A k \in 1..(Len(s) - i) : b[k] = s[i + k]
  <2>1. \A k \in (i + 1)..Len(s) : s[k] \in S
    BY <1>1
  <2>2. /\ b \in Seq(S) /\ Len(b) = IF i + 1 <= Len(s) THEN Len(s) - (i + 1) + 1 ELSE 0
        /\ \A k \in 1..(Len(s) - (i + 1) + 1) : b[k] = s[(i + 1) + k - 1]
    BY <1>1, <2>1, SubSeqProperties
  <2>3. Len(s) - (i + 1) + 1 = Len(s) - i /\ \A k \in 1..(Len(s) - i) : (i + 1) + k - 1 = i + k
    BY <1>1
  <2> HIDE DEF b
  <2> QED BY <1>1, <2>2, <2>3
<1> HIDE DEF a, b
<1>4. /\ d \in Seq(S) /\ Len(d) = Len(a) + Len(b)
      /\ \A k \in 1..(Len(a) + Len(b)) : d[k] = IF k <= Len(a) THEN a[k] ELSE b[k - Len(a)]
  BY <1>2, <1>3, ConcatProperties DEF a, b
<1>5. Len(a) + Len(b) = Len(s) - 1
  BY <1>1, <1>2, <1>3
<1>6. DOMAIN d = 1..(Len(s) - 1)
  BY <1>4, <1>5, LenProperties
<1>7. ASSUME NEW k \in 1..(Len(s) - 1) PROVE d[k] = s[IF k < i THEN k ELSE k + 1]
  <2>1. CASE k < i
    BY <1>1, <1>2, <1>4, <1>5, <2>1
  <2>2. CASE ~(k < i)
    <3>1. k - (i - 1) \in 1..(Len(s) - i) /\ i + (k - (i - 1)) = k + 1 /\ ~(k <= i - 1)
      <4>1. k \in Int /\ i \in Int /\ i <= k /\ k <= Len(s) - 1 /\ Len(s) \in Nat
        BY <1>1, <2>2
      <4> QED BY <4>1
    <3>2. d[k] = b[k - (i - 1)]
      BY <1>2, <1>4, <1>5, <3>1
    <3>3. b[k - (i - 1)] = s[k + 1]
      BY <1>3, <3>1
    <3> QED BY <2>2, <3>2, <3>3
  <2> QED BY <2>1, <2>2
<1> QED BY <1>1, <1>4, <1>6, <1>7

LEMMA LatestDrops ==
    ASSUME LatestInv, Drops
    PROVE  LatestInv'
<1>1. PICK i \in DOMAIN stored :
        stored' = SubSeq(stored, 1, i - 1) \o SubSeq(stored, i + 1, Len(stored))
  BY DEF Drops
<1>2. stored \in Seq(Begun) /\ UNCHANGED <<pending, uptime, wall, synced, straddled>>
  BY DEF Drops, LatestInv, LatestTyped
<1> DEFINE At(k) == IF k < i THEN k ELSE k + 1
<1>3. /\ Len(stored) \in Nat /\ DOMAIN stored = 1..Len(stored) /\ stored' \in Seq(Begun)
      /\ DOMAIN stored' = 1..(Len(stored) - 1)
      /\ \A k \in 1..(Len(stored) - 1) : stored'[k] = stored[At(k)]
  <2>1. \A d : d = SubSeq(stored, 1, i - 1) \o SubSeq(stored, i + 1, Len(stored)) =>
            /\ Len(stored) \in Nat /\ DOMAIN stored = 1..Len(stored) /\ d \in Seq(Begun)
            /\ DOMAIN d = 1..(Len(stored) - 1)
            /\ \A k \in 1..(Len(stored) - 1) : d[k] = stored[IF k < i THEN k ELSE k + 1]
    BY <1>2, OneLess, Zenon
  <2> QED BY <1>1, <2>1
<1>4. /\ \A k \in 1..(Len(stored) - 1) : At(k) \in 1..Len(stored)
      /\ \A j, k \in 1..(Len(stored) - 1) : j < k => At(j) < At(k)
  BY <1>3
<1> HIDE DEF At
<1>5. LatestTyped'
  BY <1>2, <1>3 DEF LatestInv, LatestTyped
<1>6. Known' \subseteq Known
  BY <1>2, <1>3, <1>4 DEF Known
<1>7. InOrder'
  BY <1>2, <1>3, <1>4 DEF LatestInv, InOrder
<1> QED BY <1>2, <1>5, <1>6, <1>7, NothingNew DEF LatestInv

\* What is left of the boot before is at least two seconds old.
LEMMA LatestReboots ==
    ASSUME LatestInv, Reboots
    PROVE  LatestInv'
<1>1. /\ stored \in Seq(Begun) /\ stored' = stored /\ wall \in Nat \ {0} /\ uptime \in Nat
      /\ uptime' = 0 /\ pending' = [t \in Writers |-> NoStamp] /\ Second \in Nat \ {0}
  BY LatestRowAssumption DEF Reboots, LatestInv, LatestTyped
<1>2. \A t \in Writers : pending'[t] = NoStamp
  BY <1>1
<1>3. Known' = {stored[i] : i \in DOMAIN stored} /\ Known' \subseteq Known
  BY <1>1, <1>2 DEF Known
<1>4. CASE stored = <<>> /\ wall' = 1 /\ straddled' = FALSE
  <2>1. Known' = {} /\ DOMAIN stored' = {}
    BY <1>1, <1>3, <1>4
  <2>2. LatestTyped'
    BY <1>1, <1>4 DEF LatestInv, LatestTyped
  <2> QED BY <2>1, <2>2 DEF LatestInv, Dated, Booted, InOrder
<1>5. CASE wall' = wall + 2 * Second /\ UNCHANGED straddled
  <2>1. LatestTyped'
    BY <1>1, <1>5 DEF LatestInv, LatestTyped
  <2>2. \A r \in Known : r.born \in Nat /\ r.mono \in Nat /\ r.born <= wall
    BY KnownBegun DEF LatestInv, Dated, Begun
  <2>3. Dated'
    BY <1>1, <1>3, <1>5, <2>2 DEF LatestInv, Dated
  <2>4. \A r \in Known' : r.born + 2 * Second + 0 <= wall'
    BY <1>1, <1>3, <1>5, <2>2
  <2>5. Booted'
    BY <1>1, <1>3, <2>4 DEF LatestInv, Booted, SameBoot, BootBefore
  <2>6. InOrder'
    BY <1>1, <1>5 DEF LatestInv, InOrder
  <2> QED BY <2>1, <2>3, <2>5, <2>6 DEF LatestInv
<1> QED BY <1>4, <1>5 DEF Reboots

LEMMA LatestInvHolds == LatestSpec => []LatestInv
<1>1. LatestInv /\ [LatestNext]_latestVars => LatestInv'
  <2> SUFFICES ASSUME LatestInv, [LatestNext]_latestVars PROVE LatestInv'
    OBVIOUS
  <2>1. CASE Synced \/ UNCHANGED latestVars
    <3>1. UNCHANGED <<stored, pending, uptime, wall, straddled>>
      BY <2>1 DEF Synced, latestVars
    <3> QED BY <3>1 DEF LatestInv, LatestTyped, Dated, Booted, InOrder, Known, SameBoot, BootBefore
  <2> QED BY <2>1, LatestStamps, LatestStores, LatestDrops, LatestReboots DEF LatestNext
<1> QED BY <1>1, LatestInvInit, PTL DEF LatestSpec

(***************************************************************************)
(* The walk.                                                               *)
(***************************************************************************)
\* Time goes on from second to second.
LEMMA LaterSecond ==
    ASSUME NEW S \in Nat \ {0}, NEW p \in Nat, NEW q \in Nat, p < q,
           NEW u \in 0..(S - 1), NEW v \in 0..(S - 1)
    PROVE  S * p + u < S * q + v
<1>1. PICK d \in Nat : q = p + 1 + d
  <2>1. q - p - 1 \in Nat /\ q = p + 1 + (q - p - 1)
    OBVIOUS
  <2> QED BY <2>1
<1>2. S * q = S * p + S + S * d /\ S * d \in Nat /\ S * p \in Nat
  BY <1>1
<1> QED BY <1>2

\* Of two rows with a time the newer one is the one begun later.
LEMMA NewerIsLater ==
    ASSUME LatestInv, ~straddled, NEW b \in DOMAIN stored, NEW i \in DOMAIN stored, b < i
    PROVE  IF Newer(i, b) THEN stored[b].born <= stored[i].born
                          ELSE stored[i].born <= stored[b].born
<1> DEFINE r == stored[i]
           s == stored[b]
<1>1. r \in Known /\ s \in Known /\ r \in Begun /\ s \in Begun
  BY KnownBegun DEF LatestInv, Known
<1>2. b \in Nat /\ i \in Nat /\ b # 0
  <2>1. DOMAIN stored = 1..Len(stored) /\ Len(stored) \in Nat
    BY LenProperties DEF LatestInv, LatestTyped
  <2> QED BY <2>1
<1>3. CASE r.ts = 0 \/ s.ts = 0
  <2>1. s.born <= r.born
    BY <1>3 DEF LatestInv, InOrder
  <2>2. Newer(i, b)
    BY <1>2, <1>3 DEF Newer
  <2> QED BY <2>1, <2>2
<1>4. CASE r.ts # 0 /\ s.ts # 0
  <2>1. r.ts = 1 + ((r.born - 1) \div Second) /\ s.ts = 1 + ((s.born - 1) \div Second)
    BY <1>1, <1>4 DEF LatestInv, Dated
  <2>2. SameBoot(r, s) \/ BootBefore(r, s) \/ BootBefore(s, r)
    BY <1>1 DEF LatestInv, Booted
  <2>3. Newer(i, b) <=> r.ts > s.ts \/ (r.ts = s.ts /\ r.mono > s.mono)
    BY <1>1, <1>2, <1>4 DEF Newer, Begun
  <2> DEFINE x == r.born - 1
             y == s.born - 1
             p == x \div Second
             q == y \div Second
  <2>4. x \in Nat /\ y \in Nat /\ r.mono \in Nat /\ s.mono \in Nat
        /\ r.born = x + 1 /\ s.born = y + 1 /\ Second \in Nat \ {0}
    BY <1>1, LatestRowAssumption DEF Begun
  <2>5. r.ts = 1 + p /\ s.ts = 1 + q
    BY <2>1
  <2> HIDE DEF x, y
  <2>6. /\ p \in Nat /\ q \in Nat
        /\ x % Second \in 0..(Second - 1) /\ y % Second \in 0..(Second - 1)
        /\ x = Second * p + (x % Second) /\ y = Second * q + (y % Second)
    BY <2>4
  <2>20. SUFFICES IF Newer(i, b) THEN s.born <= r.born ELSE r.born <= s.born
    OBVIOUS
  <2> HIDE DEF p, q, r, s
  <2>7. p < q => x < y
    BY <2>4, <2>6, LaterSecond
  <2>8. q < p => y < x
    BY <2>4, <2>6, LaterSecond
  <2>9. CASE p < q
    BY <2>3, <2>4, <2>5, <2>6, <2>7, <2>9
  <2>10. CASE q < p
    BY <2>3, <2>4, <2>5, <2>6, <2>8, <2>10
  <2>11. CASE p = q
    <3>1. x < y + Second /\ y < x + Second
      BY <2>4, <2>6, <2>11
    <3>2. SameBoot(r, s)
      BY <2>2, <2>4, <3>1 DEF BootBefore
    <3>3. r.mono > s.mono <=> r.born > s.born
      BY <2>4, <3>2 DEF SameBoot
    <3>4. Newer(i, b) <=> r.born > s.born
      BY <2>3, <2>5, <2>6, <2>11, <3>3
    <3> QED BY <2>4, <3>4
  <2> QED BY <2>6, <2>9, <2>10, <2>11
<1> QED BY <1>1, <1>3, <1>4

\* f is what the walk holds after each of the first N rows.
WalkOf(f, N) ==
    f = [n \in 0..N |-> IF n = 0 THEN 0 ELSE IF Newer(n, f[n - 1]) THEN n ELSE f[n - 1]]

LEMMA WalkStep ==
    ASSUME NEW N, NEW f, WalkOf(f, N), NEW n \in 0..N
    PROVE  f[n] = IF n = 0 THEN 0 ELSE IF Newer(n, f[n - 1]) THEN n ELSE f[n - 1]
BY DEF WalkOf

\* There is one: no number of rows is the least without.
LEMMA WalkExists ==
    ASSUME NEW N \in Nat
    PROVE  \E f : WalkOf(f, N)
<1> DEFINE Bad == {n \in Nat : ~\E f : WalkOf(f, n)}
<1>1. SUFFICES ASSUME Bad # {} PROVE FALSE
  OBVIOUS
<1>2. PICK m \in Bad : \A j \in Bad : <<j, m>> \notin OpToRel(<, Nat)
  <2>1. Bad \in SUBSET Nat
    OBVIOUS
  <2> HIDE DEF Bad
  <2> QED BY <1>1, <2>1, WFMin, NatLessThanWellFounded, Zenon
<1>3. m \in Nat /\ \A f : ~WalkOf(f, m)
  OBVIOUS
<1>4. m # 0
  <2>1. SUFFICES ASSUME m = 0 PROVE FALSE
    OBVIOUS
  <2> DEFINE f == [n \in 0..0 |-> 0]
  <2>2. \A n \in 0..0 : n = 0
    OBVIOUS
  <2>3. f = [n \in 0..0 |-> IF n = 0 THEN 0 ELSE IF Newer(n, f[n - 1]) THEN n ELSE f[n - 1]]
    BY <2>2
  <2> QED BY <1>3, <2>1, <2>3 DEF WalkOf
<1>5. PICK f : WalkOf(f, m - 1)
  <2>1. m - 1 \in Nat /\ m - 1 < m
    BY <1>3, <1>4
  <2>2. m - 1 \notin Bad
    BY <1>2, <1>3, <2>1 DEF OpToRel
  <2> QED BY <2>1, <2>2
<1> DEFINE g == [n \in 0..m |-> IF n = m THEN IF Newer(m, f[m - 1]) THEN m ELSE f[m - 1] ELSE f[n]]
<1>6. \A n \in 0..(m - 1) :
        f[n] = IF n = 0 THEN 0 ELSE IF Newer(n, f[n - 1]) THEN n ELSE f[n - 1]
  BY <1>5, WalkStep
<1>7. /\ g[m] = IF Newer(m, f[m - 1]) THEN m ELSE f[m - 1]
      /\ \A n \in 0..m : n # m => g[n] = f[n] /\ n \in 0..(m - 1)
      /\ \A n \in 0..m : n # 0 => g[n - 1] = f[n - 1]
  BY <1>3, <1>4
<1>8. \A n \in 0..m :
        g[n] = IF n = 0 THEN 0 ELSE IF Newer(n, g[n - 1]) THEN n ELSE g[n - 1]
  BY <1>3, <1>4, <1>6, <1>7
<1>9. g = [n \in 0..m |-> g[n]]
  OBVIOUS
<1> HIDE DEF g
<1>10. WalkOf(g, m)
  BY <1>8, <1>9 DEF WalkOf
<1> QED BY <1>3, <1>10

LEMMA BestOfWalk ==
    ASSUME Len(stored) \in Nat
    PROVE  \E f : WalkOf(f, Len(stored)) /\ Best = f[Len(stored)]
<1> DEFINE f == CHOOSE f : WalkOf(f, Len(stored))
<1>1. WalkOf(f, Len(stored))
  BY WalkExists
<1>2. Best = f[Len(stored)]
  BY DEF Best, WalkOf
<1> QED BY <1>1, <1>2

\* After each row the walk holds the one begun last so far.
LEMMA WalkHolds ==
    ASSUME LatestInv, ~straddled, NEW f, WalkOf(f, Len(stored)), NEW n \in 1..Len(stored)
    PROVE  f[n] \in 1..n /\ \A i \in 1..n : stored[i].born <= stored[f[n]].born
<1> DEFINE N == Len(stored)
           Good(m) == f[m] \in 1..m /\ \A i \in 1..m : stored[i].born <= stored[f[m]].born
           Bad == {m \in 1..N : ~Good(m)}
<1>1. N \in Nat /\ DOMAIN stored = 1..N /\ \A i \in 1..N : stored[i].born \in Nat
  <2>1. stored \in Seq(Begun)
    BY DEF LatestInv, LatestTyped
  <2>2. N \in Nat /\ DOMAIN stored = 1..N /\ \A i \in 1..N : stored[i] \in Begun
    BY <2>1, LenProperties
  <2> QED BY <2>2 DEF Begun
<1>2. SUFFICES ASSUME Bad # {} PROVE FALSE
  OBVIOUS
<1>3. PICK m \in Bad : \A j \in Bad : <<j, m>> \notin OpToRel(<, Nat)
  <2>1. Bad \in SUBSET Nat
    BY <1>1
  <2> HIDE DEF Bad
  <2> QED BY <1>2, <2>1, WFMin, NatLessThanWellFounded, Zenon
<1>4. m \in 1..N /\ m \in Nat /\ ~Good(m)
  BY <1>1
<1>5. f[m] = IF Newer(m, f[m - 1]) THEN m ELSE f[m - 1]
  <2>1. m \in 0..N /\ m # 0
    BY <1>1, <1>4
  <2> QED BY <2>1, WalkStep
<1>6. CASE m = 1
  <2>1. f[0] = 0
    <3>1. 0 \in 0..N
      BY <1>1
    <3> QED BY <3>1, WalkStep
  <2>2. f[1] = 1
    BY <1>5, <1>6, <2>1 DEF Newer
  <2>3. \A i \in 1..1 : i = 1
    OBVIOUS
  <2> QED BY <1>1, <1>4, <1>6, <2>2, <2>3
<1>7. CASE m # 1
  <2>1. m - 1 \in 1..N /\ m - 1 \in Nat /\ m - 1 < m
    BY <1>1, <1>4, <1>7
  <2>2. Good(m - 1)
    BY <1>3, <1>4, <2>1 DEF OpToRel
  <2> DEFINE b == f[m - 1]
  <2>3. b \in 1..N /\ b < m /\ \A i \in 1..(m - 1) : stored[i].born <= stored[b].born
    BY <1>1, <2>1, <2>2
  <2>4. IF Newer(m, b) THEN stored[b].born <= stored[m].born ELSE stored[m].born <= stored[b].born
    BY <1>1, <1>4, <2>3, NewerIsLater
  <2>5. \A i \in 1..m : i \in 1..(m - 1) \/ i = m
    BY <1>4
  <2> HIDE DEF b
  <2>6. f[m] = IF Newer(m, b) THEN m ELSE b
    BY <1>5 DEF b
  <2>7. f[m] \in 1..m
    BY <1>4, <2>3, <2>6
  <2>8. ASSUME NEW i \in 1..m PROVE stored[i].born <= stored[f[m]].born
    <3>1. i \in 1..N
      BY <1>1, <1>4
    <3>2. i \in 1..(m - 1) => stored[i].born <= stored[b].born
      BY <2>3
    <3> QED BY <1>1, <1>4, <2>3, <2>4, <2>5, <2>6, <3>1, <3>2
  <2> QED BY <1>4, <2>7, <2>8
<1> QED BY <1>6, <1>7

\* Whichever task stored a row first, however often the device restarted in between, and
\* whether or not it knew the time, the row dd_event_latest_for_peers takes for the last
\* is the one begun last, for a log of any length; it may err only about a row without a
\* time that was stored out of turn.
THEOREM LatestIsFoundAlways == LatestSpec => []LatestIsFound
<1>1. LatestInv => LatestIsFound
  <2>1. SUFFICES ASSUME LatestInv, ~straddled, NEW i \in DOMAIN stored
                 PROVE  stored[i].born <= stored[Best].born
    BY DEF LatestIsFound
  <2>2. Len(stored) \in Nat /\ DOMAIN stored = 1..Len(stored)
    BY <2>1, LenProperties DEF LatestInv, LatestTyped
  <2>3. PICK f : WalkOf(f, Len(stored)) /\ Best = f[Len(stored)]
    BY <2>2, BestOfWalk
  <2>4. Len(stored) \in 1..Len(stored)
    BY <2>1, <2>2
  <2> QED BY <2>1, <2>2, <2>3, <2>4, WalkHolds
<1> QED BY <1>1, LatestInvHolds, PTL
=============================================================================
