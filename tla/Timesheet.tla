------------------------------ MODULE Timesheet ------------------------------
(***************************************************************************)
(* What the attendance log is turned into (http_app/dd_http_attendance.c): *)
(* the stays of /api/events/paired and of the paired export, the totals of *)
(* /api/today, the days of /api/calendar and the rows of one day.          *)
(*                                                                         *)
(* Each of these handlers walks the file line by line while the storage    *)
(* keeps it locked, and carries a small table along.  A step here is one   *)
(* line, given to all of them: the file may be any, so the lines come as   *)
(* they please, and the tables can be compared at every line, which is the *)
(* end of some file.                                                       *)
(***************************************************************************)
EXTENDS Integers, Sequences, FiniteSets, FiniteSetsExt

CONSTANTS
    Lines,          \* the rows a file may hold
    Ranges,         \* the ranges asked of the paired export; 0 is no bound
    NoPeer,         \* a row without "peer" (a button, or a click that names no worker)
    MaxOpen,        \* PAIR_MAX_OPEN
    MaxToday,       \* TODAY_MAX_WORKERS
    DayLen,         \* a day, 86400
    Today,          \* local midnight before now
    Days,           \* the days the calendar is asked for
    MaskBits,       \* the bits of cal_day_t.worker_mask
    MaxRead         \* bound of the model: lines of a file

\* ts is 0 while the clock is not set; mono (in seconds) always runs.  wid is 0 for a
\* phone that has no worker.
ASSUME TimesheetAssumption ==
    /\ \A r \in Lines : /\ r.type \in {"in", "out"}
                        /\ r.ts \in Nat /\ r.mono \in Nat \ {0} /\ r.wid \in Nat
    /\ \A g \in Ranges : g.from \in Nat /\ g.to \in Nat
    /\ MaxOpen \in Nat \ {0} /\ MaxToday \in Nat
    /\ DayLen \in Nat \ {0} /\ Days \in Nat \ {0} /\ MaskBits \in Nat
    /\ Today \in Nat /\ Today % DayLen = 0 /\ Today >= Days * DayLen

VARIABLES
    read,       \* the lines read so far
    range,      \* the paired view: from_ts and to_ts
    opens,      \* the paired view: in each slot the line of the IN, or 0
    segs,       \* the paired view: the segments emitted, as [in, out] lines; out 0 is open
    lost,       \* history: INs thrown out of their slot without having been emitted
    today,      \* the list of today_get
    days        \* the buckets of calendar_get

sheetVars == <<read, range, opens, segs, lost, today, days>>

OpenSlots == 1..MaxOpen

InWindow(r, g) == (g.from # 0 => r.ts >= g.from) /\ (g.to # 0 => r.ts < g.to)

\* find_open_slot and today_get_or_create: a row goes to its worker, one without a
\* worker to its phone; a row without both to nobody.
MatchesByPeer(r, o) == r.peer # NoPeer /\ o.peer = r.peer                \* mutant
Matches(r, o) ==
    \/ r.wid # 0 /\ o.wid = r.wid
    \/ r.wid = 0 /\ r.peer # NoPeer /\ o.peer = r.peer

First(i, S) == i \in S /\ \A j \in S : i <= j

SheetInit ==
    /\ read = <<>>
    /\ range \in Ranges
    /\ opens = [i \in OpenSlots |-> 0]
    /\ segs = <<>>
    /\ lost = {}
    /\ today = <<>>
    /\ days = <<>>

(***************************************************************************)
(* paired_iter_cb.                                                         *)
(***************************************************************************)
Began(r) == IF r.ts > 0 THEN r.ts ELSE r.mono
Hits(r) == {i \in OpenSlots : opens[i] # 0 /\ Matches(r, read[opens[i]])}
FreeOpens(slots) == {i \in OpenSlots : slots[i] = 0}

\* The slot an IN goes to: the first free one, or the one of the oldest IN.
Oldest(slots) ==
    {i \in OpenSlots : \A j \in OpenSlots : Began(read[slots[i]]) <= Began(read[slots[j]])}
SlotFor(slots) == IF FreeOpens(slots) # {} THEN FreeOpens(slots) ELSE Oldest(slots)

Opened(slots, n) ==
    \E i \in OpenSlots :
        /\ First(i, SlotFor(slots))
        /\ opens' = [slots EXCEPT ![i] = n]
        /\ lost' = lost \cup ({slots[i]} \ {0})

\* emit_segment: a stay, open when its OUT is missing.
Emitted(in, out) == Append(segs, [in |-> in, out |-> out])

\* An IN while its worker is in: the first IN remains open in the answer.
PairedIn(r) ==
    /\ InWindow(r, range) /\ r.type = "in"
    /\ \/ Hits(r) = {} /\ Opened(opens, Len(read) + 1) /\ UNCHANGED segs
       \/ \E i \in Hits(r) :
            /\ First(i, Hits(r))
            /\ segs' = Emitted(opens[i], 0)
            /\ Opened([opens EXCEPT ![i] = 0], Len(read) + 1)

AfterOutKept(i) == opens                                                \* mutant
AfterOut(i) == [opens EXCEPT ![i] = 0]

PairedOut(r) ==
    /\ InWindow(r, range) /\ r.type = "out"
    /\ \/ Hits(r) = {} /\ UNCHANGED <<opens, segs>>
       \/ \E i \in Hits(r) :
            /\ First(i, Hits(r))
            /\ segs' = Emitted(opens[i], Len(read) + 1)
            /\ opens' = AfterOut(i)
    /\ UNCHANGED lost

PairedSkips(r) == ~InWindow(r, range) /\ UNCHANGED <<opens, segs, lost>>

Paired(r) == PairedIn(r) \/ PairedOut(r) \/ PairedSkips(r)

(***************************************************************************)
(* today_iter_cb.  since is in_ts, inside is currently_in.                 *)
(***************************************************************************)
NewEntry(r) ==
    [wid |-> r.wid, peer |-> r.peer, since |-> 0, total |-> 0, segments |-> 0, inside |-> FALSE]

Lasted(since, until) == IF until - since \in 1..(DayLen - 1) THEN until - since ELSE 0

CountedEvenIfOut(e, r) ==                                               \* mutant
    [e EXCEPT !.total = @ + Lasted(e.since, r.ts), !.segments = @ + 1, !.since = 0,
              !.inside = FALSE]
CountedStay(e, r) ==
    IF e.since = 0 THEN e
    ELSE [e EXCEPT !.total = @ + Lasted(e.since, r.ts), !.segments = @ + 1, !.since = 0,
                   !.inside = FALSE]

\* today_get adds the stay that is still going on.
TotalAt(e, now) == e.total + (IF e.since > 0 THEN Lasted(e.since, now) ELSE 0)

CountedRow(e, r) ==
    IF r.type = "in" THEN [e EXCEPT !.since = r.ts, !.inside = TRUE] ELSE CountedStay(e, r)

Entries(r) == {i \in DOMAIN today : Matches(r, today[i])}

TodayLine(r) ==
    \/ r.ts < Today /\ UNCHANGED today
    \/ r.ts >= Today /\ \E i \in Entries(r) :
            First(i, Entries(r)) /\ today' = [today EXCEPT ![i] = CountedRow(@, r)]
    \/ /\ r.ts >= Today /\ Entries(r) = {}
       /\ \/ Len(today) < MaxToday /\ today' = Append(today, CountedRow(NewEntry(r), r))
          \/ Len(today) >= MaxToday /\ UNCHANGED today

(***************************************************************************)
(* cal_iter_cb.  There is a bucket for every day of the range.             *)
(***************************************************************************)
Midnight(ts) == ts - (ts % DayLen)
CalFrom == Today - (Days - 1) * DayLen
CalToInclusive == Today + DayLen + 1                                    \* mutant
CalTo == Today + DayLen

Marked(mask, r) == IF r.wid \in 1..(MaskBits - 1) THEN mask \cup {r.wid} ELSE mask

Buckets(r) == {i \in DOMAIN days : days[i].day = Midnight(r.ts)}

CalendarLine(r) ==
    \/ ~(r.ts >= CalFrom /\ r.ts < CalTo) /\ UNCHANGED days
    \/ r.ts >= CalFrom /\ r.ts < CalTo /\ \E i \in Buckets(r) :
            days' = [days EXCEPT ![i].events = @ + 1, ![i].mask = Marked(@, r)]
    \/ /\ r.ts >= CalFrom /\ r.ts < CalTo /\ Buckets(r) = {}
       /\ days' = Append(days, [day |-> Midnight(r.ts), events |-> 1, mask |-> Marked({}, r)])

-----------------------------------------------------------------------------
ReadLine(r) ==
    /\ Len(read) < MaxRead
    /\ read' = Append(read, r)
    /\ UNCHANGED range
    /\ Paired(r) /\ TodayLine(r) /\ CalendarLine(r)

\* The end of the file has been reached and the answers were given.
Answered ==
    /\ read # <<>> /\ read' = <<>>
    /\ UNCHANGED range
    /\ opens' = [i \in OpenSlots |-> 0] /\ segs' = <<>> /\ lost' = {}
    /\ today' = <<>> /\ days' = <<>>

SheetNext == Answered \/ \E r \in Lines : ReadLine(r)

SheetSpec == SheetInit /\ [][SheetNext]_sheetVars
-----------------------------------------------------------------------------
(***************************************************************************)
(* What the answers should be.                                             *)
(***************************************************************************)
\* Whose row line n is; one that names neither worker nor phone is on its own.
Whose(n) ==
    IF read[n].wid # 0 THEN <<"worker", read[n].wid>>
    ELSE IF read[n].peer # NoPeer THEN <<"phone", read[n].peer>>
    ELSE <<"line", n>>

\* The rows of a phone all came with a worker, or all without.
Unmixed ==
    \A m, n \in DOMAIN read :
        read[m].peer = read[n].peer /\ read[m].peer # NoPeer => (read[m].wid = 0) = (read[n].wid = 0)

Looked == {n \in DOMAIN read : InWindow(read[n], range)}
Ins == {n \in Looked : read[n].type = "in"}

\* The row that ends the stay begun at n, if it has come: the next of the same person.
Ends(n, m) ==
    /\ m \in Looked /\ n < m /\ Whose(m) = Whose(n)
    /\ \A k \in Looked : n < k /\ k < m => Whose(k) # Whose(n)

\* Who was in after the first k lines.
InAfter(k) == {n \in Ins : n <= k /\ \A m \in Looked : m <= k => ~Ends(n, m)}
Crowded == \E k \in DOMAIN read : Cardinality(InAfter(k)) > MaxOpen

OutOf(m) == IF read[m].type = "out" THEN m ELSE 0

Stays == {[in |-> p[1], out |-> OutOf(p[2])] : p \in {q \in Ins \X Looked : Ends(q[1], q[2])}}

StillOpen == {opens[i] : i \in OpenSlots} \ {0}
Segments == {segs[k] : k \in DOMAIN segs}

(***************************************************************************)
(* Properties.                                                             *)
(***************************************************************************)
\* The paired view shows every stay once and nothing else, although it carries only
\* MaxOpen INs along: as long as no more than that are in at one time and no phone
\* changed between rows with and without a worker (paired_iter_cb).
PairedIsComplete ==
    Unmixed /\ ~Crowded =>
        /\ Segments = Stays
        /\ Cardinality(Segments) = Len(segs)
        /\ StillOpen = InAfter(Len(read))

\* Even when it is crowded no IN is shown twice, and no stay is invented: its end is an
\* OUT after its beginning, of the same worker or the same phone.
NothingIsInvented ==
    /\ \A j, k \in DOMAIN segs : segs[j].in = segs[k].in => j = k
    /\ \A k \in DOMAIN segs :
        /\ segs[k].in \in Ins \ (StillOpen \cup lost)
        /\ segs[k].out # 0 =>
            /\ segs[k].out \in Looked /\ segs[k].in < segs[k].out
            /\ read[segs[k].out].type = "out"
            /\ Matches(read[segs[k].out], read[segs[k].in])

\* The totals of /api/today are those of the paired export from today on: for everybody
\* in the list the same stays, the same time, and the same who is in.
TodayAgrees ==
    range = [from |-> Today, to |-> 0] /\ Unmixed /\ ~Crowded =>
        \A i \in DOMAIN today :
            LET mine == {s \in Segments : s.out # 0 /\ Matches(today[i], read[s.in])} IN
            today[i].wid # 0 \/ today[i].peer # NoPeer =>
                /\ today[i].segments = Cardinality(mine)
                /\ today[i].total = MapThenSumSet(
                        LAMBDA s : Lasted(read[s.in].ts, read[s.out].ts), mine)
                /\ \A now \in Today..(Today + DayLen - 1) :
                    TotalAt(today[i], now) = today[i].total
                        + MapThenSumSet(LAMBDA n : Lasted(read[n].ts, now),
                                        {n \in StillOpen : Matches(today[i], read[n])})
                /\ today[i].inside = (\E n \in StillOpen : Matches(today[i], read[n]))

\* A day of the calendar counts the rows that /api/events?date= lists for it and the
\* workers among them whose ids the mask has bits for; no day with rows is left out and
\* no day is listed that was not asked for.
DayRows(d) == {n \in DOMAIN read : InWindow(read[n], [from |-> d, to |-> d + DayLen])}
CalendarAgrees ==
    /\ \A i \in DOMAIN days :
        /\ days[i].events = Cardinality(DayRows(days[i].day))
        /\ days[i].mask = {read[n].wid : n \in DayRows(days[i].day)} \cap 1..(MaskBits - 1)
        /\ \A j \in DOMAIN days : days[i].day = days[j].day => i = j
    /\ {days[i].day : i \in DOMAIN days} =
            {d \in {Today - k * DayLen : k \in 0..(Days - 1)} : DayRows(d) # {}}
=============================================================================
