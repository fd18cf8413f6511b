----------------------------- MODULE EventsPage -----------------------------
(***************************************************************************)
(* GET /api/events (http_app/dd_http_attendance.c): one page of the log.   *)
(*                                                                         *)
(* Without a date and an offset the handler answers the most recent rows:  *)
(* it counts those that match, and walks the file a second time from the   *)
(* count minus the limit.  The storage is locked during each walk and not  *)
(* between them, so rows come and go in between.  Rows of all workers are  *)
(* not counted: the handler takes the cached count, which the failures     *)
(* that EventFile shows may have parted from the file.  The log is the one *)
(* of EventLog, which EventFile implements; a row comes or goes at the     *)
(* moment the count is set.                                                *)
(***************************************************************************)
EXTENDS Naturals, Sequences, FiniteSets

CONSTANTS
    PageRows,       \* the rows, as in EventLog
    PageCutoffs,
    PageCap,
    Queries,        \* requests: [worker, limit, offset, from, to]
    NoOffset,       \* a request without "offset"
    MaxPageRows     \* bound of the model: rows in the log

\* worker, from and to are 0 when they are not given; a date sets limit to 0.
ASSUME PageAssumption ==
    /\ NoOffset \notin Nat
    /\ \A q \in Queries :
        /\ {q.worker, q.limit, q.from, q.to} \subseteq Nat
        /\ q.offset \in Nat \cup {NoOffset}
        /\ (q.limit = 0) = (q.to # 0)

VARIABLES
    rows,       \* the log
    cached,     \* s_event_count
    stage,      \* where the handler is: idle, asked, counted or walked
    query,      \* the request, if there is one
    offset,     \* events_iter_ctx_t.offset
    page,       \* the rows answered
    due,        \* history: the log when the rows were counted
    dropped,    \* history: whether rows have gone since then
    sure        \* history: whether the count taken was that of the rows there were, and
                \* the file could be opened for every walk

pageVars == <<rows, cached, stage, query, offset, page, due, dropped, sure>>
handlerVars == <<stage, query, offset, page, due, sure>>

Stored == INSTANCE EventLog WITH Row <- PageRows, Cutoffs <- PageCutoffs, Cap <- PageCap

None == [none |-> TRUE]

PageInit ==
    /\ rows = <<>> /\ cached = 0
    /\ stage = "idle" /\ query = None /\ offset = 0 /\ page = <<>>
    /\ due = <<>> /\ dropped = FALSE /\ sure = TRUE

\* events_iter_cb and count_iter_cb: the rows that match, as positions.
Wanted(log, q) ==
    {i \in DOMAIN log :
        /\ q.from # 0 => log[i].ts >= q.from
        /\ q.to # 0 => log[i].ts < q.to
        /\ q.worker # 0 => log[i].worker = q.worker}

Rank(S, i) == Cardinality({j \in S : j <= i})

\* The rows of one walk: `skip' of those that match are passed over.
Page(log, q, skip) ==
    LET S == Wanted(log, q) IN
    Stored!Picked(log, {i \in S : /\ Rank(S, i) > skip
                                  /\ q.limit > 0 => Rank(S, i) <= skip + q.limit})

(***************************************************************************)
(* The handler.                                                            *)
(***************************************************************************)
Ask(q) ==
    /\ stage = "idle" /\ stage' = "asked"
    /\ query' = q
    /\ UNCHANGED <<rows, cached, offset, page, due, dropped, sure>>

\* Without a worker the cached count is taken for the number of rows.
AllCounted(q) == cached                                                 \* mutant
Matching(q) == IF q.worker = 0 THEN cached ELSE Cardinality(Wanted(rows, q))

Latest(q) == q.limit > 0 /\ q.offset = NoOffset /\ q.from = 0 /\ q.to = 0

StartAt(n) ==
    offset' = IF Latest(query)
              THEN IF n > query.limit THEN n - query.limit ELSE 0
              ELSE IF query.offset = NoOffset THEN 0 ELSE query.offset

\* A walk of a file that cannot be opened sees no rows (dd_storage_event_iter).
Count ==
    /\ stage = "asked" /\ stage' = "counted"
    /\ \/ StartAt(Matching(query)) /\ sure' = (query.worker = 0 => cached = Len(rows))
       \/ Latest(query) /\ query.worker # 0 /\ StartAt(0) /\ sure' = FALSE
    /\ due' = rows
    /\ dropped' = FALSE
    /\ UNCHANGED <<rows, cached, query, page>>

Walk ==
    /\ stage = "counted" /\ stage' = "walked"
    /\ \/ page' = Page(rows, query, offset) /\ UNCHANGED sure
       \/ page' = <<>> /\ sure' = FALSE
    /\ UNCHANGED <<rows, cached, query, offset, due, dropped>>

Answer ==
    /\ stage = "walked" /\ stage' = "idle"
    /\ query' = None /\ offset' = 0 /\ page' = <<>>
    /\ due' = <<>> /\ dropped' = FALSE /\ sure' = TRUE
    /\ UNCHANGED <<rows, cached>>

\* What other tasks do to the log between the two walks.  A rotation recounts the rows,
\* and may fail in it; a deletion knows how many it has kept.
Grows ==
    /\ Len(rows) < MaxPageRows /\ cached < MaxPageRows
    /\ Stored!AppendRow
    /\ cached' = cached + 1
    /\ UNCHANGED <<handlerVars, dropped>>

Shrinks ==
    /\ \/ (Stored!Trim \/ Stored!Expire) /\ cached' \in 0..Len(rows')
       \/ (Stored!ForgetWorker \/ Stored!DeleteRow \/ Stored!Wipe) /\ cached' = Len(rows')
    /\ dropped' = (dropped \/ stage = "counted")
    /\ UNCHANGED handlerVars

\* The failures of EventFile that leave the log as it is and not its count: an append
\* whose close fails, a removal that fails, a rotation that fails with its recount.
Miscounts ==
    /\ \/ cached < MaxPageRows /\ cached' = cached + 1
       \/ cached' \in 0..Len(rows)
    /\ UNCHANGED <<rows, handlerVars, dropped>>

PageNext ==
    \/ \E q \in Queries : Ask(q)
    \/ Count \/ Walk \/ Answer
    \/ Grows \/ Shrinks \/ Miscounts

PageSpec == PageInit /\ [][PageNext]_pageVars
-----------------------------------------------------------------------------
(***************************************************************************)
(* Properties.                                                             *)
(***************************************************************************)
Last(log, q) ==
    LET S == Wanted(log, q) IN
    Stored!Picked(log, {i \in S : Rank(S, i) + q.limit > Cardinality(S)})

\* The latest rows are answered, of the worker if one is asked for, all of those there
\* were when the request was counted; rows that come meanwhile fill the page up and
\* push nothing out of it.  Rows may be missing only if some were dropped in between, if
\* the count taken, the cached one of all rows, was not that of the file, or if the file
\* could not be opened.  A wrong cached count does not touch the rows of one worker,
\* which are counted (events_get).
LatestRows ==
    stage = "walked" /\ Latest(query) =>
        /\ Len(page) <= query.limit
        /\ ~dropped /\ sure =>
            /\ Len(page) >= Len(Last(due, query))
            /\ SubSeq(page, 1, Len(Last(due, query))) = Last(due, query)
=============================================================================
