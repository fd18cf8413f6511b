------------------------------- MODULE LatestRow -------------------------------
(***************************************************************************)
(* Stamps of rows and what is made of them: dd_event_record, and           *)
(* dd_event_latest_for_peers (components/events/dd_event.c), from which    *)
(* the presence engine learns after a restart whether a phone is in.       *)
(*                                                                         *)
(* A row is stamped with the wall clock and the monotone clock when        *)
(* dd_event_record is called, and stored later: another task may come      *)
(* first.  The wall clock (dd_time) is 0 until NTP has set it and after    *)
(* its server was changed, and else right; each boot begins the monotone   *)
(* clock anew.  The rows here are those of one phone, without their type;  *)
(* rows of others are passed over.                                         *)
(***************************************************************************)
EXTENDS Naturals, Sequences

CONSTANTS
    Second,         \* one second of the monotone clock
    MaxWall,        \* bound of the model: how long it all lasts
    MaxStored       \* bound of the model: rows in the log

ASSUME LatestRowAssumption == Second \in Nat \ {0} /\ MaxWall \in Nat /\ MaxStored \in Nat

VARIABLES
    stored,     \* the rows of the phone in the log, in the order of the file
    pending,    \* the row each task has stamped
    uptime,     \* dd_time_mono_us
    wall,       \* the time it is
    synced,     \* NTP has set the clock (dd_time_is_synced)
    straddled   \* history: a row was stored after one that was stamped later, and one
                \* of the two has no time

latestVars == <<stored, pending, uptime, wall, synced, straddled>>

\* The presence engine records from two tasks, and only while the clock is set;
\* the web from one at any time.
Writers == {"host", "tick", "http"}
NoStamp == [ts |-> 0, mono |-> 0, born |-> 0]

LatestInit ==
    /\ stored = <<>>
    /\ pending = [t \in Writers |-> NoStamp]
    /\ uptime = 0 /\ wall = 1 /\ synced = FALSE
    /\ straddled = FALSE

\* dd_time_now_unix.
NowUnix == IF synced THEN 1 + (wall \div Second) ELSE 0

\* The stamps are taken; born (history) tells every two rows apart.
Stamp(t) ==
    /\ pending[t] = NoStamp
    /\ t # "http" => synced
    /\ wall < MaxWall
    /\ uptime' = uptime + 1 /\ wall' = wall + 1
    /\ pending' = [pending EXCEPT ![t] =
            [ts |-> NowUnix, mono |-> uptime + 1, born |-> wall + 1]]
    /\ UNCHANGED <<stored, synced, straddled>>

Store(t) ==
    /\ pending[t] # NoStamp
    /\ \/ /\ Len(stored) < MaxStored
          /\ stored' = Append(stored, pending[t])
          /\ straddled' = (straddled \/ \E i \in DOMAIN stored :
                                stored[i].born > pending[t].born /\ 0 \in {stored[i].ts, pending[t].ts})
       \/ UNCHANGED <<stored, straddled>>       \* the append fails, or the row is debounced
    /\ pending' = [pending EXCEPT ![t] = NoStamp]
    /\ UNCHANGED <<uptime, wall, synced>>

\* NTP answers, or its server is changed (dd_time_set_ntp_server).
Synced == synced' = ~synced /\ UNCHANGED <<stored, pending, uptime, wall, straddled>>

\* A boot takes some seconds; nothing but the log remains.  If it is empty, nothing
\* tells when all this is.
Reboots ==
    /\ \/ stored = <<>> /\ wall' = 1 /\ straddled' = FALSE
       \/ /\ stored # <<>>
          /\ wall + 2 * Second <= MaxWall
          /\ wall' = wall + 2 * Second
          /\ UNCHANGED straddled
    /\ uptime' = 0 /\ synced' = FALSE
    /\ pending' = [t \in Writers |-> NoStamp]
    /\ UNCHANGED stored

\* Rotation, retention and deletions.
Drops ==
    /\ \E i \in DOMAIN stored :
        stored' = SubSeq(stored, 1, i - 1) \o SubSeq(stored, i + 1, Len(stored))
    /\ UNCHANGED <<pending, uptime, wall, synced, straddled>>

LatestNext ==
    \/ \E t \in Writers : Stamp(t) \/ Store(t)
    \/ Synced \/ Reboots \/ Drops

LatestSpec == LatestInit /\ [][LatestNext]_latestVars

(***************************************************************************)
(* bulk_iter_cb: row i takes the place of the best so far (0: none).       *)
(***************************************************************************)
NewerByFile(i, best) == TRUE                                            \* mutant
Newer(i, best) ==
    \/ best = 0
    \/ LET r == stored[i]
           b == stored[best] IN
       IF r.ts > 0 /\ b.ts > 0
       THEN r.ts > b.ts \/ (r.ts = b.ts /\ r.mono > b.mono)
       ELSE i > best

Best ==
    LET best[n \in 0..Len(stored)] ==
            IF n = 0 THEN 0 ELSE IF Newer(n, best[n - 1]) THEN n ELSE best[n - 1]
    IN best[Len(stored)]
-----------------------------------------------------------------------------
(***************************************************************************)
(* Properties.                                                             *)
(***************************************************************************)
\* Of all rows in the log the one that was begun last is found, whatever order the
\* tasks stored them in and however many restarts and rows without a time there are in
\* between; only when one of the two has no time may a row that is stored late be
\* taken for the last (dd_event_latest_for_peers).
LatestIsFound ==
    ~straddled => \A i \in DOMAIN stored : stored[i].born <= stored[Best].born
=============================================================================
