------------------------------- MODULE Presence -------------------------------
(***************************************************************************)
(* The attendance engine of components/ble/dd_ble.c: the presence slots,   *)
(* the 1 Hz presence tick, the active connect-probe, the GAP callbacks     *)
(* that feed them, and the IN/OUT rows they record through                 *)
(* components/events/dd_event.c.                                           *)
(*                                                                         *)
(* Tasks.  The NimBLE host task runs the GAP callbacks, the esp_timer task *)
(* runs presence_tick_cb and the one-shot scan restart, the httpd task     *)
(* runs the handlers; s_presence[] has no lock.  dd_event_record blocks on *)
(* mutexes and on flash, so each call of it is a point where the other     *)
(* tasks run: `host', `tick' and `http' hold what a blocked task still has *)
(* to do.                                                                  *)
(*                                                                         *)
(* Time.  One ClockTick is one period of the tick timer.  A time stamp of  *)
(* the code is modelled by its age in ticks, capped where no comparison    *)
(* tells larger ages apart.  Between two ticks the tasks come to rest, but *)
(* for one thing: a task may wait for the lock of the log for as long as a *)
(* download holds it, and time passes meanwhile (Stalled).  `waits' records*)
(* that it happened, and whether ever for as long as the debounce; a       *)
(* property that depends on it says so.                                    *)
(***************************************************************************)
EXTENDS Naturals, FiniteSets

CONSTANTS
    Peers,            \* identity addresses of phones that may be bonded
    NoPeer,           \* the all-zero address of a memset slot
    MaxSlots,         \* PRESENCE_MAX
    MaxBonds,         \* capacity of the NimBLE bond store
    MaxConn,          \* CONFIG_BT_NIMBLE_MAX_CONNECTIONS
    ProbeAfter,       \* PRESENCE_PROBE_AFTER_MS, in ticks
    ProbeTimeout,     \* PRESENCE_PROBE_TIMEOUT_MS
    ProbeCooldown,    \* PRESENCE_PROBE_COOLDOWN_MS
    ReprobeOut,       \* PRESENCE_REPROBE_OUT_MS
    TimeoutMin,       \* PRESENCE_TIMEOUT_MIN_S
    TimeoutMax,       \* PRESENCE_TIMEOUT_MAX_S
    Debounce,         \* DEBOUNCE_US of dd_event.c
    Features          \* the environment's events that a run includes

\* Every event of the environment that a run may leave out.
AllFeatures == {"hid", "pair", "repeat", "revoke", "wipe", "ntp", "timeout",
                "reboot", "appendfail", "hcierror", "lateclock", "stall"}

ASSUME PeersAssumption == NoPeer \notin Peers
ASSUME SizesAssumption ==
    /\ MaxSlots \in Nat \ {0}
    /\ MaxConn \in Nat \ {0}
    /\ MaxConn < 65535
    /\ MaxBonds \in Nat
ASSUME TimesAssumption ==
    /\ ProbeAfter \in Nat
    /\ ProbeTimeout \in Nat
    /\ ProbeCooldown \in Nat
    /\ ReprobeOut \in Nat
    /\ ProbeCooldown <= ReprobeOut
    /\ TimeoutMin \in Nat
    /\ TimeoutMax \in Nat
    /\ TimeoutMin <= TimeoutMax
    /\ Debounce \in Nat
    /\ Debounce <= TimeoutMin
ASSUME FeaturesAssumption == Features \subseteq AllFeatures

Slots == 1 .. MaxSlots
Handles == 0 .. MaxConn - 1
NoHandle == 65535

\* The longest a peer that went silent may stay present: the timeout, one
\* probe started just before it, and the tick that notices the probe's end.
AgeMax == TimeoutMax + ProbeTimeout + 2
OlderUncapped(age, cap) == age + 1                              \* mutant
Older(age, cap) == IF age < cap THEN age + 1 ELSE cap

EventTypes == {"in", "out"}

(***************************************************************************)
(* State.                                                                  *)
(***************************************************************************)
VARIABLES
    slot,       \* s_presence[]; a slot is used iff its addr is not NoPeer
    tick,       \* presence_tick_cb: the slot it is at, 0 between ticks
    host,       \* what the host task is blocked in: an IN row, a scan of the log
    http,       \* the handler the httpd task is in the middle of
    scanning,   \* ble_gap_ext_disc: on, off, or refused by the controller
    rescan,     \* s_scan_restart_timer is armed
    pairing,    \* the pairing window is open
    timeout,    \* s_presence_timeout_ms, in ticks
    synced,     \* dd_time_now_unix() > 0
    since,      \* dd_event.c's debounce stamps: age of the last in/out per peer
    rows,       \* events.jsonl: the last two rows of each peer
    bonds,      \* the NimBLE bond store
    link,       \* NimBLE's live connections
    conn,       \* NimBLE's outgoing connect procedure, slot 0 when none
    near,       \* the peers in radio range
    append,     \* a row that is stamped and waits for the log: its phone, per task
    heard,      \* history: ticks since the device last had radio contact
    waits       \* history: how long a row ever waited (see Stalled)

codeVars == <<slot, tick, host, http, scanning, rescan, pairing, timeout, synced>>
logVars  == <<since, rows>>
radioVars == <<bonds, link, conn, near, heard>>
stalls == <<append, waits>>
vars == <<slot, tick, host, http, scanning, rescan, pairing, timeout, synced,
          since, rows, append, bonds, link, conn, near, heard, waits>>

SlotRec == [addr : Peers \cup {NoPeer}, present : BOOLEAN, ack : BOOLEAN,
            probing : BOOLEAN, connected : BOOLEAN,
            handle : Handles \cup {NoHandle},
            seen : 0 .. AgeMax, probed : 0 .. ReprobeOut]
LinkRec == [peer : Peers \cup {NoPeer}, via : {"none", "hid", "probe"},
            slot : 0 .. MaxSlots, closing : BOOLEAN]
ConnRec == [slot : 0 .. MaxSlots, peer : Peers \cup {NoPeer},
            age : 0 .. ProbeTimeout]
TickRec == [at : 0 .. MaxSlots, phase : {"eval", "in", "out"}]
HostRec == [slot : 0 .. MaxSlots, peer : Peers \cup {NoPeer},
            then : {"none", "hid", "probe", "alloc"}, bonded : SUBSET Peers]
HttpRec == [op : {"none", "wipe", "revoke"}, peer : Peers \cup {NoPeer}]
AppendRec == [host : Peers \cup {NoPeer}, tick : Peers \cup {NoPeer}]
RowsRec == [prior : EventTypes \cup {"none"}, last : EventTypes \cup {"none"}]

\* A slot after memset: its handle is 0, which is a handle NimBLE hands out.
FreeSlot == [addr |-> NoPeer, present |-> FALSE, ack |-> FALSE,
             probing |-> FALSE, connected |-> FALSE, handle |-> 0,
             seen |-> AgeMax, probed |-> ReprobeOut]
NoLink == [peer |-> NoPeer, via |-> "none", slot |-> 0, closing |-> FALSE]
NoConn == [slot |-> 0, peer |-> NoPeer, age |-> 0]
TickIdle == [at |-> 0, phase |-> "eval"]
HostIdle == [slot |-> 0, peer |-> NoPeer, then |-> "none", bonded |-> {}]
HttpIdle == [op |-> "none", peer |-> NoPeer]
NoAppend == [host |-> NoPeer, tick |-> NoPeer]
NoRows == [prior |-> "none", last |-> "none"]

Used(i) == slot[i].addr # NoPeer
Linked(p) == p # NoPeer /\ \E h \in Handles : link[h].peer = p
Lowest(S) == CHOOSE i \in S : \A j \in S : i <= j

(***************************************************************************)
(* presence_preallocate_bonded: every bonded peer without a slot gets a    *)
(* free one, lowest first, until the slots run out.  A peer whose last row *)
(* is an IN resumes as present and acknowledged.                           *)
(***************************************************************************)
ResumedSlot(p, log) ==
    LET wasIn == log[p].last = "in" IN
    [addr |-> p, present |-> wasIn, ack |-> wasIn, probing |-> FALSE,
     connected |-> FALSE, handle |-> NoHandle,
     seen |-> IF wasIn THEN 0 ELSE AgeMax, probed |-> ReprobeOut]

UntrackedAgain(f, bonded) == bonded                             \* mutant
UntrackedNever(f, bonded) == {}                                 \* mutant
Untracked(f, bonded) == bonded \ {f[i].addr : i \in Slots}

Preallocations(f, bonded, log) ==
    LET free == {i \in Slots : f[i].addr = NoPeer}
        missing == Untracked(f, bonded)
        placements ==
          {m \in [free -> missing \cup {NoPeer}] :
             /\ \A i, j \in free : m[i] = m[j] /\ m[i] # NoPeer => i = j
             /\ \A i, j \in free : i < j /\ m[j] # NoPeer => m[i] # NoPeer
             /\ \/ \A i \in free : m[i] # NoPeer
                \/ \A p \in missing : \E i \in free : m[i] = p}
    IN  {[i \in Slots |-> IF i \in free /\ m[i] # NoPeer
                          THEN ResumedSlot(m[i], log) ELSE f[i]]
           : m \in placements}

(***************************************************************************)
(* dd_event_record(type, DD_SRC_BLE_AUTO, p): a second row of the same     *)
(* type within the debounce window is dropped and reported as recorded;    *)
(* otherwise the row is stamped and then appended.  The append may fail,   *)
(* and no caller looks at the result; and it may have to wait for the lock *)
(* of the log (HostWaits, TickWaits), made out to p by then.               *)
(***************************************************************************)
DebouncedNever(type, p) == FALSE                                \* mutant
DebouncedAnyType(type, p) == \E t \in {"in", "out"} : since[p][t] < Debounce   \* mutant
Debounced(type, p) == since[p][type] < Debounce

Stamp(type, p) ==
    /\ p # NoPeer /\ ~Debounced(type, p)
    /\ since' = [since EXCEPT ![p][type] = 0]

Appended(type, p) ==
    \/ rows' = [rows EXCEPT ![p] = [prior |-> rows[p].last, last |-> type]]
    \/ "appendfail" \in Features /\ UNCHANGED rows

\* The rest of dd_event_record, or all of it if nothing was in the way.
RecordEvent(task, type, p) ==
    \/ /\ append[task] # NoPeer
       /\ Appended(type, append[task])
       /\ append' = [append EXCEPT ![task] = NoPeer]
       /\ UNCHANGED <<since, waits>>
    \/ /\ append[task] = NoPeer
       /\ Stamp(type, p) /\ Appended(type, p)
       /\ UNCHANGED stalls
    \/ /\ append[task] = NoPeer
       /\ p # NoPeer => Debounced(type, p)
       /\ UNCHANGED <<logVars, stalls>>

(***************************************************************************)
(* presence_seen_addr(p) on the slots f: the peer's slot, or the lowest    *)
(* free one if the peer is bonded, becomes present and just seen.  Claiming*)
(* a slot resets every field but `connected'.                              *)
(***************************************************************************)
Claimed(s, p) ==
    [s EXCEPT !.addr = p, !.present = FALSE, !.ack = FALSE, !.probing = FALSE,
              !.handle = NoHandle, !.probed = ReprobeOut]

SeenAt(f, p) ==
    LET own == {i \in Slots : f[i].addr = p}
        free == {i \in Slots : f[i].addr = NoPeer}
    IN  IF p = NoPeer THEN 0
        ELSE IF own # {} THEN Lowest(own)
        ELSE IF free # {} /\ p \in bonds THEN Lowest(free)
        ELSE 0

SeenSlots(f, p) ==
    [i \in Slots |->
       IF i # SeenAt(f, p) THEN f[i]
       ELSE [(IF f[i].addr = p THEN f[i] ELSE Claimed(f[i], p))
               EXCEPT !.seen = 0, !.present = TRUE]]

\* What a GAP CONNECT callback does after presence_seen_addr returned.
MarkConnected(f, p) ==
    [i \in Slots |-> IF f[i].addr = p /\ p # NoPeer
                     THEN [f[i] EXCEPT !.connected = TRUE] ELSE f[i]]

AfterSeenScannerForgotten(f, p, then) ==                        \* mutant
    /\ slot' = IF then = "hid" THEN MarkConnected(f, p) ELSE f
    /\ UNCHANGED rescan

AfterSeen(f, p, then) ==
    /\ slot' = IF then = "hid" THEN MarkConnected(f, p) ELSE f
    /\ rescan' = (rescan \/ then = "probe")

\* The whole of presence_seen_addr and what follows it in the callback.  If an
\* IN is due, the callback stops before dd_event_record (HostRecord goes on).
SeenThen(f, p, then) ==
    LET g == SeenSlots(f, p)
        i == SeenAt(f, p)
    IN  IF i # 0 /\ ~g[i].ack /\ synced
        THEN /\ slot' = g
             /\ host' = [slot |-> i, peer |-> p, then |-> then, bonded |-> {}]
             /\ UNCHANGED rescan
        ELSE /\ AfterSeen(g, p, then)
             /\ UNCHANGED host

Contact(p) == heard' = [heard EXCEPT ![p] = 0]

(***************************************************************************)
(* presence_probe_start(i), called by the tick with slot i holding s.      *)
(* Nothing happens while the pairing window is open.  The scanner is       *)
(* stopped first; NimBLE refuses the connect while another one is in       *)
(* flight or the peer is already linked.                                   *)
(***************************************************************************)
ProbeStart(i, s) ==
    \/ /\ pairing
       /\ slot' = [slot EXCEPT ![i] = s]
       /\ UNCHANGED <<scanning, rescan, conn>>
    \/ /\ ~pairing
       /\ "hcierror" \in Features            \* ble_gap_disc_cancel failed
       /\ slot' = [slot EXCEPT ![i] = [s EXCEPT !.probed = 0]]
       /\ rescan' = TRUE
       /\ UNCHANGED <<scanning, conn>>
    \/ /\ ~pairing
       /\ conn.slot # 0 \/ Linked(s.addr)    \* ble_gap_connect refused
       /\ slot' = [slot EXCEPT ![i] = [s EXCEPT !.handle = NoHandle, !.probed = 0]]
       /\ scanning' = "off"
       /\ rescan' = TRUE
       /\ UNCHANGED conn
    \/ /\ ~pairing
       /\ conn.slot = 0 /\ ~Linked(s.addr)
       /\ slot' = [slot EXCEPT ![i] = [s EXCEPT !.handle = NoHandle, !.probing = TRUE]]
       /\ conn' = [slot |-> i, peer |-> s.addr, age |-> 0]
       /\ scanning' = "off"
       /\ UNCHANGED rescan

(***************************************************************************)
(* presence_tick_cb.  ClockTick is the timer firing; the callback then     *)
(* visits the slots in order.  TickEval runs one iteration up to the       *)
(* recording of a row, TickIn and TickOut run what is left of it.          *)
(***************************************************************************)
Ageing ==
    /\ slot' = [i \in Slots |->
                  [slot[i] EXCEPT !.seen = Older(@, AgeMax),
                                  !.probed = Older(@, ReprobeOut)]]
    /\ since' = [p \in Peers |->
                   [e \in EventTypes |-> Older(since[p][e], Debounce)]]
    /\ heard' = [p \in Peers |->
                   IF Linked(p) THEN 0 ELSE Older(heard[p], AgeMax)]

ClockTick ==
    /\ tick.at = 0
    /\ host = HostIdle
    /\ conn.slot # 0 => conn.age < ProbeTimeout
    /\ tick' = [at |-> 1, phase |-> "eval"]
    /\ Ageing
    /\ conn' = IF conn.slot = 0 THEN conn ELSE [conn EXCEPT !.age = @ + 1]
    /\ UNCHANGED <<host, http, scanning, rescan, pairing, timeout, synced,
                   rows, bonds, link, near, stalls>>

NextSlot == tick' = IF tick.at = MaxSlots THEN TickIdle
                    ELSE [at |-> tick.at + 1, phase |-> "eval"]

\* A held link is definitive: the slot is present and just seen.
Refreshed(s) ==
    IF ~s.connected THEN s
    ELSE [s EXCEPT !.seen = 0, !.present = TRUE,
                   !.ack = IF s.present THEN @ ELSE FALSE]

ReprobeDue(s) == ~s.present /\ ~s.probing /\ ~pairing /\ s.probed >= ReprobeOut
StaleProbeDueAnyTime(s) == /\ s.present /\ ~s.probing            \* mutant
                           /\ s.seen > ProbeAfter /\ s.probed >= ProbeCooldown
StaleProbeDue(s) == /\ s.present /\ ~s.probing
                    /\ s.seen > ProbeAfter /\ s.seen <= timeout
                    /\ s.probed >= ProbeCooldown
OutDue(s) == s.present /\ ~s.probing /\ s.seen > timeout

\* Only emit OUT if an IN was recorded before, and the wall clock is known.
OutRecorded(s) == s.ack /\ synced

\* The part of an iteration after the catch-up IN, with slot i holding s.
TickRest(i, s) ==
    \/ /\ ~s.connected
       /\ ReprobeDue(s) \/ StaleProbeDue(s)
       /\ ProbeStart(i, s)
       /\ NextSlot
    \/ /\ ~s.connected /\ OutDue(s)
       /\ IF OutRecorded(s)
          THEN /\ slot' = [slot EXCEPT ![i] = [s EXCEPT !.present = FALSE]]
               /\ tick' = [at |-> i, phase |-> "out"]
          ELSE /\ slot' = [slot EXCEPT ![i] = [s EXCEPT !.present = FALSE, !.ack = FALSE]]
               /\ NextSlot
       /\ UNCHANGED <<scanning, rescan, conn>>
    \/ /\ s.connected \/ ~(ReprobeDue(s) \/ StaleProbeDue(s) \/ OutDue(s))
       /\ slot' = [slot EXCEPT ![i] = s]
       /\ NextSlot
       /\ UNCHANGED <<scanning, rescan, conn>>

TickEval(i) ==
    LET s == Refreshed(slot[i]) IN
    /\ tick.at = i /\ tick.phase = "eval"
    /\ \/ /\ ~Used(i)
          /\ NextSlot
          /\ UNCHANGED <<slot, scanning, rescan, conn>>
       \/ /\ Used(i) /\ s.present /\ ~s.ack /\ synced
          /\ slot' = [slot EXCEPT ![i] = s]
          /\ tick' = [tick EXCEPT !.phase = "in"]
          /\ UNCHANGED <<scanning, rescan, conn>>
       \/ /\ Used(i) /\ ~(s.present /\ ~s.ack /\ synced)
          /\ TickRest(i, s)
    /\ UNCHANGED <<host, http, pairing, timeout, synced, since, rows,
                   bonds, link, near, heard, stalls>>

TickIn(i) ==
    /\ tick.at = i /\ tick.phase = "in"
    /\ RecordEvent("tick", "in", slot[i].addr)
    /\ TickRest(i, [slot[i] EXCEPT !.ack = TRUE])
    /\ UNCHANGED <<host, http, pairing, timeout, synced, bonds, link, near, heard>>

TickOutAckKept(i) ==                                            \* mutant
    /\ tick.at = i /\ tick.phase = "out"
    /\ RecordEvent("tick", "out", slot[i].addr)
    /\ NextSlot
    /\ UNCHANGED <<slot, host, http, scanning, rescan, pairing, timeout, synced,
                   bonds, link, conn, near, heard>>

TickOut(i) ==
    /\ tick.at = i /\ tick.phase = "out"
    /\ RecordEvent("tick", "out", slot[i].addr)
    /\ slot' = [slot EXCEPT ![i].ack = FALSE]
    /\ NextSlot
    /\ UNCHANGED <<host, http, scanning, rescan, pairing, timeout, synced,
                   bonds, link, conn, near, heard>>

(***************************************************************************)
(* dd_storage_event_append waits for the lock of the log, which            *)
(* dd_storage_event_iter holds while a download sends the rows, for up to  *)
(* 30 s and more; so does the scan of the log of HostAllocate.  The stamps *)
(* of the debounce are those of the entry into dd_event_record.  Time goes *)
(* on for everybody else; the timer fires unless it is the tick that waits,*)
(* and then the periods that it missed are taken as one with the rest of   *)
(* the tick.                                                               *)
(***************************************************************************)
\* The probe's callback passed a pointer into the slot, the others a copy.
HostPeer == IF host.then = "probe" THEN slot[host.slot].addr ELSE host.peer

HostWaits ==
    /\ host.slot # 0 /\ append.host = NoPeer
    /\ Stamp("in", HostPeer)
    /\ append' = [append EXCEPT !.host = HostPeer]
    /\ UNCHANGED <<codeVars, rows, radioVars, waits>>

TickWaits(i) ==
    /\ tick.at = i /\ tick.phase # "eval" /\ append.tick = NoPeer
    /\ Stamp(tick.phase, slot[i].addr)
    /\ append' = [append EXCEPT !.tick = slot[i].addr]
    /\ UNCHANGED <<codeVars, rows, radioVars, waits>>

\* A row has waited for as long as the debounce.
Overdue ==
    \/ append.host # NoPeer /\ since'[append.host]["in"] = Debounce
    \/ append.tick # NoPeer /\ since'[append.tick][tick.phase] = Debounce

Stalled ==
    /\ host # HostIdle \/ tick.at # 0
    /\ host = HostIdle \/ append.host # NoPeer \/ host.then = "alloc"
    /\ tick.at = 0 \/ append.tick # NoPeer
    /\ host = HostIdle /\ conn.slot # 0 => conn.age < ProbeTimeout
    /\ tick' = IF tick.at = 0 THEN [at |-> 1, phase |-> "eval"] ELSE tick
    /\ Ageing
    /\ conn' = IF conn.slot = 0 THEN conn ELSE [conn EXCEPT !.age = Older(@, ProbeTimeout)]
    /\ waits' = IF Overdue THEN "long" ELSE IF waits = "none" THEN "short" ELSE waits
    /\ UNCHANGED <<host, http, scanning, rescan, pairing, timeout, synced,
                   rows, append, bonds, link, near>>

Stall == HostWaits \/ (\E i \in Slots : TickWaits(i)) \/ Stalled

(***************************************************************************)
(* The other esp_timer callback of the engine: scan_restart_cb.  It shares *)
(* the task with the tick, so it never runs inside one.  ble_gap_ext_disc  *)
(* fails while a connect procedure holds the radio, and may be refused     *)
(* otherwise, too: start_scanning logs that, and nothing tries again       *)
(* before the next probe has ended.                                        *)
(***************************************************************************)
Started == {"on"} \cup IF "hcierror" \in Features THEN {"refused"} ELSE {}

ScanRestart ==
    /\ rescan /\ tick.at = 0
    /\ rescan' = FALSE
    /\ IF scanning = "on" \/ conn.slot # 0 THEN UNCHANGED scanning
       ELSE scanning' \in Started
    /\ UNCHANGED <<slot, tick, host, http, pairing, timeout, synced, since, rows,
                   bonds, link, conn, near, heard, stalls>>

(***************************************************************************)
(* GAP callbacks, on the host task.                                        *)
(***************************************************************************)
\* disc_event_cb: an advertisement of p was received.
Advertised(p) ==
    /\ host = HostIdle
    /\ scanning = "on" /\ p \in near
    /\ SeenAt(slot, p) # 0
    /\ SeenThen(slot, p, "none")
    /\ Contact(p)
    /\ UNCHANGED <<tick, http, scanning, pairing, timeout, synced, since, rows,
                   bonds, link, conn, near, stalls>>

\* probe_event_cb, CONNECT with status 0.  The slot is the one the probe was
\* started for, whatever it holds by now.
Answered(i, h) == [slot EXCEPT ![i].handle = h, ![i].connected = TRUE,
                               ![i].probing = FALSE]

ProbeConnected(h) ==
    LET i == conn.slot
    IN  /\ host = HostIdle
        /\ i # 0
        /\ conn.peer \in near /\ ~Linked(conn.peer)
        /\ link[h] = NoLink
        /\ link' = [link EXCEPT ![h] = [peer |-> conn.peer, via |-> "probe",
                                           slot |-> i, closing |-> FALSE]]
        /\ conn' = NoConn
        /\ SeenThen(Answered(i, h), slot[i].addr, "probe")
        /\ Contact(conn.peer)
        /\ UNCHANGED <<tick, http, scanning, pairing, timeout, synced, since, rows,
                       bonds, near, stalls>>

\* probe_event_cb, CONNECT with another status: the duration ran out or, earlier,
\* the controller gave up.
ProbeEndedProbingKept(s) == [s EXCEPT !.probed = 0]             \* mutant
ProbeEnded(s) == [s EXCEPT !.probing = FALSE, !.probed = 0]

ProbeFailed ==
    LET i == conn.slot IN
    /\ host = HostIdle
    /\ i # 0
    /\ conn.age = ProbeTimeout \/ "hcierror" \in Features
    /\ conn' = NoConn
    /\ slot' = [slot EXCEPT ![i] = ProbeEnded(@)]
    /\ rescan' = TRUE
    /\ UNCHANGED <<tick, host, http, scanning, pairing, timeout, synced, since, rows,
                   bonds, link, near, heard, stalls>>

\* probe_event_cb, DISCONNECT: ignored unless the slot still holds the handle.
LinkDroppedMarkKept(s) ==                                       \* mutant
    [s EXCEPT !.handle = NoHandle, !.probing = FALSE, !.seen = 0, !.probed = 0]
LinkDropped(s) ==
    [s EXCEPT !.handle = NoHandle, !.probing = FALSE, !.connected = FALSE,
              !.seen = 0, !.probed = 0]

ProbeLinkDown(h) ==
    LET i == link[h].slot IN
    /\ host = HostIdle
    /\ link[h].via = "probe"
    /\ IF slot[i].handle = h
       THEN /\ slot' = [slot EXCEPT ![i] = LinkDropped(@)]
            /\ rescan' = TRUE
       ELSE UNCHANGED <<slot, rescan>>
    /\ link' = [link EXCEPT ![h] = NoLink]
    /\ Contact(link[h].peer)
    /\ UNCHANGED <<tick, host, http, scanning, pairing, timeout, synced, since, rows,
                   bonds, conn, near, stalls>>

\* gap_event_cb, CONNECT: a phone connected to the HID advertisement.  The
\* whitelist lets strangers in only in the pairing window or without bonds.
HidConnected(p, h) ==
    /\ host = HostIdle
    /\ p \in near /\ ~Linked(p)
    /\ p \in bonds \/ pairing \/ bonds = {}
    /\ link[h] = NoLink
    /\ link' = [link EXCEPT ![h] = [peer |-> p, via |-> "hid", slot |-> 0,
                                       closing |-> FALSE]]
    /\ SeenThen(slot, p, "hid")
    /\ Contact(p)
    /\ UNCHANGED <<tick, http, scanning, pairing, timeout, synced, since, rows,
                   bonds, conn, near, stalls>>

\* gap_event_cb, DISCONNECT: the slot is found by address.
UnlinkedMarkKept(s) == [s EXCEPT !.seen = 0]                    \* mutant
Unlinked(s) == [s EXCEPT !.connected = FALSE, !.seen = 0]

HidDisconnected(h) ==
    /\ host = HostIdle
    /\ link[h].via = "hid"
    /\ slot' = [i \in Slots |->
                  IF slot[i].addr = link[h].peer THEN Unlinked(slot[i]) ELSE slot[i]]
    /\ link' = [link EXCEPT ![h] = NoLink]
    /\ Contact(link[h].peer)
    /\ UNCHANGED <<tick, host, http, scanning, rescan, pairing, timeout, synced,
                   since, rows, bonds, conn, near, stalls>>

\* gap_event_cb, ENC_CHANGE with status 0: a bonded phone resumed its link, or
\* a new one finished pairing and was stored.  The bond list is read, and then
\* the log is scanned for the last rows.  A pairing takes a human seconds, so
\* none fits between the two halves of a revoke.
EncChanged(h) ==
    LET p == link[h].peer IN
    /\ host = HostIdle
    /\ link[h].via = "hid" /\ ~link[h].closing
    /\ \/ p \in bonds /\ UNCHANGED bonds
       \/ /\ p \notin bonds /\ pairing /\ http.op # "revoke"
          /\ Cardinality(bonds) < MaxBonds
          /\ bonds' = bonds \cup {p}
    /\ host' = [HostIdle EXCEPT !.then = "alloc", !.bonded = bonds']
    /\ UNCHANGED <<slot, tick, http, scanning, rescan, pairing, timeout, synced,
                   logVars, link, conn, near, heard, stalls>>

\* The rest of ENC_CHANGE: slots for the bonds read before the scan, and the
\* pairing window is closed, whichever phone it was opened for.
HostAllocate ==
    /\ host.then = "alloc"
    /\ slot' \in Preallocations(slot, host.bonded, rows)
    /\ pairing' = FALSE
    /\ host' = HostIdle
    /\ UNCHANGED <<tick, http, scanning, rescan, timeout, synced, logVars, radioVars, stalls>>

\* gap_event_cb, REPEAT_PAIRING: the old bond is deleted in either case.
RepeatPairing(h) ==
    /\ host = HostIdle
    /\ link[h].via = "hid" /\ ~link[h].closing
    /\ link[h].peer \in bonds
    /\ bonds' = bonds \ {link[h].peer}
    /\ UNCHANGED <<codeVars, logVars, link, conn, near, heard, stalls>>

\* presence_seen_addr after a blocked dd_event_record, and the callback's rest.
HostRecord ==
    /\ host.slot # 0
    /\ RecordEvent("host", "in", HostPeer)
    /\ AfterSeen([slot EXCEPT ![host.slot].ack = TRUE], host.peer, host.then)
    /\ host' = HostIdle
    /\ UNCHANGED <<tick, http, scanning, pairing, timeout, synced, radioVars>>

(***************************************************************************)
(* The HTTP handlers, one at a time on the httpd task.                     *)
(***************************************************************************)
\* dd_ble_bond_revoke, first half: the peer's links are told to terminate (they
\* go down later, and do nothing else until then) and the bond is deleted.
RevokeBond(p) ==
    /\ http = HttpIdle
    /\ p \in bonds
    /\ bonds' = bonds \ {p}
    /\ link' = [h \in Handles |-> IF link[h].peer = p
                                  THEN [link[h] EXCEPT !.closing = TRUE] ELSE link[h]]
    /\ http' = [op |-> "revoke", peer |-> p]
    /\ UNCHANGED <<slot, tick, host, scanning, rescan, pairing, timeout, synced,
                   since, rows, conn, near, heard, stalls>>

\* dd_ble_bond_revoke, second half: the slot is zeroed.
RevokeSlot ==
    /\ http.op = "revoke"
    /\ slot' = [i \in Slots |-> IF slot[i].addr = http.peer THEN FreeSlot ELSE slot[i]]
    /\ http' = HttpIdle
    /\ UNCHANGED <<tick, host, scanning, rescan, pairing, timeout, synced, since,
                   rows, radioVars, stalls>>

\* events_wipe_post, first half: dd_storage_event_wipe.
WipeRows ==
    /\ http = HttpIdle
    /\ rows' = [p \in Peers |-> NoRows]
    /\ http' = [op |-> "wipe", peer |-> NoPeer]
    /\ UNCHANGED <<slot, tick, host, scanning, rescan, pairing, timeout, synced,
                   since, radioVars, stalls>>

\* events_wipe_post, second half: dd_ble_presence_reset_events.
ResetEvents ==
    /\ http.op = "wipe"
    /\ slot' = [i \in Slots |-> IF Used(i) /\ slot[i].present
                                THEN [slot[i] EXCEPT !.ack = FALSE] ELSE slot[i]]
    /\ http' = HttpIdle
    /\ UNCHANGED <<tick, host, scanning, rescan, pairing, timeout, synced, since,
                   rows, radioVars, stalls>>

\* dd_ble_pairing_start.
PairingStart ==
    /\ http = HttpIdle
    /\ ~pairing
    /\ pairing' = TRUE
    /\ UNCHANGED <<slot, tick, host, http, scanning, rescan, timeout, synced,
                   logVars, radioVars, stalls>>

\* dd_ble_pairing_cancel from the Web UI, or the window's deadline.
PairingEnd ==
    /\ pairing
    /\ pairing' = FALSE
    /\ UNCHANGED <<slot, tick, host, http, scanning, rescan, timeout, synced,
                   logVars, radioVars, stalls>>

\* dd_ble_set_presence_timeout_s, clamped to the two bounds.
SetTimeout(t) ==
    /\ http = HttpIdle
    /\ t # timeout
    /\ timeout' = t
    /\ UNCHANGED <<slot, tick, host, http, scanning, rescan, pairing, synced,
                   logVars, radioVars, stalls>>

(***************************************************************************)
(* Wall clock, power and phones.                                           *)
(***************************************************************************)
\* SNTP's on_sync.
ClockSynced ==
    /\ ~synced
    /\ synced' = TRUE
    /\ UNCHANGED <<slot, tick, host, http, scanning, rescan, pairing, timeout,
                   logVars, radioVars, stalls>>

\* dd_time_set_ntp_server: the clock counts as unsynced until the next answer.
NtpServerChanged ==
    /\ http = HttpIdle
    /\ synced
    /\ synced' = FALSE
    /\ UNCHANGED <<slot, tick, host, http, scanning, rescan, pairing, timeout,
                   logVars, radioVars, stalls>>

\* A restart up to on_sync: RAM and links are lost, bonds and rows stay.
Boot ==
    /\ slot' \in Preallocations([i \in Slots |-> FreeSlot], bonds, rows)
    /\ tick' = TickIdle
    /\ host' = HostIdle
    /\ http' = HttpIdle
    /\ scanning' \in Started
    /\ rescan' = FALSE
    /\ pairing' = FALSE
    /\ synced' = FALSE
    /\ since' = [p \in Peers |-> [e \in EventTypes |-> Debounce]]
    /\ link' = [h \in Handles |-> NoLink]
    /\ conn' = NoConn
    /\ append' = NoAppend
    /\ UNCHANGED <<timeout, rows, bonds, near, heard, waits>>

Moves(p) ==
    /\ near' = IF p \in near THEN near \ {p} ELSE near \cup {p}
    /\ UNCHANGED <<codeVars, logVars, bonds, link, conn, heard, stalls>>

-----------------------------------------------------------------------------
Init ==
    /\ bonds \in {B \in SUBSET Peers : Cardinality(B) <= MaxBonds}
    /\ rows = [p \in Peers |-> NoRows]
    /\ slot \in Preallocations([i \in Slots |-> FreeSlot], bonds, rows)
    /\ tick = TickIdle
    /\ host = HostIdle
    /\ http = HttpIdle
    /\ scanning \in Started
    /\ rescan = FALSE
    /\ pairing = FALSE
    /\ timeout \in {TimeoutMin, TimeoutMax}
    /\ synced = ("lateclock" \notin Features)
    /\ since = [p \in Peers |-> [e \in EventTypes |-> Debounce]]
    /\ link = [h \in Handles |-> NoLink]
    /\ conn = NoConn
    /\ near \in SUBSET Peers
    /\ heard = [p \in Peers |-> AgeMax]
    /\ append = NoAppend
    /\ waits = "none"

Tick == \E i \in Slots : TickEval(i) \/ TickIn(i) \/ TickOut(i)

Radio ==
    \/ \E p \in Peers : Advertised(p)
    \/ ProbeFailed
    \/ HostRecord
    \/ HostAllocate
    \/ \E h \in Handles : ProbeConnected(h) \/ ProbeLinkDown(h)
    \/ /\ "hid" \in Features
       /\ \E h \in Handles : \/ \E p \in Peers : HidConnected(p, h)
                             \/ HidDisconnected(h)
                             \/ EncChanged(h)
    \/ "repeat" \in Features /\ \E h \in Handles : RepeatPairing(h)

Admin ==
    \/ "revoke" \in Features /\ \E p \in Peers : RevokeBond(p)
    \/ RevokeSlot
    \/ "wipe" \in Features /\ WipeRows
    \/ ResetEvents
    \/ "pair" \in Features /\ PairingStart
    \/ PairingEnd
    \/ "timeout" \in Features /\ \E t \in TimeoutMin .. TimeoutMax : SetTimeout(t)
    \/ "ntp" \in Features /\ NtpServerChanged

World ==
    \/ ClockSynced
    \/ "reboot" \in Features /\ Boot
    \/ \E p \in Peers : Moves(p)

Next ==
    \/ ClockTick \/ Tick \/ ScanRestart \/ Radio \/ Admin \/ World
    \/ "stall" \in Features /\ Stall

Spec == Init /\ [][Next]_vars

(***************************************************************************)
(* Fairness.  The timers fire, a task that was blocked resumes, NimBLE     *)
(* ends every connect procedure within its duration, and a link to a phone *)
(* out of range is dropped by its supervision timeout (strongly fair: the  *)
(* host task takes its events in order, so a callback in front of one only *)
(* delays it).  A phone in range that is probed again and again answers    *)
(* again and again (it may stay silent for any number of probes, and never *)
(* has to advertise).                                                      *)
(***************************************************************************)
Answers(p) == conn.peer = p /\ \E h \in Handles : ProbeConnected(h)
LinkLost(h) == /\ link[h].peer # NoPeer /\ link[h].peer \notin near
               /\ ProbeLinkDown(h) \/ HidDisconnected(h)

Fairness ==
    /\ SF_vars(ClockTick)
    /\ WF_vars(Tick)
    /\ WF_vars(ScanRestart)
    /\ WF_vars(HostRecord \/ HostAllocate)
    /\ SF_vars(ProbeFailed \/ \E p \in Peers : Answers(p))
    /\ \A h \in Handles : SF_vars(LinkLost(h))
    /\ \A p \in Peers : SF_vars(Answers(p))

FairSpec == Spec /\ Fairness
-----------------------------------------------------------------------------
(***************************************************************************)
(* Properties.                                                             *)
(***************************************************************************)
\* The type of every variable.
TypeOK ==
    /\ slot \in [Slots -> SlotRec]
    /\ tick \in TickRec
    /\ host \in HostRec
    /\ http \in HttpRec
    /\ scanning \in {"on", "off", "refused"}
    /\ rescan \in BOOLEAN
    /\ pairing \in BOOLEAN
    /\ timeout \in TimeoutMin .. TimeoutMax
    /\ synced \in BOOLEAN
    /\ since \in [Peers -> [EventTypes -> 0 .. Debounce]]
    /\ rows \in [Peers -> RowsRec]
    /\ bonds \in SUBSET Peers
    /\ link \in [Handles -> LinkRec]
    /\ conn \in ConnRec
    /\ near \in SUBSET Peers
    /\ heard \in [Peers -> 0 .. AgeMax]
    /\ append \in AppendRec
    /\ waits \in {"none", "short", "long"}

\* No task is in the middle of something.
Quiet == tick.phase = "eval" /\ host = HostIdle /\ http = HttpIdle

Present(p) == \E i \in Slots : slot[i].addr = p /\ slot[i].present
Connected(p) == \E i \in Slots : slot[i].addr = p /\ slot[i].connected

\* A probe stops the scanner; whatever becomes of the probe (refused, failed,
\* answered, aborted by an error, its slot revoked meanwhile), the scanner is
\* running, or armed to restart, or a callback that restarts it is still to come,
\* or the controller refused the last attempt to start it.  Such a refusal is
\* only logged (dd_ble.c:504) and leaves the scanner off until a probe has ended.
ScannerKept == scanning # "off" \/ rescan \/ conn.slot # 0 \/ host.then = "probe"

\* `probing' suppresses both the next probe and the OUT, so a slot that has it
\* set must own the connect procedure whose end will clear it: no interleaving
\* of revoke, re-pairing and late callbacks leaves a slot probing for ever.
ProbingOwnsConn == \A i \in Slots : slot[i].probing => conn.slot = i

\* No two slots hold the same peer, although three tasks claim and free slots.
OneSlotPerPeer ==
    \A i, j \in Slots : Used(i) /\ slot[i].addr = slot[j].addr => i = j

\* A slot that stays present without a link goes OUT at the latest one probe
\* and one tick after the timeout, however probes, pairing windows and changes
\* of the timeout fall, as long as no task has waited for the log.
PromptOut ==
    waits = "none" =>
        \A i \in Slots : slot[i].present /\ ~slot[i].connected => slot[i].seen < AgeMax

\* What a present slot tells the user is true: the device had radio contact with
\* that very peer no longer ago than PromptOut's bound, as long as no task has
\* waited for the log and the device has not restarted: Boot takes the presence
\* of the peers from the log, and hears nothing.
PresenceIsTrue ==
    waits = "none" =>
        \A i \in Slots : Used(i) /\ slot[i].present => heard[slot[i].addr] < AgeMax

\* Once the tasks are at rest, a slot marked connected has a live link to its
\* own peer (dd_ble.c:96).  A stale mark would keep the peer IN for ever.
ConnectedMeansLinked ==
    Quiet => \A i \in Slots : Used(i) /\ slot[i].connected => Linked(slot[i].addr)

\* Every bonded peer has a presence slot (dd_ble.c:671), except while the slots
\* are being given out.
BondedTracked == host.then # "alloc" => bonds \subseteq {slot[i].addr : i \in Slots}

\* An OUT row directly follows an IN row of the same peer (dd_ble.c:429), as long
\* as no task has waited for the log: an IN that was taken late can be followed by
\* an OUT, a return, and an IN within the debounce, which is dropped.
NoOrphanOut ==
    waits = "none" => \A p \in Peers : rows[p].last = "out" => rows[p].prior = "in"

\* An IN row never directly follows an IN row of the same peer, although the
\* host task and the tick may both find the IN due and record it, one of them
\* while the other waits for the log: the debounce drops the second, unless the
\* first has waited for as long as the debounce (dd_event.c:185).
NoDoubleIn ==
    waits # "long" => \A p \in Peers : ~(rows[p].last = "in" /\ rows[p].prior = "in")

\* When a tracked peer is absent, its attendance is closed: even if the rows had
\* to wait for the log, for less than the debounce.
AbsentMeansClosed ==
    waits # "long" /\ Quiet =>
        \A i \in Slots : Used(i) /\ ~slot[i].present => rows[slot[i].addr].last # "in"

\* A phone that left for good is shown absent in the end, and stays so: no probe,
\* late callback or stale link mark keeps it in.
DepartureNoticed ==
    \A p \in Peers : <>[](p \notin near) => <>[]~Present(p)

\* A bonded phone that came back for good is noticed again and again although it
\* never advertises, while the other phones stay away: the re-probes of the absent
\* slots, which share one connect procedure, do not starve it.
ReturnNoticed ==
    \A p \in Peers : <>[](near = {p} /\ p \in bonds) => []<>Present(p)

\* The tick never takes a peer with a live link for gone: "while connected we treat
\* the peer as definitely present, no need to probe / no OUT timer" (dd_ble.c:863).
NoOutWhileLinked ==
    [][\A i \in Slots :
         tick.phase # "out" /\ tick' = [at |-> i, phase |-> "out"]
             => ~Linked(slot[i].addr)]_vars

=============================================================================
