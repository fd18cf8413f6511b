---------------------------- MODULE PresenceProofs ----------------------------
(***************************************************************************)
(* Safety of the attendance engine for any number of phones, slots and     *)
(* links and any timer values.                                             *)
(*                                                                         *)
(* Few of the properties are inductive by themselves.  The invariant is    *)
(* the conjunction                                                         *)
(*   TypeOK /\ LinksHavePeers          (Typed)                             *)
(*   ScannerKept                                                           *)
(*   ProbingOwnsConn /\ SeenBounded /\ FreeIsAbsent          (Timed)       *)
(*   OneSlotPerPeer                                                        *)
(*   Tracked, if there are slots for all phones                            *)
(*   Visited /\ Truthful, if in addition no bond is revoked, and the device *)
(*     does not restart                                                    *)
(*   Alternating, if nothing disturbs the recording of rows, until one has *)
(*     waited for the log for as long as the debounce (UntilLong)          *)
(* The type of `bonds' needs LinksHavePeers.                               *)
(* PromptOut follows from SeenBounded, which says how old a slot may be    *)
(* while its probe runs, between ticks, and during a tick that has not     *)
(* come to it yet; and SeenBounded needs FreeIsAbsent, because the tick    *)
(* does not look at free slots.                                            *)
(***************************************************************************)
EXTENDS Presence, TLAPS, FiniteSetTheorems, FunctionTheorems, WellFoundedInduction

USE DEF stalls

\* A live link has a peer.
LinksHavePeers == \A h \in Handles : link[h].via # "none" => link[h].peer \in Peers

\* The tick in progress has not yet decided about slot i.
Pending(i) == tick.at # 0 /\ (i > tick.at \/ (i = tick.at /\ tick.phase # "out"))

\* How far the age of slot i may have grown by now.
SeenBound(i) ==
    IF slot[i].probing THEN TimeoutMax + conn.age
    ELSE IF Pending(i) THEN TimeoutMax + ProbeTimeout + 1
    ELSE TimeoutMax + ProbeTimeout

SeenBounded ==
    waits = "none" =>
        \A i \in Slots : slot[i].present /\ ~slot[i].connected => slot[i].seen <= SeenBound(i)

\* A free slot is not present: the tick does not look at free slots.
FreeIsAbsent == \A i \in Slots : slot[i].present => Used(i)

-----------------------------------------------------------------------------
(***************************************************************************)
(* Facts about the operators on slots.                                     *)
(***************************************************************************)
\* The lowest element of a nonempty set of numbers is one of its elements.
LEMMA LowestIn ==
  ASSUME NEW S \in SUBSET Nat, S # {}
  PROVE  Lowest(S) \in S
<1>1. PICK m \in S : \A k \in S : <<k, m>> \notin OpToRel(<, Nat)
  BY WFMin, NatLessThanWellFounded, Zenon
<1>2. \A k \in S : ~(k < m)
  BY <1>1, Zenon DEF OpToRel
<1>3. \A k \in S : m <= k
  BY <1>2
<1> QED
  BY <1>3, Zenon DEF Lowest

\* The ends of the ranges of the ages.
LEMMA Ages ==
  /\ AgeMax \in Nat
  /\ 0 \in 0 .. AgeMax /\ AgeMax \in 0 .. AgeMax
  /\ 0 \in 0 .. ReprobeOut /\ ReprobeOut \in 0 .. ReprobeOut
  /\ 0 \in 0 .. ProbeTimeout
  /\ 0 \in 0 .. Debounce /\ Debounce \in 0 .. Debounce
BY TimesAssumption DEF AgeMax

\* presence_seen_addr picks the peer's own slot or a free one.
LEMMA SeenAtFacts ==
  ASSUME NEW f \in [Slots -> SlotRec], NEW p
  PROVE  /\ SeenAt(f, p) \in Slots \cup {0}
         /\ SeenAt(f, p) # 0 => /\ p # NoPeer
                                /\ f[SeenAt(f, p)].addr \in {p, NoPeer}
         /\ SeenAt(f, p) # 0 /\ f[SeenAt(f, p)].addr # p =>
              p \in bonds /\ \A i \in Slots : f[i].addr # p
<1> DEFINE own == {i \in Slots : f[i].addr = p}
           free == {i \in Slots : f[i].addr = NoPeer}
<1>1. own \in SUBSET Nat /\ free \in SUBSET Nat
  BY SizesAssumption DEF Slots
<1>2. (own # {} => Lowest(own) \in own) /\ (free # {} => Lowest(free) \in free)
  BY <1>1, LowestIn
<1>3. SeenAt(f, p) = IF p = NoPeer THEN 0
                     ELSE IF own # {} THEN Lowest(own)
                     ELSE IF free # {} /\ p \in bonds THEN Lowest(free)
                     ELSE 0
  BY DEF SeenAt
<1> HIDE DEF own, free
<1>4. /\ \A i \in own : i \in Slots /\ f[i].addr = p
      /\ \A i \in free : i \in Slots /\ f[i].addr = NoPeer
      /\ own = {} => \A i \in Slots : f[i].addr # p
  BY DEF own, free
<1>5. 0 \notin Slots
  BY SizesAssumption DEF Slots
<1> QED
  BY <1>2, <1>3, <1>4, <1>5

\* What presence_seen_addr does to the slots: it sets the age of one slot to zero,
\* and when it claims a free one it clears `probing'.
LEMMA SeenSlotsFacts ==
  ASSUME NEW f \in [Slots -> SlotRec], NEW p \in Peers \cup {NoPeer}
  PROVE  /\ SeenSlots(f, p) \in [Slots -> SlotRec]
         /\ \A i \in Slots : SeenSlots(f, p)[i] # f[i] =>
              /\ SeenSlots(f, p)[i].seen = 0
              /\ SeenSlots(f, p)[i].addr # NoPeer
              /\ SeenSlots(f, p)[i].connected = f[i].connected
              /\ SeenSlots(f, p)[i].probing => f[i].probing
              /\ \/ SeenSlots(f, p)[i].addr = f[i].addr
                 \/ /\ SeenSlots(f, p)[i].addr = p
                    /\ \A j \in Slots : f[j].addr # p
                    /\ i = SeenAt(f, p)
<1> DEFINE k == SeenAt(f, p)
           base == IF f[k].addr = p THEN f[k] ELSE Claimed(f[k], p)
           new == [base EXCEPT !.seen = 0, !.present = TRUE]
<1>1. \A i \in Slots : SeenSlots(f, p)[i] = IF i # k THEN f[i] ELSE new
  BY DEF SeenSlots
<1>2. /\ k # 0 => k \in Slots /\ p \in Peers
      /\ k # 0 /\ f[k].addr # p => \A j \in Slots : f[j].addr # p
  BY SeenAtFacts
<1>3. CASE k = 0
  <2>1. \A i \in Slots : SeenSlots(f, p)[i] = f[i]
    BY <1>1, <1>3, SizesAssumption DEF Slots
  <2>2. SeenSlots(f, p) = [i \in Slots |-> SeenSlots(f, p)[i]]
    BY DEF SeenSlots
  <2> QED
    BY <2>1, <2>2
<1>4. CASE k # 0
  <2>1. f[k] \in SlotRec
    BY <1>2, <1>4
  <2>2. base \in SlotRec /\ base.connected = f[k].connected /\ base.addr = p
        /\ (base.probing => f[k].probing)
    <3>1. CASE f[k].addr = p
      BY <2>1, <3>1
    <3>2. CASE f[k].addr # p
      <4>1. base = Claimed(f[k], p)
        BY <3>2
      <4> QED
        BY <1>2, <1>4, <2>1, <4>1, Ages DEF Claimed, SlotRec
    <3> QED
      BY <3>1, <3>2
  <2> HIDE DEF base
  <2>a. p # NoPeer
    BY <1>2, <1>4, PeersAssumption
  <2>3. new \in SlotRec /\ new.seen = 0 /\ new.connected = f[k].connected
        /\ (new.probing => f[k].probing) /\ new.addr = p
    BY <2>2, Ages DEF SlotRec
  <2> HIDE DEF new, k
  <2>4. SeenSlots(f, p) \in [Slots -> SlotRec]
    BY <1>1, <2>3 DEF SeenSlots, k, new, base
  <2> QED
    BY <1>1, <1>2, <1>4, <2>a, <2>3, <2>4 DEF k
<1> QED
  BY <1>3, <1>4

\* MarkConnected changes nothing but `connected', and only sets it.
LEMMA MarkConnectedFacts ==
  ASSUME NEW f \in [Slots -> SlotRec], NEW p
  PROVE  /\ MarkConnected(f, p) \in [Slots -> SlotRec]
         /\ \A i \in Slots :
              /\ MarkConnected(f, p)[i].addr = f[i].addr
              /\ MarkConnected(f, p)[i].seen = f[i].seen
              /\ MarkConnected(f, p)[i].present = f[i].present
              /\ MarkConnected(f, p)[i].probing = f[i].probing
              /\ f[i].connected => MarkConnected(f, p)[i].connected
<1>1. \A i \in Slots : MarkConnected(f, p)[i] =
        IF f[i].addr = p /\ p # NoPeer THEN [f[i] EXCEPT !.connected = TRUE] ELSE f[i]
  BY DEF MarkConnected
<1>2. \A i \in Slots : f[i] \in SlotRec
  OBVIOUS
<1>3. MarkConnected(f, p) \in [Slots -> SlotRec]
  BY <1>2 DEF MarkConnected, SlotRec
<1> QED
  BY <1>1, <1>2, <1>3 DEF SlotRec

\* Pre-allocation leaves used slots alone and fills free ones with distinct peers
\* that had none, just seen or absent.
LEMMA PreallocationsFacts ==
  ASSUME NEW f \in [Slots -> SlotRec], NEW bonded \in SUBSET Peers,
         NEW log \in [Peers -> RowsRec], NEW g \in Preallocations(f, bonded, log)
  PROVE  /\ g \in [Slots -> SlotRec]
         /\ \A i \in Slots : g[i] # f[i] =>
              /\ f[i].addr = NoPeer
              /\ g[i].addr # NoPeer
              /\ g[i].present => g[i].seen = 0
              /\ ~g[i].probing
              /\ \A j \in Slots : f[j].addr # g[i].addr
         /\ \A i, j \in Slots : /\ g[i] # f[i] /\ g[j] # f[j]
                                /\ g[i].addr = g[j].addr
                                => i = j
<1> DEFINE free == {i \in Slots : f[i].addr = NoPeer}
           missing == Untracked(f, bonded)
<1>1. PICK m \in [free -> missing \cup {NoPeer}] :
        /\ \A i, j \in free : m[i] = m[j] /\ m[i] # NoPeer => i = j
        /\ g = [i \in Slots |-> IF i \in free /\ m[i] # NoPeer
                                THEN ResumedSlot(m[i], log) ELSE f[i]]
  BY DEF Preallocations
<1>2. \A p \in missing : p \in Peers /\ p # NoPeer /\ \A j \in Slots : f[j].addr # p
  BY PeersAssumption DEF Untracked
<1>3. ASSUME NEW p \in Peers
      PROVE  /\ ResumedSlot(p, log) \in SlotRec
             /\ ResumedSlot(p, log).addr = p
             /\ ~ResumedSlot(p, log).probing
             /\ ResumedSlot(p, log).present => ResumedSlot(p, log).seen = 0
  BY Ages DEF ResumedSlot, SlotRec
<1> HIDE DEF missing
<1>4. \A i \in Slots : IF i \in free /\ m[i] # NoPeer
                       THEN m[i] \in Peers /\ g[i] = ResumedSlot(m[i], log)
                       ELSE g[i] = f[i]
  BY <1>1, <1>2
<1>5. g \in [Slots -> SlotRec]
  <2>1. \A i \in Slots : g[i] \in SlotRec
    BY <1>3, <1>4
  <2>2. g = [i \in Slots |-> g[i]]
    BY <1>1
  <2> QED
    BY <2>1, <2>2
<1>6. ASSUME NEW i \in Slots, g[i] # f[i]
      PROVE  i \in free /\ m[i] # NoPeer /\ m[i] \in missing /\ g[i] = ResumedSlot(m[i], log)
             /\ g[i].addr = m[i]
  BY <1>1, <1>3, <1>4, <1>6
<1> QED
  BY <1>1, <1>2, <1>3, <1>5, <1>6

-----------------------------------------------------------------------------
(***************************************************************************)
(* What the parts of the actions do to the variables.                      *)
(***************************************************************************)
\* Time passing leaves the ages in their ranges and nothing else of the slots changed.
LEMMA AgeingFacts ==
  ASSUME TypeOK, Ageing
  PROVE  /\ slot' \in [Slots -> SlotRec]
         /\ since' \in [Peers -> [EventTypes -> 0 .. Debounce]]
         /\ heard' \in [Peers -> 0 .. AgeMax]
         /\ \A i \in Slots :
              /\ slot'[i].addr = slot[i].addr
              /\ slot'[i].present = slot[i].present
              /\ slot'[i].ack = slot[i].ack
              /\ slot'[i].probing = slot[i].probing
              /\ slot'[i].connected = slot[i].connected
              /\ slot'[i].handle = slot[i].handle
              /\ slot'[i].seen = Older(slot[i].seen, AgeMax)
<1>a. /\ slot \in [Slots -> SlotRec]
      /\ since \in [Peers -> [EventTypes -> 0 .. Debounce]]
      /\ heard \in [Peers -> 0 .. AgeMax]
  BY DEF TypeOK
<1>d. ASSUME NEW a, NEW cap \in Nat, a \in 0 .. cap
      PROVE  Older(a, cap) \in 0 .. cap
  BY <1>d DEF Older
<1> DEFINE aged(i) == [slot[i] EXCEPT !.seen = Older(slot[i].seen, AgeMax),
                                      !.probed = Older(slot[i].probed, ReprobeOut)]
<1>1. ASSUME NEW i \in Slots
      PROVE  /\ aged(i) \in SlotRec
             /\ aged(i).addr = slot[i].addr /\ aged(i).present = slot[i].present
             /\ aged(i).ack = slot[i].ack /\ aged(i).probing = slot[i].probing
             /\ aged(i).connected = slot[i].connected /\ aged(i).handle = slot[i].handle
             /\ aged(i).seen = Older(slot[i].seen, AgeMax)
  <2>1. slot[i] \in SlotRec /\ slot[i].seen \in 0 .. AgeMax /\ slot[i].probed \in 0 .. ReprobeOut
    BY <1>a DEF SlotRec
  <2>2. Older(slot[i].seen, AgeMax) \in 0 .. AgeMax
        /\ Older(slot[i].probed, ReprobeOut) \in 0 .. ReprobeOut
    BY <2>1, <1>d, Ages, TimesAssumption
  <2> QED
    BY <2>1, <2>2 DEF SlotRec
<1>2. slot' = [i \in Slots |-> aged(i)]
  BY DEF Ageing
<1> HIDE DEF aged
<1>3. since' \in [Peers -> [EventTypes -> 0 .. Debounce]]
  <2>1. \A p \in Peers, e \in EventTypes : Older(since[p][e], Debounce) \in 0 .. Debounce
    BY <1>a, <1>d, TimesAssumption
  <2> QED
    BY <2>1 DEF Ageing
<1>4. heard' \in [Peers -> 0 .. AgeMax]
  <2>1. \A p \in Peers : Older(heard[p], AgeMax) \in 0 .. AgeMax
    BY <1>a, <1>d, Ages
  <2> QED
    BY <2>1, Ages DEF Ageing
<1> QED
  BY <1>1, <1>2, <1>3, <1>4

\* dd_event_record keeps the log, the debounce stamps and the rows that wait well
\* formed.
LEMMA RecordEventType ==
  ASSUME TypeOK, NEW task \in {"host", "tick"}, NEW type \in EventTypes,
         NEW p \in Peers \cup {NoPeer}, RecordEvent(task, type, p)
  PROVE  /\ since' \in [Peers -> [EventTypes -> 0 .. Debounce]]
         /\ rows' \in [Peers -> RowsRec]
         /\ append' \in AppendRec
         /\ waits' = waits
<1>1. /\ since \in [Peers -> [EventTypes -> 0 .. Debounce]]
      /\ rows \in [Peers -> RowsRec]
      /\ append \in AppendRec /\ append[task] \in Peers \cup {NoPeer}
  BY DEF TypeOK, AppendRec
<1>2. ASSUME NEW q \in Peers, Appended(type, q)
      PROVE  rows' \in [Peers -> RowsRec]
  <2>1. CASE UNCHANGED rows
    BY <1>1, <2>1
  <2>2. CASE rows' = [rows EXCEPT ![q] = [prior |-> rows[q].last, last |-> type]]
    BY <1>1, <2>2 DEF RowsRec
  <2> QED
    BY <1>2, <2>1, <2>2 DEF Appended
<1>3. CASE /\ append[task] # NoPeer
           /\ Appended(type, append[task])
           /\ append' = [append EXCEPT ![task] = NoPeer]
           /\ UNCHANGED <<since, waits>>
  <2>1. append' \in AppendRec
    BY <1>1, <1>3 DEF AppendRec
  <2> QED
    BY <1>1, <1>2, <1>3, <2>1
<1>4. CASE /\ append[task] = NoPeer
           /\ Stamp(type, p) /\ Appended(type, p)
           /\ UNCHANGED stalls
  <2>1. p \in Peers /\ since' = [since EXCEPT ![p][type] = 0]
    BY <1>4 DEF Stamp
  <2>2. since' \in [Peers -> [EventTypes -> 0 .. Debounce]]
    BY <1>1, <2>1, Ages
  <2> QED
    BY <1>1, <1>2, <1>4, <2>1, <2>2
<1>5. CASE UNCHANGED <<logVars, stalls>>
  BY <1>1, <1>5 DEF logVars
<1> QED
  BY <1>3, <1>4, <1>5, Zenon DEF RecordEvent

\* dd_event_record itself takes no time.
LEMMA RecordEventWaits ==
  ASSUME NEW task, NEW type, NEW p, RecordEvent(task, type, p)
  PROVE  waits' = waits
BY DEF RecordEvent

\* presence_seen_addr and the rest of its callback: ages only shrink to zero, links
\* are only marked, `probing' is only cleared, and a probe's end is not forgotten.
LEMMA SeenThenFacts ==
  ASSUME TypeOK, NEW f \in [Slots -> SlotRec], NEW p \in Peers \cup {NoPeer},
         NEW then \in {"none", "hid", "probe"}, SeenThen(f, p, then)
  PROVE  /\ slot' \in [Slots -> SlotRec]
         /\ host' \in HostRec
         /\ rescan' \in BOOLEAN
         /\ rescan => rescan'
         /\ then = "probe" => rescan' \/ host'.then = "probe"
         /\ \A i \in Slots :
              /\ slot'[i].probing => f[i].probing
              /\ f[i].connected => slot'[i].connected
              /\ slot'[i].present => f[i].present \/ slot'[i].addr # NoPeer
              /\ \/ slot'[i].seen = 0
                 \/ /\ slot'[i].seen = f[i].seen
                    /\ slot'[i].present = f[i].present
                    /\ slot'[i].probing = f[i].probing
              /\ \/ slot'[i].addr = f[i].addr
                 \/ /\ slot'[i].addr = p
                    /\ \A j \in Slots : f[j].addr # p
                    /\ i = SeenAt(f, p)
<1> DEFINE g == SeenSlots(f, p)
           i0 == SeenAt(f, p)
<1>1. /\ g \in [Slots -> SlotRec]
      /\ \A i \in Slots : g[i] # f[i] =>
              /\ g[i].seen = 0
              /\ g[i].addr # NoPeer
              /\ g[i].connected = f[i].connected
              /\ g[i].probing => f[i].probing
              /\ \/ g[i].addr = f[i].addr
                 \/ /\ g[i].addr = p
                    /\ \A j \in Slots : f[j].addr # p
                    /\ i = i0
  BY SeenSlotsFacts
<1>2. i0 \in Slots \cup {0} /\ 0 \notin Slots
  BY SeenAtFacts, SizesAssumption DEF Slots
<1>3. host \in HostRec /\ rescan \in BOOLEAN
  BY DEF TypeOK
<1>4. \/ /\ i0 # 0
         /\ slot' = g
         /\ host' = [slot |-> i0, peer |-> p, then |-> then, bonded |-> {}]
         /\ rescan' = rescan
      \/ /\ slot' = IF then = "hid" THEN MarkConnected(g, p) ELSE g
         /\ rescan' = (rescan \/ then = "probe")
         /\ host' = host
  BY DEF SeenThen, AfterSeen
<1>5. /\ MarkConnected(g, p) \in [Slots -> SlotRec]
      /\ \A i \in Slots :
              /\ MarkConnected(g, p)[i].addr = g[i].addr
              /\ MarkConnected(g, p)[i].seen = g[i].seen
              /\ MarkConnected(g, p)[i].present = g[i].present
              /\ MarkConnected(g, p)[i].probing = g[i].probing
              /\ g[i].connected => MarkConnected(g, p)[i].connected
  BY <1>1, MarkConnectedFacts
<1> HIDE DEF g, i0
<1>6. /\ slot' \in [Slots -> SlotRec]
      /\ \A i \in Slots :
              /\ slot'[i].addr = g[i].addr
              /\ slot'[i].seen = g[i].seen
              /\ slot'[i].present = g[i].present
              /\ slot'[i].probing = g[i].probing
              /\ g[i].connected => slot'[i].connected
  BY <1>1, <1>4, <1>5
<1>7. /\ host' \in HostRec
      /\ rescan' \in BOOLEAN
      /\ rescan => rescan'
      /\ then = "probe" => rescan' \/ host'.then = "probe"
  <2>1. i0 \in 0 .. MaxSlots
    BY <1>2, SizesAssumption DEF Slots
  <2>2. CASE host' = host /\ rescan' = (rescan \/ then = "probe")
    BY <1>3, <2>2, Zenon
  <2>3. CASE /\ host' = [slot |-> i0, peer |-> p, then |-> then, bonded |-> {}]
             /\ i0 # 0 /\ rescan' = rescan
    <3>1. host' \in HostRec /\ host'.slot = i0 /\ host'.then = then
      BY <2>1, <2>3 DEF HostRec
    <3> QED
      BY <1>3, <2>3, <3>1
  <2> QED
    BY <1>4, <2>2, <2>3
<1> QED
  BY <1>1, <1>6, <1>7 DEF i0

\* presence_probe_start(i) with slot i holding s.
LEMMA ProbeStartFacts ==
  ASSUME TypeOK, NEW i \in Slots, NEW s \in SlotRec, ProbeStart(i, s)
  PROVE  /\ slot' \in [Slots -> SlotRec]
         /\ scanning' \in {"on", "off", "refused"}
         /\ rescan' \in BOOLEAN
         /\ conn' \in ConnRec
         /\ \A j \in Slots : j # i => slot'[j] = slot[j]
         /\ slot'[i].addr = s.addr
         /\ slot'[i].present = s.present
         /\ slot'[i].connected = s.connected
         /\ slot'[i].seen = s.seen
         /\ \/ conn' = conn /\ slot'[i].probing = s.probing
            \/ /\ conn.slot = 0 /\ conn'.slot = i /\ conn'.age = 0
               /\ slot'[i].probing
         /\ \/ scanning' = scanning /\ rescan' = rescan /\ conn' = conn
            \/ rescan'
            \/ conn'.slot # 0
<1>1. /\ slot \in [Slots -> SlotRec] /\ scanning \in {"on", "off", "refused"} /\ rescan \in BOOLEAN
      /\ conn \in ConnRec /\ s.addr \in Peers \cup {NoPeer} /\ 0 \notin Slots
  BY SizesAssumption DEF TypeOK, SlotRec, Slots
<1>2. CASE /\ slot' = [slot EXCEPT ![i] = s]
           /\ UNCHANGED <<scanning, rescan, conn>>
  BY <1>1, <1>2
<1>3. CASE /\ slot' = [slot EXCEPT ![i] = [s EXCEPT !.probed = 0]]
           /\ rescan' = TRUE /\ UNCHANGED <<scanning, conn>>
  BY <1>1, <1>3, Ages DEF SlotRec
<1>4. CASE /\ slot' = [slot EXCEPT ![i] = [s EXCEPT !.handle = NoHandle, !.probed = 0]]
           /\ rescan' = TRUE /\ scanning' = "off" /\ UNCHANGED conn
  BY <1>1, <1>4, Ages DEF SlotRec
<1>5. CASE /\ slot' = [slot EXCEPT ![i] = [s EXCEPT !.handle = NoHandle, !.probing = TRUE]]
           /\ scanning' = "off" /\ UNCHANGED rescan
           /\ conn.slot = 0
           /\ conn' = [slot |-> i, peer |-> s.addr, age |-> 0]
  <2>1. conn' \in ConnRec /\ conn'.slot = i /\ conn'.age = 0
    BY <1>1, <1>5, Ages DEF ConnRec, Slots
  <2>2. slot' \in [Slots -> SlotRec]
    BY <1>1, <1>5 DEF SlotRec
  <2> QED
    BY <1>1, <1>5, <2>1, <2>2 DEF SlotRec
<1> QED
  BY <1>2, <1>3, <1>4, <1>5 DEF ProbeStart

\* A probe that was answered marks its slot connected and no longer probing.
LEMMA AnsweredFacts ==
  ASSUME slot \in [Slots -> SlotRec], NEW i \in Slots, NEW h \in Handles
  PROVE  /\ Answered(i, h) \in [Slots -> SlotRec]
         /\ \A j \in Slots : j # i => Answered(i, h)[j] = slot[j]
         /\ Answered(i, h)[i].addr = slot[i].addr
         /\ Answered(i, h)[i].present = slot[i].present
         /\ Answered(i, h)[i].connected
         /\ ~Answered(i, h)[i].probing
<1> DEFINE s == [slot[i] EXCEPT !.handle = h, !.connected = TRUE, !.probing = FALSE]
<1>1. /\ s \in SlotRec /\ s.addr = slot[i].addr /\ s.present = slot[i].present
      /\ s.connected /\ ~s.probing
  BY DEF SlotRec
<1>2. Answered(i, h) = [slot EXCEPT ![i] = s]
  BY DEF Answered
<1> HIDE DEF s
<1> QED
  BY <1>1, <1>2

\* A held link only sets the age to zero.
LEMMA RefreshedFacts ==
  ASSUME NEW s \in SlotRec
  PROVE  /\ Refreshed(s) \in SlotRec
         /\ Refreshed(s).addr = s.addr
         /\ Refreshed(s).connected = s.connected
         /\ Refreshed(s).probing = s.probing
         /\ ~s.connected => Refreshed(s) = s
<1>1. CASE ~s.connected
  BY <1>1 DEF Refreshed
<1>2. CASE s.connected
  <2>1. Refreshed(s) = [s EXCEPT !.seen = 0, !.present = TRUE,
                                 !.ack = IF s.present THEN s.ack ELSE FALSE]
    BY <1>2 DEF Refreshed
  <2>2. (IF s.present THEN s.ack ELSE FALSE) \in BOOLEAN
    BY DEF SlotRec
  <2> QED
    BY <1>2, <2>1, <2>2, Ages DEF SlotRec
<1> QED
  BY <1>1, <1>2

\* The tick moves on to a slot or ends.
LEMMA NextSlotType ==
  ASSUME TypeOK, tick.at \in Slots, NextSlot
  PROVE  /\ tick' \in TickRec
         /\ tick'.phase = "eval"
         /\ \/ (tick'.at = 0 /\ tick.at = MaxSlots)
            \/ tick'.at = tick.at + 1
<1>1. tick.at # MaxSlots => tick.at + 1 \in 0 .. MaxSlots
  BY SizesAssumption DEF Slots
<1> QED
  BY <1>1, SizesAssumption DEF NextSlot, TickIdle, TickRec

\* The rest of an iteration of the tick, with slot i holding s: when it leaves the
\* slot present, without a link and not probing, its age is within the timeout.
LEMMA TickRestFacts ==
  ASSUME TypeOK, NEW i \in Slots, NEW s \in SlotRec, tick.at = i, TickRest(i, s)
  PROVE  /\ slot' \in [Slots -> SlotRec]
         /\ tick' \in TickRec
         /\ scanning' \in {"on", "off", "refused"}
         /\ rescan' \in BOOLEAN
         /\ conn' \in ConnRec
         /\ \A j \in Slots : j # i => slot'[j] = slot[j]
         /\ slot'[i].addr = s.addr
         /\ slot'[i].connected = s.connected
         /\ slot'[i].seen = s.seen
         /\ slot'[i].present => s.present
         /\ \/ conn' = conn /\ slot'[i].probing = s.probing
            \/ /\ conn.slot = 0 /\ conn'.slot = i /\ conn'.age = 0
               /\ slot'[i].probing
         /\ \/ scanning' = scanning /\ rescan' = rescan /\ conn' = conn
            \/ rescan'
            \/ conn'.slot # 0
         /\ slot'[i].present /\ ~slot'[i].connected =>
              s.probing \/ s.seen <= timeout
         /\ \/ tick'.phase = "eval" /\ ((tick'.at = 0 /\ i = MaxSlots) \/ tick'.at = i + 1)
            \/ tick'.phase = "out" /\ tick'.at = i
<1>1. /\ slot \in [Slots -> SlotRec] /\ scanning \in {"on", "off", "refused"} /\ rescan \in BOOLEAN
      /\ conn \in ConnRec /\ timeout \in Nat /\ s.seen \in Nat
      /\ s.present \in BOOLEAN /\ s.probing \in BOOLEAN /\ s.connected \in BOOLEAN
  BY TimesAssumption DEF TypeOK, SlotRec
<1>2. NextSlot => /\ tick' \in TickRec
                  /\ tick'.phase = "eval" /\ ((tick'.at = 0 /\ i = MaxSlots) \/ tick'.at = i + 1)
  BY NextSlotType
<1>3. CASE /\ ~s.connected
           /\ ReprobeDue(s) \/ StaleProbeDue(s)
           /\ ProbeStart(i, s)
           /\ NextSlot
  <2>1. s.present => s.seen <= timeout
    BY <1>3 DEF ReprobeDue, StaleProbeDue
  <2> QED
    BY <1>2, <1>3, <2>1, ProbeStartFacts
<1>4. CASE /\ ~s.connected /\ OutDue(s) /\ OutRecorded(s)
           /\ slot' = [slot EXCEPT ![i] = [s EXCEPT !.present = FALSE]]
           /\ tick' = [at |-> i, phase |-> "out"]
           /\ UNCHANGED <<scanning, rescan, conn>>
  <2>1. slot' \in [Slots -> SlotRec]
    BY <1>1, <1>4 DEF SlotRec
  <2>2. tick' \in TickRec /\ tick'.at = i /\ tick'.phase = "out"
    BY <1>4, SizesAssumption DEF TickRec, Slots
  <2> QED
    BY <1>1, <1>4, <2>1, <2>2 DEF SlotRec
<1>5. CASE /\ ~s.connected /\ OutDue(s) /\ ~OutRecorded(s)
           /\ slot' = [slot EXCEPT ![i] = [s EXCEPT !.present = FALSE, !.ack = FALSE]]
           /\ NextSlot
           /\ UNCHANGED <<scanning, rescan, conn>>
  <2>1. slot' \in [Slots -> SlotRec]
    BY <1>1, <1>5 DEF SlotRec
  <2> QED
    BY <1>1, <1>2, <1>5, <2>1 DEF SlotRec
<1>6. CASE /\ s.connected \/ ~(ReprobeDue(s) \/ StaleProbeDue(s) \/ OutDue(s))
           /\ slot' = [slot EXCEPT ![i] = s]
           /\ NextSlot
           /\ UNCHANGED <<scanning, rescan, conn>>
  <2>1. s.present /\ ~s.connected => s.probing \/ s.seen <= timeout
    BY <1>1, <1>6 DEF OutDue
  <2>2. slot' \in [Slots -> SlotRec] /\ slot'[i] = s /\ \A j \in Slots : j # i => slot'[j] = slot[j]
    BY <1>1, <1>6
  <2> QED
    BY <1>1, <1>2, <1>6, <2>1, <2>2
<1> QED
  BY <1>3, <1>4, <1>5, <1>6 DEF TickRest

-----------------------------------------------------------------------------
(***************************************************************************)
(* Type correctness.                                                       *)
(***************************************************************************)
Typed == TypeOK /\ LinksHavePeers

\* The initial states are well typed.
LEMMA InitTyped == Init => Typed
<1> SUFFICES ASSUME Init PROVE Typed
  OBVIOUS
<1>1. [i \in Slots |-> FreeSlot] \in [Slots -> SlotRec]
  <2>1. 0 \in Handles
    BY SizesAssumption DEF Handles
  <2> QED
    BY <2>1, Ages DEF FreeSlot, SlotRec
<1>2. bonds \in SUBSET Peers /\ rows \in [Peers -> RowsRec]
  BY DEF Init, NoRows, RowsRec
<1>3. slot \in [Slots -> SlotRec]
  BY <1>1, <1>2, PreallocationsFacts DEF Init
<1>4. /\ tick \in TickRec /\ host \in HostRec /\ http \in HttpRec
  BY SizesAssumption DEF Init, TickIdle, TickRec, HostIdle, HostRec, HttpIdle, HttpRec
<1>5. /\ link \in [Handles -> LinkRec] /\ conn \in ConnRec
      /\ \A h \in Handles : link[h].via = "none"
  BY SizesAssumption, Ages DEF Init, NoLink, LinkRec, NoConn, ConnRec
<1>6. timeout \in TimeoutMin .. TimeoutMax
  BY TimesAssumption DEF Init
<1>7. /\ since \in [Peers -> [EventTypes -> 0 .. Debounce]]
      /\ heard \in [Peers -> 0 .. AgeMax]
  BY Ages DEF Init
<1>8. /\ scanning \in {"on", "off", "refused"}
      /\ append \in AppendRec /\ waits \in {"none", "short", "long"}
  BY DEF Init, Started, NoAppend, AppendRec
<1> QED
  BY <1>2, <1>3, <1>4, <1>5, <1>6, <1>7, <1>8 DEF Init, Typed, TypeOK, LinksHavePeers

\* Every step keeps the state well typed.
LEMMA NextTyped == Typed /\ [Next]_vars => Typed'
<1> SUFFICES ASSUME Typed, [Next]_vars PROVE Typed'
  OBVIOUS
<1> USE DEF Typed
<1>a. /\ slot \in [Slots -> SlotRec] /\ rows \in [Peers -> RowsRec]
      /\ since \in [Peers -> [EventTypes -> 0 .. Debounce]]
      /\ heard \in [Peers -> 0 .. AgeMax] /\ bonds \in SUBSET Peers
      /\ link \in [Handles -> LinkRec] /\ conn \in ConnRec /\ near \in SUBSET Peers
      /\ host \in HostRec /\ tick \in TickRec /\ http \in HttpRec
  BY DEF TypeOK
<1>b. \A i \in Slots : slot[i] \in SlotRec /\ slot[i].addr \in Peers \cup {NoPeer}
  BY <1>a DEF SlotRec
<1>c. 0 \notin Slots /\ \A i \in 0 .. MaxSlots : i # 0 => i \in Slots
  BY SizesAssumption DEF Slots
<1>d. ASSUME NEW a, NEW cap \in Nat, a \in 0 .. cap
      PROVE  Older(a, cap) \in 0 .. cap
  BY <1>d DEF Older
<1>e. \A p : [heard EXCEPT ![p] = 0] \in [Peers -> 0 .. AgeMax]
  BY <1>a, Ages
<1>1. CASE UNCHANGED vars
  BY <1>1 DEF TypeOK, LinksHavePeers, vars
<1>2. CASE ClockTick
  <2>1. /\ slot' \in [Slots -> SlotRec]
        /\ since' \in [Peers -> [EventTypes -> 0 .. Debounce]]
        /\ heard' \in [Peers -> 0 .. AgeMax]
    BY <1>2, AgeingFacts DEF ClockTick
  <2>4. conn' \in ConnRec
    <3>1. CASE conn.slot = 0
      BY <1>2, <1>a, <3>1 DEF ClockTick
    <3>2. CASE conn.slot # 0
      <4>1. conn.age \in 0 .. ProbeTimeout /\ conn.age < ProbeTimeout
        BY <1>2, <1>a, <3>2 DEF ClockTick, ConnRec
      <4>2. conn.age + 1 \in 0 .. ProbeTimeout
        BY <4>1, TimesAssumption
      <4>3. conn' = [conn EXCEPT !.age = conn.age + 1]
        BY <1>2, <3>2 DEF ClockTick
      <4> QED
        BY <1>a, <4>2, <4>3 DEF ConnRec
    <3> QED
      BY <3>1, <3>2
  <2>5. tick' \in TickRec
    <3>1. 1 \in 0 .. MaxSlots
      BY SizesAssumption
    <3> QED
      BY <1>2, <3>1 DEF ClockTick, TickRec
  <2> QED
    BY <1>2, <2>1, <2>4, <2>5 DEF ClockTick, TypeOK, LinksHavePeers
<1>3. ASSUME NEW i \in Slots, TickEval(i) PROVE Typed'
  <2> DEFINE s == Refreshed(slot[i])
  <2>1. s \in SlotRec /\ tick.at = i
    BY <1>3, <1>b, RefreshedFacts DEF TickEval
  <2>2. NextSlot => tick' \in TickRec
    BY <2>1, NextSlotType
  <2>3. TickRest(i, s) =>
          /\ slot' \in [Slots -> SlotRec] /\ tick' \in TickRec /\ scanning' \in {"on", "off", "refused"}
          /\ rescan' \in BOOLEAN /\ conn' \in ConnRec
    BY <2>1, TickRestFacts
  <2>4. [tick EXCEPT !.phase = "in"] \in TickRec
    BY <1>a DEF TickRec
  <2>5. [slot EXCEPT ![i] = s] \in [Slots -> SlotRec]
    BY <1>a, <2>1
  <2> HIDE DEF s
  <2>6. /\ slot' \in [Slots -> SlotRec] /\ tick' \in TickRec /\ scanning' \in {"on", "off", "refused"}
        /\ rescan' \in BOOLEAN /\ conn' \in ConnRec
    BY <1>3, <2>2, <2>3, <2>4, <2>5 DEF TickEval, s, TypeOK
  <2> QED
    BY <1>3, <2>6 DEF TickEval, TypeOK, LinksHavePeers
<1>4. ASSUME NEW i \in Slots, TickIn(i) PROVE Typed'
  <2>1. [slot[i] EXCEPT !.ack = TRUE] \in SlotRec
    BY <1>b DEF SlotRec
  <2>2. /\ slot' \in [Slots -> SlotRec] /\ tick' \in TickRec /\ scanning' \in {"on", "off", "refused"}
        /\ rescan' \in BOOLEAN /\ conn' \in ConnRec
    BY <1>4, <2>1, TickRestFacts DEF TickIn
  <2>3. /\ since' \in [Peers -> [EventTypes -> 0 .. Debounce]]
        /\ rows' \in [Peers -> RowsRec]
        /\ append' \in AppendRec /\ waits' = waits
    BY <1>4, <1>b, RecordEventType DEF TickIn, EventTypes
  <2> QED
    BY <1>4, <2>2, <2>3 DEF TickIn, TypeOK, LinksHavePeers
<1>5. ASSUME NEW i \in Slots, TickOut(i) PROVE Typed'
  <2>1. tick' \in TickRec
    BY <1>5, NextSlotType DEF TickOut
  <2>2. slot' \in [Slots -> SlotRec]
    <3>1. [slot[i] EXCEPT !.ack = FALSE] \in SlotRec
      BY <1>b DEF SlotRec
    <3>2. slot' = [slot EXCEPT ![i] = [slot[i] EXCEPT !.ack = FALSE]]
      BY <1>5 DEF TickOut
    <3> QED
      BY <1>a, <3>1, <3>2
  <2>3. /\ since' \in [Peers -> [EventTypes -> 0 .. Debounce]]
        /\ rows' \in [Peers -> RowsRec]
        /\ append' \in AppendRec /\ waits' = waits
    BY <1>5, <1>b, RecordEventType DEF TickOut, EventTypes
  <2> QED
    BY <1>5, <2>1, <2>2, <2>3 DEF TickOut, TypeOK, LinksHavePeers
<1>6. CASE ScanRestart
  <2>1. scanning' \in {"on", "off", "refused"}
    BY <1>6 DEF ScanRestart, Started, TypeOK
  <2> QED
    BY <1>6, <2>1 DEF ScanRestart, TypeOK, LinksHavePeers
<1>7. ASSUME NEW p \in Peers, Advertised(p) PROVE Typed'
  <2>1. slot' \in [Slots -> SlotRec] /\ host' \in HostRec /\ rescan' \in BOOLEAN
    BY <1>7, <1>a, SeenThenFacts DEF Advertised
  <2> QED
    BY <1>7, <1>e, <2>1 DEF Advertised, Contact, TypeOK, LinksHavePeers
<1>8. ASSUME NEW h \in Handles, ProbeConnected(h) PROVE Typed'
  <2> DEFINE i == conn.slot
             f == Answered(i, h)
  <2>1. i \in Slots /\ slot[i].addr \in Peers \cup {NoPeer} /\ conn.peer \in Peers
    BY <1>8, <1>a, <1>b, <1>c DEF ProbeConnected, ConnRec
  <2>2. f \in [Slots -> SlotRec]
    BY <1>a, <2>1, AnsweredFacts
  <2>3. slot' \in [Slots -> SlotRec] /\ host' \in HostRec /\ rescan' \in BOOLEAN
    BY <1>8, <2>1, <2>2, SeenThenFacts DEF ProbeConnected
  <2>4. link' \in [Handles -> LinkRec] /\ LinksHavePeers'
    BY <1>8, <1>a, <2>1, SizesAssumption DEF ProbeConnected, LinkRec, LinksHavePeers, Slots
  <2>5. conn' \in ConnRec
    BY <1>8, Ages, SizesAssumption DEF ProbeConnected, NoConn, ConnRec
  <2> QED
    BY <1>8, <1>e, <2>3, <2>4, <2>5 DEF ProbeConnected, Contact, TypeOK
<1>9. CASE ProbeFailed
  <2>1. conn.slot \in Slots
    BY <1>9, <1>a, <1>c DEF ProbeFailed, ConnRec
  <2>2. slot' \in [Slots -> SlotRec]
    <3>1. ProbeEnded(slot[conn.slot]) \in SlotRec
      BY <1>b, <2>1, Ages DEF ProbeEnded, SlotRec
    <3> QED
      BY <1>9, <1>a, <3>1 DEF ProbeFailed
  <2>3. conn' \in ConnRec
    BY <1>9, Ages, SizesAssumption DEF ProbeFailed, NoConn, ConnRec
  <2> QED
    BY <1>9, <2>2, <2>3 DEF ProbeFailed, TypeOK, LinksHavePeers
<1>10. ASSUME NEW h \in Handles, ProbeLinkDown(h) PROVE Typed'
  <2>1. slot' \in [Slots -> SlotRec] /\ rescan' \in BOOLEAN
    <3>1. \A i \in Slots : LinkDropped(slot[i]) \in SlotRec
      BY <1>b, Ages DEF LinkDropped, SlotRec
    <3>2. rescan' \in BOOLEAN
      BY <1>10 DEF ProbeLinkDown, TypeOK
    <3>3. \/ slot' = slot
          \/ slot' = [slot EXCEPT ![link[h].slot] = LinkDropped(slot[link[h].slot])]
      BY <1>10 DEF ProbeLinkDown
    <3> QED
      BY <1>a, <3>1, <3>2, <3>3
  <2>2. link' \in [Handles -> LinkRec] /\ LinksHavePeers'
    BY <1>10, <1>a, SizesAssumption DEF ProbeLinkDown, NoLink, LinkRec, LinksHavePeers
  <2> QED
    BY <1>10, <1>e, <2>1, <2>2 DEF ProbeLinkDown, Contact, TypeOK
<1>11. ASSUME NEW h \in Handles, NEW p \in Peers, HidConnected(p, h) PROVE Typed'
  <2>1. slot' \in [Slots -> SlotRec] /\ host' \in HostRec /\ rescan' \in BOOLEAN
    BY <1>11, <1>a, SeenThenFacts DEF HidConnected
  <2>2. link' \in [Handles -> LinkRec] /\ LinksHavePeers'
    BY <1>11, <1>a, SizesAssumption DEF HidConnected, LinkRec, LinksHavePeers
  <2> QED
    BY <1>11, <1>e, <2>1, <2>2 DEF HidConnected, Contact, TypeOK
<1>12. ASSUME NEW h \in Handles, HidDisconnected(h) PROVE Typed'
  <2>1. \A i \in Slots : Unlinked(slot[i]) \in SlotRec
    BY <1>b, Ages DEF Unlinked, SlotRec
  <2>2. slot' \in [Slots -> SlotRec]
    BY <1>12, <1>b, <2>1 DEF HidDisconnected
  <2>3. link' \in [Handles -> LinkRec] /\ LinksHavePeers'
    BY <1>12, <1>a, SizesAssumption DEF HidDisconnected, NoLink, LinkRec, LinksHavePeers
  <2> QED
    BY <1>12, <1>e, <2>2, <2>3 DEF HidDisconnected, Contact, TypeOK
<1>13. ASSUME NEW h \in Handles, EncChanged(h) PROVE Typed'
  <2>1. bonds' \in SUBSET Peers
    BY <1>13, <1>a DEF EncChanged, LinksHavePeers
  <2>2. host' \in HostRec
    <3>1. host' = [slot |-> 0, peer |-> NoPeer, then |-> "alloc", bonded |-> bonds']
      BY <1>13 DEF EncChanged, HostIdle
    <3> QED
      BY <2>1, <3>1, SizesAssumption DEF HostRec
  <2> QED
    BY <1>13, <2>1, <2>2 DEF EncChanged, TypeOK, LinksHavePeers, logVars
<1>14. ASSUME NEW h \in Handles, RepeatPairing(h) PROVE Typed'
  BY <1>14 DEF RepeatPairing, TypeOK, LinksHavePeers, codeVars, logVars
<1>15. CASE HostRecord
  <2>1. host.slot \in Slots /\ host.peer \in Peers \cup {NoPeer}
    BY <1>15, <1>a, <1>c DEF HostRecord, HostRec
  <2> DEFINE f == [slot EXCEPT ![host.slot].ack = TRUE]
  <2>2. f \in [Slots -> SlotRec]
    BY <1>a, <2>1 DEF SlotRec
  <2>3. slot' \in [Slots -> SlotRec]
    BY <1>15, <2>2, MarkConnectedFacts DEF HostRecord, AfterSeen
  <2>4. /\ since' \in [Peers -> [EventTypes -> 0 .. Debounce]]
        /\ rows' \in [Peers -> RowsRec]
        /\ append' \in AppendRec /\ waits' = waits
    <3>1. HostPeer \in Peers \cup {NoPeer}
      BY <1>b, <2>1 DEF HostPeer
    <3> QED
      BY <1>15, <3>1, RecordEventType DEF HostRecord, EventTypes
  <2>5. rescan' \in BOOLEAN
    BY <1>15, Zenon DEF HostRecord, AfterSeen
  <2>6. host' \in HostRec
    BY <1>15, SizesAssumption DEF HostRecord, HostIdle, HostRec
  <2> QED
    BY <1>15, <2>3, <2>4, <2>5, <2>6 DEF HostRecord, TypeOK, LinksHavePeers, radioVars
<1>16. ASSUME NEW p \in Peers, RevokeBond(p) PROVE Typed'
  <2>1. link' \in [Handles -> LinkRec] /\ LinksHavePeers'
    BY <1>16, <1>a DEF RevokeBond, LinkRec, LinksHavePeers
  <2>2. http' \in HttpRec
    BY <1>16 DEF RevokeBond, HttpRec
  <2> QED
    BY <1>16, <2>1, <2>2 DEF RevokeBond, TypeOK
<1>17. CASE RevokeSlot
  <2>1. FreeSlot \in SlotRec
    BY SizesAssumption, Ages DEF FreeSlot, SlotRec, Handles
  <2>2. slot' \in [Slots -> SlotRec]
    BY <1>17, <1>b, <2>1 DEF RevokeSlot
  <2>3. http' \in HttpRec
    BY <1>17 DEF RevokeSlot, HttpIdle, HttpRec
  <2> QED
    BY <1>17, <2>2, <2>3 DEF RevokeSlot, TypeOK, LinksHavePeers, radioVars
<1>18. CASE WipeRows
  <2>1. rows' \in [Peers -> RowsRec] /\ http' \in HttpRec
    BY <1>18 DEF WipeRows, NoRows, RowsRec, HttpRec
  <2> QED
    BY <1>18, <2>1 DEF WipeRows, TypeOK, LinksHavePeers, radioVars
<1>19. CASE ResetEvents
  <2>1. \A i \in Slots : [slot[i] EXCEPT !.ack = FALSE] \in SlotRec
    BY <1>b DEF SlotRec
  <2>2. slot' \in [Slots -> SlotRec]
    BY <1>19, <1>b, <2>1 DEF ResetEvents
  <2>3. http' \in HttpRec
    BY <1>19 DEF ResetEvents, HttpIdle, HttpRec
  <2> QED
    BY <1>19, <2>2, <2>3 DEF ResetEvents, TypeOK, LinksHavePeers, radioVars
<1>20. CASE PairingStart \/ PairingEnd
  BY <1>20 DEF PairingStart, PairingEnd, TypeOK, LinksHavePeers, logVars, radioVars
<1>21. ASSUME NEW t \in TimeoutMin .. TimeoutMax, SetTimeout(t) PROVE Typed'
  BY <1>21 DEF SetTimeout, TypeOK, LinksHavePeers, logVars, radioVars
<1>22. CASE ClockSynced \/ NtpServerChanged
  BY <1>22 DEF ClockSynced, NtpServerChanged, TypeOK, LinksHavePeers, logVars, radioVars
<1>23. CASE Boot
  <2>1. [i \in Slots |-> FreeSlot] \in [Slots -> SlotRec]
    BY SizesAssumption, Ages DEF FreeSlot, SlotRec, Handles
  <2>2. slot' \in [Slots -> SlotRec]
    BY <1>23, <1>a, <2>1, PreallocationsFacts DEF Boot
  <2>3. /\ tick' \in TickRec /\ host' \in HostRec /\ http' \in HttpRec
    BY <1>23, SizesAssumption
    DEF Boot, TickIdle, TickRec, HostIdle, HostRec, HttpIdle, HttpRec
  <2>4. /\ link' \in [Handles -> LinkRec] /\ conn' \in ConnRec /\ LinksHavePeers'
    BY <1>23, SizesAssumption, Ages DEF Boot, NoLink, LinkRec, NoConn, ConnRec, LinksHavePeers
  <2>5. /\ since' \in [Peers -> [EventTypes -> 0 .. Debounce]]
        /\ scanning' \in {"on", "off", "refused"} /\ append' \in AppendRec
    BY <1>23, <1>a, Ages DEF Boot, Started, NoAppend, AppendRec
  <2> QED
    BY <1>23, <2>2, <2>3, <2>4, <2>5 DEF Boot, TypeOK
<1>24. ASSUME NEW p \in Peers, Moves(p) PROVE Typed'
  BY <1>24 DEF Moves, TypeOK, LinksHavePeers, codeVars, logVars
<1>25. CASE HostAllocate
  <2>1. slot' \in [Slots -> SlotRec]
    BY <1>25, <1>a, PreallocationsFacts DEF HostAllocate, HostRec
  <2>2. host' \in HostRec
    BY <1>25, SizesAssumption DEF HostAllocate, HostIdle, HostRec
  <2> QED
    BY <1>25, <2>1, <2>2 DEF HostAllocate, TypeOK, LinksHavePeers, logVars, radioVars
<1>26. ASSUME NEW p \in Peers \cup {NoPeer}, NEW type \in EventTypes, NEW task \in {"host", "tick"},
              Stamp(type, p)
       PROVE  /\ since' \in [Peers -> [EventTypes -> 0 .. Debounce]]
              /\ [append EXCEPT ![task] = p] \in AppendRec
  <2>1. p \in Peers /\ since' = [since EXCEPT ![p][type] = 0]
    BY <1>26 DEF Stamp
  <2>2. append \in AppendRec
    BY DEF TypeOK
  <2> QED
    BY <1>a, <2>1, <2>2, Ages DEF AppendRec
<1>27. CASE HostWaits
  <2>1. HostPeer \in Peers \cup {NoPeer}
    BY <1>27, <1>a, <1>b, <1>c DEF HostWaits, HostPeer, HostRec
  <2>2. since' \in [Peers -> [EventTypes -> 0 .. Debounce]] /\ append' \in AppendRec
    BY <1>27, <2>1, <1>26 DEF HostWaits, EventTypes
  <2> QED
    BY <1>27, <2>2 DEF HostWaits, TypeOK, LinksHavePeers, codeVars, radioVars
<1>28. ASSUME NEW i \in Slots, TickWaits(i) PROVE Typed'
  <2>1. tick.phase \in EventTypes
    BY <1>28, <1>a DEF TickWaits, TickRec, EventTypes
  <2>2. since' \in [Peers -> [EventTypes -> 0 .. Debounce]] /\ append' \in AppendRec
    BY <1>28, <1>b, <2>1, <1>26 DEF TickWaits
  <2> QED
    BY <1>28, <2>2 DEF TickWaits, TypeOK, LinksHavePeers, codeVars, radioVars
<1>29. CASE Stalled
  <2>1. /\ slot' \in [Slots -> SlotRec]
        /\ since' \in [Peers -> [EventTypes -> 0 .. Debounce]]
        /\ heard' \in [Peers -> 0 .. AgeMax]
    BY <1>29, AgeingFacts DEF Stalled
  <2>2. conn' \in ConnRec
    <3>1. conn.age \in 0 .. ProbeTimeout
      BY <1>a DEF ConnRec
    <3>2. Older(conn.age, ProbeTimeout) \in 0 .. ProbeTimeout
      BY <1>d, <3>1, TimesAssumption
    <3> QED
      BY <1>29, <1>a, <3>2 DEF Stalled, ConnRec
  <2>3. tick' \in TickRec
    <3>1. 1 \in 0 .. MaxSlots
      BY SizesAssumption
    <3> QED
      BY <1>29, <1>a, <3>1 DEF Stalled, TickRec
  <2>4. waits' \in {"none", "short", "long"}
    BY <1>29 DEF Stalled, TypeOK
  <2> QED
    BY <1>29, <2>1, <2>2, <2>3, <2>4 DEF Stalled, TypeOK, LinksHavePeers
<1> QED
  BY <1>1, <1>2, <1>3, <1>4, <1>5, <1>6, <1>7, <1>8, <1>9, <1>10, <1>11, <1>12, <1>13,
     <1>14, <1>15, <1>16, <1>17, <1>18, <1>19, <1>20, <1>21, <1>22, <1>23, <1>24, <1>25,
     <1>27, <1>28, <1>29
  DEF Next, Tick, Radio, Admin, World, Stall

\* Slots, links and tasks are well typed in every reachable state.
LEMMA AlwaysTyped == Spec => []Typed
BY InitTyped, NextTyped, PTL DEF Spec

\* Every reachable state is well typed: no handler leaves the ranges of its fields,
\* indexes a slot or handle that is not there, or lets an age outgrow its cap.
THEOREM TypeCorrect == Spec => []TypeOK
<1>1. Typed => TypeOK
  BY DEF Typed
<1> QED
  BY <1>1, AlwaysTyped, PTL

-----------------------------------------------------------------------------
(***************************************************************************)
(* The scanner.                                                            *)
(***************************************************************************)
\* Whoever stops the scanner leaves something behind that restarts it, and whoever
\* uses that up restarts it or passes it on.
LEMMA NextScanner ==
  Typed /\ ScannerKept /\ [Next]_vars => ScannerKept'
<1> SUFFICES ASSUME Typed, ScannerKept, [Next]_vars PROVE ScannerKept'
  OBVIOUS
<1> USE DEF ScannerKept
<1>a. TypeOK
  BY DEF Typed
<1>b. /\ slot \in [Slots -> SlotRec]
      /\ \A i \in Slots : slot[i] \in SlotRec /\ slot[i].addr \in Peers \cup {NoPeer}
      /\ near \in SUBSET Peers
  BY <1>a DEF TypeOK, SlotRec
<1>1. CASE UNCHANGED vars
  BY <1>1 DEF vars
<1>2. CASE ClockTick
  <2>1. conn'.slot = conn.slot
    BY <1>2, <1>a DEF ClockTick, TypeOK, ConnRec
  <2> QED
    BY <1>2, <2>1 DEF ClockTick
<1>3. ASSUME NEW i \in Slots, TickEval(i) PROVE ScannerKept'
  <2>1. TickRest(i, Refreshed(slot[i])) => \/ UNCHANGED <<scanning, rescan, conn>>
                                           \/ rescan' \/ conn'.slot # 0
    BY <1>3, <1>a, <1>b, RefreshedFacts, TickRestFacts DEF TickEval
  <2> QED
    BY <1>3, <2>1 DEF TickEval
<1>4. ASSUME NEW i \in Slots, TickIn(i) PROVE ScannerKept'
  <2>1. [slot[i] EXCEPT !.ack = TRUE] \in SlotRec
    BY <1>b DEF SlotRec
  <2>2. UNCHANGED <<scanning, rescan, conn>> \/ rescan' \/ conn'.slot # 0
    BY <1>4, <1>a, <2>1, TickRestFacts DEF TickIn
  <2> QED
    BY <1>4, <2>2 DEF TickIn
<1>5. ASSUME NEW i \in Slots, TickOut(i) PROVE ScannerKept'
  BY <1>5 DEF TickOut
<1>6. CASE ScanRestart
  BY <1>6 DEF ScanRestart, Started
<1>7. ASSUME NEW p \in Peers, Advertised(p) PROVE ScannerKept'
  <2>1. rescan => rescan'
    BY <1>7, <1>a, <1>b, SeenThenFacts DEF Advertised
  <2> QED
    BY <1>7, <2>1 DEF Advertised, HostIdle
<1>8. ASSUME NEW h \in Handles, ProbeConnected(h) PROVE ScannerKept'
  <2> DEFINE i == conn.slot
             f == Answered(i, h)
  <2>1. i \in Slots
    BY <1>8, <1>a, SizesAssumption DEF ProbeConnected, TypeOK, ConnRec, Slots
  <2>2. f \in [Slots -> SlotRec]
    BY <1>b, <2>1, AnsweredFacts
  <2>3. rescan' \/ host'.then = "probe"
    BY <1>8, <1>a, <1>b, <2>1, <2>2, SeenThenFacts DEF ProbeConnected
  <2> QED
    BY <2>3
<1>9. CASE ProbeFailed
  BY <1>9 DEF ProbeFailed
<1>10. ASSUME NEW h \in Handles, ProbeLinkDown(h) PROVE ScannerKept'
  BY <1>10 DEF ProbeLinkDown
<1>11. ASSUME NEW h \in Handles, NEW p \in Peers, HidConnected(p, h)
       PROVE  ScannerKept'
  <2>1. rescan => rescan'
    BY <1>11, <1>a, <1>b, SeenThenFacts DEF HidConnected
  <2> QED
    BY <1>11, <2>1 DEF HidConnected, HostIdle
<1>12. ASSUME NEW h \in Handles, HidDisconnected(h) \/ EncChanged(h) \/ RepeatPairing(h)
       PROVE  ScannerKept'
  BY <1>12 DEF HidDisconnected, EncChanged, HostIdle, RepeatPairing, codeVars
<1>13. CASE HostRecord
  <2>1. rescan' = (rescan \/ host.then = "probe")
    BY <1>13 DEF HostRecord, AfterSeen
  <2>2. host'.then = "none" /\ scanning' = scanning /\ conn' = conn
    BY <1>13 DEF HostRecord, HostIdle, radioVars
  <2> QED
    BY <2>1, <2>2, Zenon
<1>14. ASSUME NEW p \in Peers, RevokeBond(p) \/ Moves(p) PROVE ScannerKept'
  BY <1>14 DEF RevokeBond, Moves, codeVars
<1>15. CASE \/ RevokeSlot \/ WipeRows \/ ResetEvents \/ PairingStart \/ PairingEnd
            \/ ClockSynced \/ NtpServerChanged
            \/ \E t \in TimeoutMin .. TimeoutMax : SetTimeout(t)
  BY <1>15 DEF RevokeSlot, WipeRows, ResetEvents, PairingStart, PairingEnd, ClockSynced,
               NtpServerChanged, SetTimeout, radioVars
<1>16. CASE Boot
  BY <1>16 DEF Boot, Started
<1>17. CASE HostAllocate
  BY <1>17 DEF HostAllocate, radioVars
<1>18. CASE HostWaits \/ \E i \in Slots : TickWaits(i)
  BY <1>18 DEF HostWaits, TickWaits, codeVars, radioVars
<1>19. CASE Stalled
  <2>1. conn'.slot = conn.slot
    BY <1>19, <1>a DEF Stalled, TypeOK, ConnRec
  <2> QED
    BY <1>19, <2>1 DEF Stalled
<1> QED
  BY <1>1, <1>2, <1>3, <1>4, <1>5, <1>6, <1>7, <1>8, <1>9, <1>10, <1>11, <1>12, <1>13,
     <1>14, <1>15, <1>16, <1>17, <1>18, <1>19
  DEF Next, Tick, Radio, Admin, World, Stall

\* The scanner that a probe stopped is never forgotten, whatever becomes of the probe
\* and however its callbacks interleave with the tick, a revoke or a reset: it stays
\* off only if the controller refuses to start it.
THEOREM ScannerNeverLost == Spec => []ScannerKept
<1>1. Init => ScannerKept
  BY DEF Init, ScannerKept, Started
<1> QED
  BY <1>1, NextScanner, AlwaysTyped, PTL DEF Spec

-----------------------------------------------------------------------------
(***************************************************************************)
(* Probes and the OUT timer.                                               *)
(***************************************************************************)
Timed == ProbingOwnsConn /\ SeenBounded /\ FreeIsAbsent

\* The quantities that SeenBound compares are numbers.
LEMMA TimedNumbers ==
  ASSUME TypeOK
  PROVE  /\ TimeoutMax \in Nat /\ ProbeTimeout \in Nat /\ MaxSlots \in Nat /\ 0 \notin Slots
         /\ timeout \in Nat /\ timeout <= TimeoutMax
         /\ conn.age \in Nat /\ conn.age <= ProbeTimeout
         /\ \A i \in Slots : /\ slot[i] \in SlotRec
                             /\ slot[i].seen \in Nat
                             /\ i \in Nat /\ 1 <= i /\ i <= MaxSlots
<1>1. /\ timeout \in TimeoutMin .. TimeoutMax /\ conn \in ConnRec
      /\ \A j \in Slots : slot[j] \in SlotRec
  BY DEF TypeOK
<1>2. conn.age \in 0 .. ProbeTimeout
  BY <1>1 DEF ConnRec
<1>3. \A j \in Slots : slot[j].seen \in 0 .. AgeMax
  BY <1>1 DEF SlotRec
<1> QED
  BY <1>1, <1>2, <1>3, TimesAssumption, SizesAssumption, Ages DEF Slots

\* A step that leaves the tick where it is, starts no probe, and only makes slots
\* younger, absent or connected keeps every slot within its bound.
LEMMA Unhurried ==
  ASSUME TypeOK, Timed, UNCHANGED <<tick, waits>>, conn' = conn \/ \A i \in Slots : ~slot'[i].probing,
         slot' \in [Slots -> SlotRec],
         \A i \in Slots :
           /\ slot'[i].probing => slot[i].probing
           /\ slot'[i].present => slot'[i].addr # NoPeer
           /\ \/ ~slot'[i].present
              \/ slot'[i].connected
              \/ slot'[i].seen = 0
              \/ slot'[i].seen = slot[i].seen /\ slot[i].present /\ ~slot[i].connected
  PROVE  Timed'
<1>1. ProbingOwnsConn' /\ FreeIsAbsent'
  BY DEF Timed, ProbingOwnsConn, FreeIsAbsent, Used
<1>2. ASSUME NEW i \in Slots, slot'[i].present, ~slot'[i].connected,
                   waits = "none"
      PROVE  slot'[i].seen <= SeenBound(i)'
  <2>1. SeenBound(i)' \in Nat
    BY TimedNumbers, <1>2 DEF SeenBound
  <2>2. CASE slot'[i].seen = 0
    BY <2>1, <2>2
  <2>3. CASE slot'[i].seen = slot[i].seen /\ slot[i].present /\ ~slot[i].connected
    <3>1. slot[i].seen <= SeenBound(i)
      BY <1>2, <2>3 DEF Timed, SeenBounded
    <3>2. CASE slot'[i].probing
      BY <2>3, <3>1, <3>2 DEF SeenBound
    <3>3. CASE ~slot'[i].probing
      <4>1. Pending(i)' = Pending(i)
        BY DEF Pending
      <4> QED
        BY <2>3, <3>1, <3>3, <4>1, TimedNumbers DEF SeenBound
    <3> QED
      BY <3>2, <3>3
  <2> QED
    BY <1>2, <2>2, <2>3
<1> QED
  BY <1>1, <1>2 DEF Timed, SeenBounded

\* The iteration of the tick for slot i that has decided about the slot.
LEMMA DecidedTimed ==
  ASSUME TypeOK, Timed, NEW i \in Slots, NEW s \in SlotRec, tick.at = i, TickRest(i, s),
         s.probing = slot[i].probing, s.seen = 0 \/ s.seen = slot[i].seen,
         s.connected = slot[i].connected, s.addr = slot[i].addr,
         s.present => s.addr # NoPeer,
         s.present /\ ~s.connected => slot[i].present, waits' = waits
  PROVE  Timed'
<1>1. /\ slot' \in [Slots -> SlotRec]
      /\ \A j \in Slots : j # i => slot'[j] = slot[j]
      /\ slot'[i].connected = s.connected
      /\ slot'[i].seen = s.seen
      /\ slot'[i].present => s.present
      /\ slot'[i].addr = s.addr
      /\ \/ conn' = conn /\ slot'[i].probing = s.probing
         \/ /\ conn.slot = 0 /\ conn'.slot = i /\ conn'.age = 0
            /\ slot'[i].probing
      /\ slot'[i].present /\ ~slot'[i].connected =>
           s.probing \/ s.seen <= timeout
      /\ \/ tick'.phase = "eval" /\ ((tick'.at = 0 /\ i = MaxSlots) \/ tick'.at = i + 1)
         \/ tick'.phase = "out" /\ tick'.at = i
      /\ conn' \in ConnRec
  BY TickRestFacts
<1>2. /\ timeout \in Nat /\ timeout <= TimeoutMax /\ TimeoutMax \in Nat
      /\ ProbeTimeout \in Nat /\ conn.age \in Nat /\ conn'.age \in Nat
      /\ conn.age <= ProbeTimeout
      /\ \A j \in Slots : slot[j].seen \in Nat /\ j \in Nat /\ 1 <= j /\ j <= MaxSlots
      /\ s.seen \in Nat /\ 0 \notin Slots /\ MaxSlots \in Nat
  <2>1. conn'.age \in 0 .. ProbeTimeout
    BY <1>1 DEF ConnRec
  <2>2. s.seen \in 0 .. AgeMax
    BY DEF SlotRec
  <2> QED
    BY <2>1, <2>2, TimedNumbers, Ages
<1>3. ProbingOwnsConn'
  BY <1>1, <1>2 DEF Timed, ProbingOwnsConn
<1>a. FreeIsAbsent'
  BY <1>1 DEF Timed, FreeIsAbsent, Used
<1>4. ASSUME NEW j \in Slots, slot'[j].present, ~slot'[j].connected,
                   waits = "none"
      PROVE  slot'[j].seen <= SeenBound(j)'
  <2>1. CASE j = i
    <3>1. CASE slot'[i].probing
      <4>1. SeenBound(i)' = TimeoutMax + conn'.age
        BY <3>1 DEF SeenBound
      <4>2. CASE s.probing
        <5>1. conn' = conn /\ slot[i].probing /\ ~slot[i].connected
          BY <1>1, <1>2, <1>4, <2>1, <4>2 DEF Timed, ProbingOwnsConn
        <5>2. CASE s.seen = 0
          BY <1>1, <1>2, <2>1, <4>1, <5>2
        <5>3. CASE s.seen # 0
          <6>1. slot[i].seen <= TimeoutMax + conn.age \/ ~slot[i].present
            BY <1>4, <5>1 DEF Timed, SeenBounded, SeenBound
          <6>2. slot[i].present
            BY <1>1, <1>4, <2>1, <4>2, <5>1
          <6> QED
            BY <1>1, <1>2, <2>1, <4>1, <5>1, <5>3, <6>1, <6>2
        <5> QED
          BY <5>2, <5>3
      <4>3. CASE ~s.probing
        BY <1>1, <1>2, <1>4, <2>1, <4>1, <4>3
      <4> QED
        BY <4>2, <4>3
    <3>2. CASE ~slot'[i].probing
      <4>1. SeenBound(i)' >= TimeoutMax + ProbeTimeout /\ SeenBound(i)' \in Nat
        BY <1>2, <3>2 DEF SeenBound
      <4>2. s.seen <= timeout
        BY <1>1, <1>2, <1>4, <2>1, <3>2
      <4> QED
        BY <1>1, <1>2, <2>1, <4>1, <4>2
    <3> QED
      BY <3>1, <3>2
  <2>2. CASE j # i
    <3>1. slot'[j] = slot[j] /\ slot[j].seen <= SeenBound(j)
      BY <1>1, <1>4, <2>2 DEF Timed, SeenBounded
    <3>2. CASE slot[j].probing
      <4>1. conn' = conn
        BY <1>1, <1>2, <2>2, <3>2 DEF Timed, ProbingOwnsConn
      <4> QED
        BY <3>1, <3>2, <4>1 DEF SeenBound
    <3>3. CASE ~slot[j].probing
      <4>1. Pending(j) => Pending(j)'
        BY <1>1, <1>2, <2>2 DEF Pending
      <4> QED
        BY <1>2, <3>1, <3>3, <4>1 DEF SeenBound
    <3> QED
      BY <3>2, <3>3
  <2> QED
    BY <2>1, <2>2
<1> QED
  BY <1>3, <1>4, <1>a DEF Timed, SeenBounded

\* Every step keeps probes and ages under control.
LEMMA NextTimed == Typed /\ Timed /\ [Next]_vars => Timed'
<1> SUFFICES ASSUME Typed, Timed, [Next]_vars PROVE Timed'
  OBVIOUS
<1>a. TypeOK /\ TypeOK'
  BY NextTyped DEF Typed
<1>b. /\ slot \in [Slots -> SlotRec] /\ slot' \in [Slots -> SlotRec]
      /\ \A i \in Slots : /\ slot[i] \in SlotRec /\ slot[i].addr \in Peers \cup {NoPeer}
                          /\ slot[i].present => slot[i].addr # NoPeer
      /\ near \in SUBSET Peers /\ rows \in [Peers -> RowsRec] /\ bonds' \in SUBSET Peers
      /\ bonds \in SUBSET Peers
      /\ host \in HostRec
  BY <1>a DEF TypeOK, SlotRec, Timed, FreeIsAbsent, Used
<1>c. ASSUME UNCHANGED <<tick, conn, waits>>, UNCHANGED slot PROVE Timed'
  BY <1>c DEF Timed, ProbingOwnsConn, SeenBounded, FreeIsAbsent, Used, SeenBound, Pending
<1>d. ASSUME NEW i \in Slots, NEW j \in Slots, j # i, tick.at = i, NextSlot, Pending(j)
      PROVE  Pending(j)'
  BY <1>d, <1>a, TimedNumbers, NextSlotType DEF Pending
<1>1. CASE UNCHANGED vars
  BY <1>1, <1>c DEF vars
<1>2. CASE ClockTick
  <2>1. ASSUME NEW i \in Slots
        PROVE  /\ slot'[i].addr = slot[i].addr
               /\ slot'[i].present = slot[i].present
               /\ slot'[i].connected = slot[i].connected
               /\ slot'[i].probing = slot[i].probing
               /\ slot'[i].seen <= slot[i].seen + 1
    <3>1. /\ slot'[i].addr = slot[i].addr /\ slot'[i].present = slot[i].present
          /\ slot'[i].connected = slot[i].connected /\ slot'[i].probing = slot[i].probing
          /\ slot'[i].seen = Older(slot[i].seen, AgeMax)
      BY <1>2, <1>a, AgeingFacts DEF ClockTick
    <3>2. Older(slot[i].seen, AgeMax) <= slot[i].seen + 1
      BY <1>b, Ages DEF Older, SlotRec
    <3> QED
      BY <3>1, <3>2
  <2>2. tick.at = 0 /\ tick'.at = 1 /\ tick'.phase = "eval" /\ waits' = waits
    BY <1>2 DEF ClockTick
  <2>3. conn'.slot = conn.slot /\ (conn.slot # 0 => conn'.age = conn.age + 1)
    BY <1>2, <1>a DEF ClockTick, TypeOK, ConnRec
  <2>4. ProbingOwnsConn' /\ FreeIsAbsent'
    BY <2>1, <2>3 DEF Timed, ProbingOwnsConn, FreeIsAbsent, Used
  <2>5. ASSUME NEW i \in Slots, slot'[i].present, ~slot'[i].connected,
                   waits = "none"
        PROVE  slot'[i].seen <= SeenBound(i)'
    <3>1. slot[i].seen <= SeenBound(i)
      BY <2>1, <2>5 DEF Timed, SeenBounded
    <3>2. CASE slot[i].probing
      <4>1. conn'.age = conn.age + 1
        BY <2>3, <3>2, <1>a, TimedNumbers DEF Timed, ProbingOwnsConn
      <4>2. slot[i].seen <= TimeoutMax + conn.age /\ SeenBound(i)' = TimeoutMax + conn'.age
        BY <2>1, <3>1, <3>2 DEF SeenBound
      <4>3. slot'[i].seen \in Nat
        BY <1>b, TimedNumbers, <1>a, Ages DEF SlotRec
      <4> QED
        BY <1>a, <2>1, <4>1, <4>2, <4>3, TimedNumbers
    <3>3. CASE ~slot[i].probing
      <4>1. ~Pending(i) /\ Pending(i)'
        BY <2>2, <1>a, TimedNumbers DEF Pending
      <4>2. slot[i].seen <= TimeoutMax + ProbeTimeout
            /\ SeenBound(i)' = TimeoutMax + ProbeTimeout + 1
        BY <2>1, <3>1, <3>3, <4>1 DEF SeenBound
      <4>3. slot'[i].seen \in Nat
        BY <1>b, Ages DEF SlotRec
      <4> QED
        BY <1>a, <2>1, <4>2, <4>3, TimedNumbers
    <3> QED
      BY <3>2, <3>3
  <2> QED
    BY <2>2, <2>4, <2>5 DEF Timed, SeenBounded
<1>3. ASSUME NEW i \in Slots, TickEval(i) PROVE Timed'
  <2> DEFINE s == Refreshed(slot[i])
  <2>1. /\ s \in SlotRec /\ s.addr = slot[i].addr /\ s.connected = slot[i].connected
        /\ s.probing = slot[i].probing /\ (~s.connected => s = slot[i])
        /\ tick.at = i /\ tick.phase = "eval" /\ s.seen \in 0 .. AgeMax /\ waits' = waits
    BY <1>3, <1>b, RefreshedFacts DEF TickEval, SlotRec
  <2>2. CASE ~Used(i) /\ NextSlot /\ UNCHANGED <<slot, conn>>
    <3>1. \A j \in Slots : slot[j].present => j # i
      BY <1>b, <2>2 DEF Used
    <3>2. ASSUME NEW j \in Slots, slot'[j].present, ~slot'[j].connected,
                   waits = "none"
          PROVE  slot'[j].seen <= SeenBound(j)'
      <4>1. slot[j].seen <= SeenBound(j) /\ (Pending(j) => Pending(j)')
        BY <1>d, <2>1, <2>2, <3>1, <3>2 DEF Timed, SeenBounded
      <4> QED
        BY <1>a, <2>2, <4>1, TimedNumbers DEF SeenBound
    <3> QED
      BY <2>1, <2>2, <3>2 DEF Timed, SeenBounded, ProbingOwnsConn, FreeIsAbsent, Used
  <2>3. CASE /\ Used(i) /\ UNCHANGED conn
             /\ slot' = [slot EXCEPT ![i] = s]
             /\ tick' = [tick EXCEPT !.phase = "in"]
    <3>1. /\ \A j \in Slots : slot'[j] = slot[j] \/ (j = i /\ slot'[j] = s)
          /\ tick'.at = i /\ tick'.phase = "in"
      BY <1>a, <1>b, <2>1, <2>3 DEF TypeOK, TickRec
    <3>2. \A j \in Slots : Pending(j)' = Pending(j)
      BY <2>1, <3>1 DEF Pending
    <3>3. ASSUME NEW j \in Slots, slot'[j].present, ~slot'[j].connected,
                   waits = "none"
          PROVE  slot'[j].seen <= SeenBound(j)'
      <4>1. slot'[j] = slot[j]
        BY <2>1, <3>1, <3>3
      <4> QED
        BY <2>3, <3>2, <3>3, <4>1 DEF Timed, SeenBounded, SeenBound
    <3>4. ProbingOwnsConn' /\ FreeIsAbsent'
      BY <2>1, <2>3, <3>1 DEF Timed, ProbingOwnsConn, FreeIsAbsent, Used
    <3> QED
      BY <2>1, <3>3, <3>4 DEF Timed, SeenBounded
  <2>4. CASE Used(i) /\ TickRest(i, s)
    <3>1. s.seen = 0 \/ s.seen = slot[i].seen
      BY <1>b, <2>1, Ages DEF Refreshed, SlotRec
    <3> HIDE DEF s
    <3> QED
      BY <1>a, <1>b, <2>1, <2>4, <3>1, DecidedTimed DEF Used
  <2> QED
    BY <1>3, <2>2, <2>3, <2>4 DEF TickEval
<1>4. ASSUME NEW i \in Slots, TickIn(i) PROVE Timed'
  <2> DEFINE s == [slot[i] EXCEPT !.ack = TRUE]
  <2>1. /\ s \in SlotRec /\ s.addr = slot[i].addr /\ s.connected = slot[i].connected
        /\ s.probing = slot[i].probing /\ s.seen = slot[i].seen /\ s.present = slot[i].present
    BY <1>b DEF SlotRec
  <2>2. tick.at = i /\ TickRest(i, s) /\ waits' = waits
    BY <1>4, RecordEventWaits DEF TickIn
  <2> HIDE DEF s
  <2> QED
    BY <1>a, <1>b, <2>1, <2>2, DecidedTimed
<1>5. ASSUME NEW i \in Slots, TickOut(i) PROVE Timed'
  <2>1. \A j \in Slots : /\ slot'[j].addr = slot[j].addr
                         /\ slot'[j].present = slot[j].present
                         /\ slot'[j].connected = slot[j].connected
                         /\ slot'[j].probing = slot[j].probing
                         /\ slot'[j].seen = slot[j].seen
    BY <1>5, <1>b DEF TickOut, SlotRec
  <2>2. conn' = conn /\ tick.at = i /\ tick.phase = "out" /\ NextSlot /\ waits' = waits
    BY <1>5, RecordEventWaits DEF TickOut
  <2>3. \A j \in Slots : Pending(j) => Pending(j)'
    <3>1. ~Pending(i)
      BY <2>2, <1>a, TimedNumbers DEF Pending
    <3> QED
      BY <1>d, <2>2, <3>1
  <2>4. ASSUME NEW j \in Slots, slot'[j].present, ~slot'[j].connected,
                   waits = "none"
        PROVE  slot'[j].seen <= SeenBound(j)'
    <3>1. slot[j].seen <= SeenBound(j)
      BY <2>1, <2>4 DEF Timed, SeenBounded
    <3> QED
      BY <1>a, <2>1, <2>2, <2>3, <3>1, TimedNumbers DEF SeenBound
  <2> QED
    BY <2>1, <2>2, <2>4 DEF Timed, ProbingOwnsConn, SeenBounded, FreeIsAbsent, Used
<1>6. CASE ScanRestart
  BY <1>6, <1>c DEF ScanRestart
<1>7. ASSUME NEW p \in Peers, NEW then \in {"none", "hid"}, SeenThen(slot, p, then),
             UNCHANGED <<tick, conn, waits>>
      PROVE  Timed'
  <2>1. \A i \in Slots :
              /\ slot'[i].probing => slot[i].probing
              /\ slot[i].connected => slot'[i].connected
              /\ slot'[i].present => slot[i].present \/ slot'[i].addr # NoPeer
              /\ \/ slot'[i].seen = 0
                 \/ /\ slot'[i].seen = slot[i].seen
                    /\ slot'[i].present = slot[i].present
                    /\ slot'[i].probing = slot[i].probing
              /\ \/ slot'[i].addr = slot[i].addr
                 \/ slot'[i].addr = p
    BY <1>7, <1>a, <1>b, SeenThenFacts
  <2>2. \A i \in Slots : slot'[i].present => slot'[i].addr # NoPeer
    BY <1>b, <2>1, PeersAssumption
  <2> QED
    BY <1>7, <1>a, <1>b, <2>1, <2>2, Unhurried
<1>8. ASSUME NEW h \in Handles, ProbeConnected(h) PROVE Timed'
  <2> DEFINE i == conn.slot
             f == Answered(i, h)
  <2>1. i \in Slots
    BY <1>8, <1>a, SizesAssumption DEF ProbeConnected, TypeOK, ConnRec, Slots
  <2>2. /\ f \in [Slots -> SlotRec]
        /\ \A j \in Slots : j # i => f[j] = slot[j]
        /\ f[i].addr = slot[i].addr /\ f[i].connected /\ ~f[i].probing
        /\ f[i].present = slot[i].present
    BY <1>b, <2>1, AnsweredFacts
  <2>3. /\ SeenThen(f, slot[i].addr, "probe") /\ UNCHANGED <<tick, waits>>
        /\ slot[i].addr \in Peers \cup {NoPeer}
    BY <1>8, <1>b, <2>1 DEF ProbeConnected
  <2> HIDE DEF f
  <2>4. \A j \in Slots :
              /\ slot'[j].probing => f[j].probing
              /\ f[j].connected => slot'[j].connected
              /\ slot'[j].present => f[j].present \/ slot'[j].addr # NoPeer
              /\ \/ slot'[j].seen = 0
                 \/ /\ slot'[j].seen = f[j].seen
                    /\ slot'[j].present = f[j].present
              /\ \/ slot'[j].addr = f[j].addr
                 \/ /\ slot'[j].addr = slot[i].addr
                    /\ j = SeenAt(f, slot[i].addr)
    BY <1>a, <2>2, <2>3, SeenThenFacts
  <2>5. \A j \in Slots : ~slot'[j].probing
    BY <2>1, <2>2, <2>4 DEF Timed, ProbingOwnsConn
  <2>6. \A j \in Slots : slot'[j].present => slot'[j].addr # NoPeer
    <3> SUFFICES ASSUME NEW j \in Slots, slot'[j].present, slot'[j].addr = NoPeer
                 PROVE  FALSE
      OBVIOUS
    <3>1. f[j].present /\ f[j].addr # NoPeer
      BY <1>b, <2>1, <2>2, <2>4
    <3>2. slot[i].addr = NoPeer /\ j = SeenAt(f, NoPeer)
      BY <2>4, <3>1
    <3> QED
      BY <2>2, <3>2, SeenAtFacts, <1>a, TimedNumbers
  <2> QED
    BY <1>a, <1>b, <2>1, <2>2, <2>3, <2>4, <2>5, <2>6, Unhurried
<1>9. CASE ProbeFailed
  <2>1. conn.slot \in Slots
    BY <1>9, <1>a, SizesAssumption DEF ProbeFailed, TypeOK, ConnRec, Slots
  <2>2. \A j \in Slots : /\ slot'[j].addr = slot[j].addr
                         /\ slot'[j].present = slot[j].present
                         /\ slot'[j].connected = slot[j].connected
                         /\ slot'[j].seen = slot[j].seen
                         /\ j # conn.slot => slot'[j] = slot[j]
                         /\ j = conn.slot => ~slot'[j].probing
    BY <1>9, <1>b, <2>1 DEF ProbeFailed, ProbeEnded, SlotRec
  <2>3. \A j \in Slots : ~slot'[j].probing
    BY <2>2 DEF Timed, ProbingOwnsConn
  <2>4. UNCHANGED <<tick, waits>>
    BY <1>9 DEF ProbeFailed
  <2> QED
    BY <1>a, <1>b, <2>2, <2>3, <2>4, Unhurried
<1>10. ASSUME NEW h \in Handles, ProbeLinkDown(h) PROVE Timed'
  <2>1. CASE UNCHANGED slot
    BY <1>10, <1>c, <2>1 DEF ProbeLinkDown
  <2>2. CASE slot' = [slot EXCEPT ![link[h].slot] = LinkDropped(slot[link[h].slot])]
    <3>1. \A j \in Slots : slot'[j] = slot[j] \/ slot'[j] = LinkDropped(slot[j])
      BY <1>b, <2>2
    <3>2. \A j \in Slots : /\ ~LinkDropped(slot[j]).probing
                           /\ LinkDropped(slot[j]).seen = 0
                           /\ LinkDropped(slot[j]).addr = slot[j].addr
                           /\ LinkDropped(slot[j]).present = slot[j].present
      BY <1>b DEF LinkDropped, SlotRec
    <3>3. UNCHANGED <<tick, conn, waits>>
      BY <1>10 DEF ProbeLinkDown
    <3> QED
      BY <1>a, <1>b, <3>1, <3>2, <3>3, Unhurried
  <2> QED
    BY <1>10, <2>1, <2>2 DEF ProbeLinkDown
<1>11. ASSUME NEW h \in Handles, HidDisconnected(h) PROVE Timed'
  <2>1. \A j \in Slots : slot'[j] = slot[j] \/ slot'[j] = Unlinked(slot[j])
    BY <1>11 DEF HidDisconnected
  <2>2. \A j \in Slots : /\ Unlinked(slot[j]).probing = slot[j].probing
                         /\ Unlinked(slot[j]).seen = 0
                         /\ Unlinked(slot[j]).addr = slot[j].addr
                         /\ Unlinked(slot[j]).present = slot[j].present
    BY <1>b DEF Unlinked, SlotRec
  <2>3. UNCHANGED <<tick, conn, waits>>
    BY <1>11 DEF HidDisconnected
  <2> QED
    BY <1>a, <1>b, <2>1, <2>2, <2>3, Unhurried
<1>12. CASE HostAllocate
  <2>1. UNCHANGED <<tick, conn, waits>> /\ slot' \in Preallocations(slot, host.bonded, rows)
        /\ host.bonded \in SUBSET Peers
    BY <1>12, <1>b DEF HostAllocate, radioVars, HostRec
  <2>2. \A i \in Slots : slot'[i] # slot[i] =>
              /\ slot'[i].addr # NoPeer
              /\ slot'[i].present => slot'[i].seen = 0
              /\ ~slot'[i].probing
    BY <1>b, <2>1, PreallocationsFacts
  <2> QED
    BY <1>a, <1>b, <2>1, <2>2, Unhurried
<1>13. ASSUME NEW h \in Handles, EncChanged(h) \/ RepeatPairing(h) PROVE Timed'
  BY <1>13, <1>c DEF EncChanged, RepeatPairing, codeVars
<1>14. CASE HostRecord
  <2> DEFINE f == [slot EXCEPT ![host.slot].ack = TRUE]
  <2>1. f \in [Slots -> SlotRec]
    <3>1. \A i \in Slots : [slot[i] EXCEPT !.ack = TRUE] \in SlotRec
      BY <1>b DEF SlotRec
    <3> QED
      BY <1>b, <3>1
  <2>2. \A j \in Slots : /\ f[j].addr = slot[j].addr
                         /\ f[j].present = slot[j].present
                         /\ f[j].connected = slot[j].connected
                         /\ f[j].probing = slot[j].probing
                         /\ f[j].seen = slot[j].seen
    BY <1>b DEF SlotRec
  <2>3. UNCHANGED <<tick, conn, waits>>
        /\ (slot' = f \/ slot' = MarkConnected(f, host.peer))
    BY <1>14, RecordEventWaits DEF HostRecord, AfterSeen, radioVars
  <2> HIDE DEF f
  <2>4. \A j \in Slots : /\ slot'[j].addr = f[j].addr
                         /\ slot'[j].present = f[j].present
                         /\ f[j].connected => slot'[j].connected
                         /\ slot'[j].probing = f[j].probing
                         /\ slot'[j].seen = f[j].seen
    BY <2>1, <2>3, MarkConnectedFacts
  <2> QED
    BY <1>a, <1>b, <2>2, <2>3, <2>4, Unhurried
<1>15. ASSUME NEW p \in Peers, RevokeBond(p) \/ Moves(p) PROVE Timed'
  BY <1>15, <1>c DEF RevokeBond, Moves, codeVars
<1>16. CASE RevokeSlot
  <2>1. \A j \in Slots : slot'[j] = slot[j] \/ slot'[j] = FreeSlot
    BY <1>16 DEF RevokeSlot
  <2>2. UNCHANGED <<tick, conn, waits>> /\ ~FreeSlot.present /\ ~FreeSlot.probing
    BY <1>16 DEF RevokeSlot, radioVars, FreeSlot
  <2> QED
    BY <1>a, <1>b, <2>1, <2>2, Unhurried
<1>17. CASE ResetEvents
  <2>1. \A j \in Slots : slot'[j] = slot[j] \/ slot'[j] = [slot[j] EXCEPT !.ack = FALSE]
    BY <1>17 DEF ResetEvents
  <2>2. \A j \in Slots : /\ slot'[j].addr = slot[j].addr
                         /\ slot'[j].present = slot[j].present
                         /\ slot'[j].connected = slot[j].connected
                         /\ slot'[j].probing = slot[j].probing
                         /\ slot'[j].seen = slot[j].seen
    BY <1>b, <2>1 DEF SlotRec
  <2>3. UNCHANGED <<tick, conn, waits>>
    BY <1>17 DEF ResetEvents, radioVars
  <2> QED
    BY <1>a, <1>b, <2>2, <2>3, Unhurried
<1>18. CASE \/ WipeRows \/ PairingStart \/ PairingEnd \/ ClockSynced \/ NtpServerChanged
            \/ \E t \in TimeoutMin .. TimeoutMax : SetTimeout(t)
  BY <1>18, <1>c DEF WipeRows, PairingStart, PairingEnd, ClockSynced, NtpServerChanged,
                     SetTimeout, radioVars
<1>19. CASE Boot
  <2> DEFINE f == [i \in Slots |-> FreeSlot]
  <2>1. f \in [Slots -> SlotRec] /\ \A i \in Slots : f[i] = FreeSlot
    BY SizesAssumption, Ages DEF FreeSlot, SlotRec, Handles
  <2>2. slot' \in Preallocations(f, bonds, rows)
    BY <1>19 DEF Boot
  <2> HIDE DEF f
  <2>3. \A i \in Slots : /\ ~slot'[i].probing
                         /\ slot'[i].present => slot'[i].seen = 0 /\ slot'[i].addr # NoPeer
    BY <1>b, <2>1, <2>2, PreallocationsFacts DEF FreeSlot
  <2>4. \A i \in Slots : SeenBound(i)' \in Nat
    BY <1>a, <2>3, TimedNumbers DEF SeenBound
  <2> QED
    BY <2>3, <2>4 DEF Timed, ProbingOwnsConn, SeenBounded, FreeIsAbsent, Used
<1>20. ASSUME NEW p \in Peers, Advertised(p) PROVE Timed'
  BY <1>7, <1>20 DEF Advertised
<1>21. ASSUME NEW h \in Handles, NEW p \in Peers, HidConnected(p, h) PROVE Timed'
  BY <1>7, <1>21 DEF HidConnected
<1>22. CASE HostWaits \/ \E i \in Slots : TickWaits(i)
  BY <1>22, <1>c DEF HostWaits, TickWaits, codeVars, radioVars
<1>23. CASE Stalled
  <2>1. \A i \in Slots : /\ slot'[i].addr = slot[i].addr
                         /\ slot'[i].present = slot[i].present
                         /\ slot'[i].probing = slot[i].probing
    BY <1>a, <1>23, AgeingFacts DEF Stalled
  <2>2. conn'.slot = conn.slot
    BY <1>a, <1>23 DEF Stalled, TypeOK, ConnRec
  <2>3. waits' # "none"
    BY <1>23 DEF Stalled
  <2> QED
    BY <2>1, <2>2, <2>3 DEF Timed, ProbingOwnsConn, SeenBounded, FreeIsAbsent, Used
<1> QED
  BY <1>1, <1>2, <1>3, <1>4, <1>5, <1>6, <1>8, <1>9, <1>10, <1>11, <1>12, <1>13, <1>14,
     <1>15, <1>16, <1>17, <1>18, <1>19, <1>20, <1>21, <1>22, <1>23
  DEF Next, Tick, Radio, Admin, World, Stall

\* In every reachable state probing slots own the connect procedure and no age is
\* beyond what the tick in progress allows.
LEMMA AlwaysTimed == Spec => []Timed
<1>1. Init => Timed
  <2> SUFFICES ASSUME Init PROVE Timed
    OBVIOUS
  <2> DEFINE f == [i \in Slots |-> FreeSlot]
  <2>1. TypeOK
    BY InitTyped DEF Typed
  <2>2. f \in [Slots -> SlotRec] /\ \A i \in Slots : f[i] = FreeSlot
    BY SizesAssumption, Ages DEF FreeSlot, SlotRec, Handles
  <2>3. slot \in Preallocations(f, bonds, rows) /\ bonds \in SUBSET Peers
        /\ rows \in [Peers -> RowsRec]
    BY <2>1 DEF Init, TypeOK
  <2> HIDE DEF f
  <2>4. \A i \in Slots : /\ ~slot[i].probing
                         /\ slot[i].present => slot[i].seen = 0 /\ slot[i].addr # NoPeer
    BY <2>2, <2>3, PreallocationsFacts DEF FreeSlot
  <2>5. \A i \in Slots : SeenBound(i) \in Nat
    BY <2>1, <2>4, TimedNumbers DEF SeenBound
  <2> QED
    BY <2>4, <2>5 DEF Timed, ProbingOwnsConn, SeenBounded, FreeIsAbsent, Used
<1> QED
  BY <1>1, NextTimed, AlwaysTyped, PTL DEF Spec

\* A slot that is probing owns the connect procedure that will end the probe, so no
\* slot's next probe and OUT are suppressed for ever.
THEOREM ProbingOwns == Spec => []ProbingOwnsConn
<1>1. Timed => ProbingOwnsConn
  BY DEF Timed
<1> QED
  BY <1>1, AlwaysTimed, PTL

\* A peer without a link is shown present for at most the timeout, one probe and one
\* tick after its last sign of life, for every choice of the timer values, as long as
\* no task has waited for the log.
THEOREM OutIsPrompt == Spec => []PromptOut
<1>1. Typed /\ Timed => PromptOut
  <2> SUFFICES ASSUME Typed, Timed, waits = "none",
                      NEW i \in Slots, slot[i].present, ~slot[i].connected
               PROVE  slot[i].seen < AgeMax
    BY DEF PromptOut
  <2>1. slot[i].seen <= SeenBound(i)
    BY DEF Timed, SeenBounded
  <2> QED
    BY <2>1, TimedNumbers DEF SeenBound, AgeMax, Typed
<1> QED
  BY <1>1, AlwaysTyped, AlwaysTimed, PTL

-----------------------------------------------------------------------------
(***************************************************************************)
(* Slots and peers.                                                        *)
(***************************************************************************)
\* Every step keeps the peers of the slots distinct.
LEMMA NextDistinct == Typed /\ OneSlotPerPeer /\ [Next]_vars => OneSlotPerPeer'
<1> SUFFICES ASSUME Typed, OneSlotPerPeer, [Next]_vars PROVE OneSlotPerPeer'
  OBVIOUS
<1>a. TypeOK
  BY DEF Typed
<1>b. /\ slot \in [Slots -> SlotRec]
      /\ \A i \in Slots : slot[i] \in SlotRec /\ slot[i].addr \in Peers \cup {NoPeer}
      /\ near \in SUBSET Peers /\ rows \in [Peers -> RowsRec]
      /\ bonds \in SUBSET Peers /\ bonds' \in SUBSET Peers
  BY <1>a, NextTyped DEF TypeOK, SlotRec, Typed
\* Steps that keep or clear the peer of every slot.
<1>c. ASSUME \A i \in Slots : slot'[i].addr \in {slot[i].addr, NoPeer}
      PROVE  OneSlotPerPeer'
  BY <1>c DEF OneSlotPerPeer, Used
\* Steps of presence_seen_addr, which claims a slot for one peer without any.
<1>d. ASSUME NEW f \in [Slots -> SlotRec], \A i \in Slots : f[i].addr = slot[i].addr,
             NEW p \in Peers \cup {NoPeer}, NEW then \in {"none", "hid", "probe"},
             SeenThen(f, p, then)
      PROVE  OneSlotPerPeer'
  <2>1. \A i \in Slots : \/ slot'[i].addr = f[i].addr
                         \/ /\ slot'[i].addr = p
                            /\ \A j \in Slots : f[j].addr # p
                            /\ i = SeenAt(f, p)
    BY <1>a, <1>d, SeenThenFacts
  <2> QED
    BY <1>d, <2>1 DEF OneSlotPerPeer, Used
\* Steps that pre-allocate slots.
<1>e. ASSUME NEW f \in [Slots -> SlotRec], NEW B \in SUBSET Peers,
             \A i, j \in Slots : f[i].addr # NoPeer /\ f[i].addr = f[j].addr => i = j,
             slot' \in Preallocations(f, B, rows)
      PROVE  OneSlotPerPeer'
  <2>1. /\ \A i \in Slots : slot'[i] # f[i] => \A j \in Slots : f[j].addr # slot'[i].addr
        /\ \A i, j \in Slots : /\ slot'[i] # f[i] /\ slot'[j] # f[j]
                               /\ slot'[i].addr = slot'[j].addr
                               => i = j
    BY <1>b, <1>e, PreallocationsFacts
  <2> QED
    BY <1>e, <2>1 DEF OneSlotPerPeer, Used
<1>1. CASE UNCHANGED slot
  BY <1>1, <1>c
<1>2. CASE ClockTick \/ Stalled
  BY <1>2, <1>a, <1>c, AgeingFacts DEF ClockTick, Stalled
<1>3. ASSUME NEW i \in Slots, TickEval(i) PROVE OneSlotPerPeer'
  <2>1. /\ Refreshed(slot[i]) \in SlotRec /\ Refreshed(slot[i]).addr = slot[i].addr
        /\ tick.at = i
    BY <1>3, <1>b, RefreshedFacts DEF TickEval
  <2>2. TickRest(i, Refreshed(slot[i])) =>
          /\ \A j \in Slots : j # i => slot'[j] = slot[j]
          /\ slot'[i].addr = slot[i].addr
    BY <1>a, <2>1, TickRestFacts
  <2>3. \/ slot' = slot
        \/ slot' = [slot EXCEPT ![i] = Refreshed(slot[i])]
        \/ TickRest(i, Refreshed(slot[i]))
    BY <1>3 DEF TickEval
  <2> QED
    BY <1>b, <1>c, <2>1, <2>2, <2>3
<1>4. ASSUME NEW i \in Slots, TickIn(i) PROVE OneSlotPerPeer'
  <2>1. /\ [slot[i] EXCEPT !.ack = TRUE] \in SlotRec
        /\ [slot[i] EXCEPT !.ack = TRUE].addr = slot[i].addr
    BY <1>b DEF SlotRec
  <2>2. /\ \A j \in Slots : j # i => slot'[j] = slot[j]
        /\ slot'[i].addr = slot[i].addr
    BY <1>4, <1>a, <2>1, TickRestFacts DEF TickIn
  <2> QED
    BY <1>c, <2>2
<1>5. ASSUME NEW i \in Slots, TickOut(i) PROVE OneSlotPerPeer'
  <2>1. \A j \in Slots : slot'[j].addr = slot[j].addr
    BY <1>5, <1>b DEF TickOut, SlotRec
  <2> QED
    BY <1>c, <2>1
<1>6. ASSUME NEW p \in Peers, Advertised(p) PROVE OneSlotPerPeer'
  BY <1>6, <1>b, <1>d DEF Advertised
<1>7. ASSUME NEW h \in Handles, ProbeConnected(h) PROVE OneSlotPerPeer'
  <2> DEFINE i == conn.slot
             f == Answered(i, h)
  <2>1. i \in Slots
    BY <1>7, <1>a, SizesAssumption DEF ProbeConnected, TypeOK, ConnRec, Slots
  <2>2. f \in [Slots -> SlotRec] /\ \A j \in Slots : f[j].addr = slot[j].addr
    BY <1>b, <2>1, AnsweredFacts
  <2>3. SeenThen(f, slot[i].addr, "probe") /\ slot[i].addr \in Peers \cup {NoPeer}
    BY <1>7, <1>b, <2>1 DEF ProbeConnected
  <2> HIDE DEF f
  <2> QED
    BY <1>d, <2>2, <2>3
<1>8. CASE ProbeFailed
  <2>1. \A j \in Slots : slot'[j].addr = slot[j].addr
    BY <1>8, <1>b DEF ProbeFailed, ProbeEnded, SlotRec
  <2> QED
    BY <1>c, <2>1
<1>9. ASSUME NEW h \in Handles, ProbeLinkDown(h) PROVE OneSlotPerPeer'
  <2>1. \A j \in Slots : slot'[j] = slot[j] \/ slot'[j] = LinkDropped(slot[j])
    BY <1>9, <1>b DEF ProbeLinkDown
  <2>2. \A j \in Slots : LinkDropped(slot[j]).addr = slot[j].addr
    BY <1>b DEF LinkDropped, SlotRec
  <2> QED
    BY <1>c, <2>1, <2>2
<1>10. ASSUME NEW h \in Handles, NEW p \in Peers, HidConnected(p, h) PROVE OneSlotPerPeer'
  BY <1>10, <1>b, <1>d DEF HidConnected
<1>11. ASSUME NEW h \in Handles, HidDisconnected(h) PROVE OneSlotPerPeer'
  <2>1. \A j \in Slots : slot'[j] = slot[j] \/ slot'[j] = Unlinked(slot[j])
    BY <1>11 DEF HidDisconnected
  <2>2. \A j \in Slots : Unlinked(slot[j]).addr = slot[j].addr
    BY <1>b DEF Unlinked, SlotRec
  <2> QED
    BY <1>c, <2>1, <2>2
<1>12. CASE HostAllocate
  BY <1>12, <1>a, <1>b, <1>e DEF HostAllocate, TypeOK, HostRec, OneSlotPerPeer, Used
<1>13. CASE HostRecord
  <2> DEFINE f == [slot EXCEPT ![host.slot].ack = TRUE]
  <2>1. f \in [Slots -> SlotRec] /\ \A j \in Slots : f[j].addr = slot[j].addr
    <3>1. \A i \in Slots : [slot[i] EXCEPT !.ack = TRUE] \in SlotRec
      BY <1>b DEF SlotRec
    <3>2. f \in [Slots -> SlotRec]
      BY <1>b, <3>1
    <3>3. \A j \in Slots : f[j].addr = slot[j].addr
      BY <1>b DEF SlotRec
    <3> QED
      BY <3>2, <3>3
  <2>2. slot' = f \/ slot' = MarkConnected(f, host.peer)
    BY <1>13 DEF HostRecord, AfterSeen
  <2> HIDE DEF f
  <2>3. \A j \in Slots : slot'[j].addr = slot[j].addr
    BY <2>1, <2>2, MarkConnectedFacts
  <2> QED
    BY <1>c, <2>3
<1>14. CASE RevokeSlot
  BY <1>14, <1>c DEF RevokeSlot, FreeSlot
<1>15. CASE ResetEvents
  <2>1. \A j \in Slots : slot'[j] = slot[j] \/ slot'[j] = [slot[j] EXCEPT !.ack = FALSE]
    BY <1>15 DEF ResetEvents
  <2>2. \A j \in Slots : slot'[j].addr = slot[j].addr
    BY <1>b, <2>1 DEF SlotRec
  <2> QED
    BY <1>c, <2>2
<1>16. CASE Boot
  <2> DEFINE f == [i \in Slots |-> FreeSlot]
  <2>1. f \in [Slots -> SlotRec] /\ \A i \in Slots : f[i].addr = NoPeer
    BY SizesAssumption, Ages DEF FreeSlot, SlotRec, Handles
  <2>2. slot' \in Preallocations(f, bonds, rows)
    BY <1>16 DEF Boot
  <2> HIDE DEF f
  <2> QED
    BY <1>b, <1>e, <2>1, <2>2
<1>17. CASE \/ ScanRestart \/ WipeRows \/ PairingStart \/ PairingEnd \/ ClockSynced
            \/ NtpServerChanged
            \/ \E t \in TimeoutMin .. TimeoutMax : SetTimeout(t)
            \/ \E p \in Peers : RevokeBond(p) \/ Moves(p)
            \/ \E h \in Handles : EncChanged(h) \/ RepeatPairing(h)
            \/ HostWaits \/ (\E i \in Slots : TickWaits(i))
            \/ UNCHANGED vars
  BY <1>1, <1>17 DEF ScanRestart, WipeRows, PairingStart, PairingEnd, ClockSynced,
    NtpServerChanged, SetTimeout, RevokeBond, Moves, EncChanged, RepeatPairing, HostWaits,
    TickWaits, codeVars, vars
<1> QED
  BY <1>2, <1>3, <1>4, <1>5, <1>6, <1>7, <1>8, <1>9, <1>10, <1>11, <1>12, <1>13, <1>14,
     <1>15, <1>16, <1>17
  DEF Next, Tick, Radio, Admin, World, Stall

\* No peer ever has two slots, however the tasks that claim, pre-allocate and free
\* slots interleave.
THEOREM SlotsDistinct == Spec => []OneSlotPerPeer
<1>1. Init => OneSlotPerPeer
  <2> SUFFICES ASSUME Init PROVE OneSlotPerPeer
    OBVIOUS
  <2> DEFINE f == [i \in Slots |-> FreeSlot]
  <2>1. f \in [Slots -> SlotRec] /\ \A i \in Slots : f[i].addr = NoPeer
    BY SizesAssumption, Ages DEF FreeSlot, SlotRec, Handles
  <2>2. slot \in Preallocations(f, bonds, rows) /\ bonds \in SUBSET Peers
        /\ rows \in [Peers -> RowsRec]
    BY InitTyped DEF Init, Typed, TypeOK
  <2> HIDE DEF f
  <2>3. ASSUME NEW i \in Slots, NEW j \in Slots, slot[i] # f[i], slot[j] # f[j],
               slot[i].addr = slot[j].addr
        PROVE  i = j
    BY <2>1, <2>2, <2>3, PreallocationsFacts
  <2> QED
    BY <2>1, <2>3 DEF OneSlotPerPeer, Used
<1> QED
  BY <1>1, NextDistinct, AlwaysTyped, PTL DEF Spec

-----------------------------------------------------------------------------
(***************************************************************************)
(* Every bonded phone is tracked, as long as there are no more phones than *)
(* slots.  While ENC_CHANGE scans the log it holds a list of bonds, which  *)
(* may have shrunk by the time it gives out the slots but cannot have      *)
(* grown; and a phone whose slot a revoke is about to free has lost its    *)
(* bond before.                                                            *)
(***************************************************************************)
EnoughSlots == IsFiniteSet(Peers) /\ Cardinality(Peers) <= MaxSlots

Tracked ==
    /\ BondedTracked
    /\ host.then = "alloc" => bonds \subseteq host.bonded
    /\ host.slot # 0 => host.then # "alloc"
    /\ http.op = "revoke" => http.peer \notin bonds

\* Slots that are all in use, by different phones, hold every phone.
LEMMA FullHoldsAll ==
  ASSUME EnoughSlots, NEW g \in [Slots -> SlotRec],
         \A i \in Slots : g[i].addr \in Peers,
         \A i, j \in Slots : g[i].addr = g[j].addr => i = j
  PROVE  \A p \in Peers : \E i \in Slots : g[i].addr = p
<1> DEFINE f == [i \in Slots |-> g[i].addr]
<1>1. f \in [Slots -> Peers] /\ \A i, j \in Slots : f[i] = f[j] => i = j
  OBVIOUS
<1>2. f \in Injection(Slots, Peers)
  BY <1>1, Fun_IsInj
<1>3. MaxSlots \in Nat /\ MaxSlots >= 1
  BY SizesAssumption
<1>4. Cardinality(Slots) = MaxSlots
  <2>1. Cardinality(1 .. MaxSlots) = IF 1 > MaxSlots THEN 0 ELSE MaxSlots - 1 + 1
    BY <1>3, FS_Interval
  <2> QED BY <1>3, <2>1 DEF Slots
<1>5. Cardinality(Slots) <= Cardinality(Peers)
      /\ (Cardinality(Slots) = Cardinality(Peers) <=> f \in Surjection(Slots, Peers))
  BY <1>2, FS_Injection DEF EnoughSlots
<1>6. Cardinality(Peers) \in Nat
  BY FS_CardinalityType DEF EnoughSlots
<1>7. f \in Surjection(Slots, Peers)
  BY <1>3, <1>4, <1>5, <1>6 DEF EnoughSlots
<1>8. \A p \in Peers : \E i \in Slots : f[i] = p
  BY <1>7 DEF Surjection
<1> QED BY <1>8

\* Pre-allocation takes no slot away.
LEMMA UsedStay ==
  ASSUME NEW f, NEW bonded, NEW log, NEW g \in Preallocations(f, bonded, log)
  PROVE  \A i \in Slots : f[i].addr # NoPeer => g[i] = f[i]
<1> DEFINE free == {i \in Slots : f[i].addr = NoPeer}
<1>1. PICK m \in [free -> Untracked(f, bonded) \cup {NoPeer}] :
        g = [i \in Slots |-> IF i \in free /\ m[i] # NoPeer
                             THEN ResumedSlot(m[i], log) ELSE f[i]]
  BY DEF Preallocations
<1> QED BY <1>1

\* presence_preallocate_bonded leaves no bonded phone without a slot, and takes none
\* away.
LEMMA Allocates ==
  ASSUME EnoughSlots, NEW f \in [Slots -> SlotRec], NEW bonded \in SUBSET Peers,
         NEW log \in [Peers -> RowsRec], NEW g \in Preallocations(f, bonded, log),
         \A i, j \in Slots : f[i].addr # NoPeer /\ f[i].addr = f[j].addr => i = j
  PROVE  /\ \A p \in bonded : \E i \in Slots : g[i].addr = p
         /\ \A i \in Slots : f[i].addr # NoPeer => g[i] = f[i]
<1>0. g \in [Slots -> SlotRec]
  BY PreallocationsFacts
<1> DEFINE free == {i \in Slots : f[i].addr = NoPeer}
           missing == Untracked(f, bonded)
<1>1. PICK m \in [free -> missing \cup {NoPeer}] :
        /\ \A i, j \in free : m[i] = m[j] /\ m[i] # NoPeer => i = j
        /\ \/ \A i \in free : m[i] # NoPeer
           \/ \A p \in missing : \E i \in free : m[i] = p
        /\ g = [i \in Slots |-> IF i \in free /\ m[i] # NoPeer
                                THEN ResumedSlot(m[i], log) ELSE f[i]]
  BY DEF Preallocations
<1>3. \A p \in missing : p \in Peers /\ p # NoPeer /\ \A j \in Slots : f[j].addr # p
  BY PeersAssumption DEF Untracked
<1>4. \A p \in bonded : p \in missing \/ \E i \in Slots : f[i].addr = p
  BY DEF Untracked
<1> HIDE DEF missing
<1>5. \A i \in free : m[i] # NoPeer => g[i].addr = m[i]
  BY <1>1 DEF ResumedSlot
<1>6. \A i \in Slots : f[i].addr # NoPeer => g[i] = f[i]
  BY UsedStay
<1>7. CASE \A p \in missing : \E i \in free : m[i] = p
  <2>1. ASSUME NEW p \in bonded PROVE \E i \in Slots : g[i].addr = p
    <3>1. CASE p \in missing
      BY <1>3, <1>5, <1>7, <3>1
    <3>2. CASE \E i \in Slots : f[i].addr = p
      BY <1>6, <3>2, PeersAssumption
    <3> QED BY <1>4, <3>1, <3>2
  <2> QED BY <1>6, <2>1
<1>8. CASE \A i \in free : m[i] # NoPeer
  <2>1. \A i \in Slots : g[i].addr # NoPeer
    BY <1>5, <1>6, <1>8
  <2>2. \A i \in Slots : g[i].addr \in Peers
    BY <1>0, <2>1 DEF SlotRec
  <2>3. \A i \in free : g[i].addr = m[i] /\ m[i] \in missing
    BY <1>5, <1>8
  <2>4. \A i \in Slots : i \notin free => f[i].addr # NoPeer /\ g[i] = f[i]
    BY <1>6
  <2>5. ASSUME NEW i \in Slots, NEW j \in Slots, g[i].addr = g[j].addr PROVE i = j
    <3>1. CASE i \in free /\ j \in free
      BY <1>1, <1>8, <2>5, <2>3, <3>1
    <3>2. CASE i \notin free /\ j \notin free
      BY <2>5, <2>4, <3>2
    <3>3. CASE i \in free /\ j \notin free
      BY <1>3, <2>5, <2>3, <2>4, <3>3
    <3>4. CASE i \notin free /\ j \in free
      BY <1>3, <2>5, <2>3, <2>4, <3>4
    <3> QED BY <3>1, <3>2, <3>3, <3>4
  <2>6. \A p \in Peers : \E i \in Slots : g[i].addr = p
    BY <1>0, <2>2, <2>5, FullHoldsAll
  <2> QED BY <1>6, <2>6
<1> QED BY <1>1, <1>7, <1>8

\* Nothing but a revoke and a restart takes a slot from its phone.
LEMMA KeepsAddresses ==
  ASSUME Typed, [Next]_vars, ~RevokeSlot, ~Boot
  PROVE  \A i \in Slots : Used(i) => slot'[i].addr = slot[i].addr
<1> DEFINE Kept == \A i \in Slots : slot[i].addr # NoPeer => slot'[i].addr = slot[i].addr
<1> SUFFICES Kept
  BY DEF Used
<1>a. TypeOK
  BY DEF Typed
<1>b. /\ slot \in [Slots -> SlotRec]
      /\ \A i \in Slots : slot[i] \in SlotRec /\ slot[i].addr \in Peers \cup {NoPeer}
      /\ rows \in [Peers -> RowsRec]
      /\ bonds \in SUBSET Peers
  BY <1>a DEF TypeOK, SlotRec
\* Steps of presence_seen_addr, which claims a free slot or none.
<1>d. ASSUME NEW f \in [Slots -> SlotRec], \A i \in Slots : f[i].addr = slot[i].addr,
             NEW p \in Peers \cup {NoPeer}, NEW then \in {"none", "hid", "probe"},
             SeenThen(f, p, then)
      PROVE  Kept
  <2>1. \A i \in Slots : \/ slot'[i].addr = f[i].addr
                         \/ /\ slot'[i].addr = p
                            /\ \A j \in Slots : f[j].addr # p
                            /\ i = SeenAt(f, p)
    BY <1>a, <1>d, SeenThenFacts
  <2>2. SeenAt(f, p) # 0 => f[SeenAt(f, p)].addr \in {p, NoPeer}
    BY SeenAtFacts
  <2>3. 0 \notin Slots
    BY SizesAssumption DEF Slots
  <2> QED BY <1>d, <2>1, <2>2, <2>3
\* Steps that pre-allocate slots.
<1>e. ASSUME NEW B \in SUBSET Peers, slot' \in Preallocations(slot, B, rows) PROVE Kept
  <2>1. \A i \in Slots : slot[i].addr # NoPeer => slot'[i] = slot[i]
    BY <1>e, UsedStay
  <2> QED BY <2>1
<1>1. CASE slot' = slot
  BY <1>1
<1>2. CASE ClockTick \/ Stalled
  BY <1>2, <1>a, AgeingFacts DEF ClockTick, Stalled
<1>3. ASSUME NEW i \in Slots, TickEval(i) PROVE Kept
  <2>1. /\ Refreshed(slot[i]) \in SlotRec /\ Refreshed(slot[i]).addr = slot[i].addr
        /\ tick.at = i
    BY <1>3, <1>b, RefreshedFacts DEF TickEval
  <2>2. TickRest(i, Refreshed(slot[i])) =>
          /\ \A j \in Slots : j # i => slot'[j] = slot[j]
          /\ slot'[i].addr = slot[i].addr
    BY <1>a, <2>1, TickRestFacts
  <2>3. \/ slot' = slot
        \/ slot' = [slot EXCEPT ![i] = Refreshed(slot[i])]
        \/ TickRest(i, Refreshed(slot[i]))
    BY <1>3 DEF TickEval
  <2> QED BY <1>b, <2>1, <2>2, <2>3
<1>4. ASSUME NEW i \in Slots, TickIn(i) PROVE Kept
  <2>1. /\ [slot[i] EXCEPT !.ack = TRUE] \in SlotRec
        /\ [slot[i] EXCEPT !.ack = TRUE].addr = slot[i].addr
    BY <1>b DEF SlotRec
  <2>2. /\ \A j \in Slots : j # i => slot'[j] = slot[j]
        /\ slot'[i].addr = slot[i].addr
    BY <1>4, <1>a, <2>1, TickRestFacts DEF TickIn
  <2> QED BY <2>2
<1>5. ASSUME NEW i \in Slots, TickOut(i) PROVE Kept
  BY <1>5, <1>b DEF TickOut, SlotRec
<1>6. ASSUME NEW p \in Peers, Advertised(p) PROVE Kept
  BY <1>6, <1>b, <1>d DEF Advertised
<1>7. ASSUME NEW h \in Handles, ProbeConnected(h) PROVE Kept
  <2> DEFINE i == conn.slot
             f == Answered(i, h)
  <2>1. i \in Slots
    BY <1>7, <1>a, SizesAssumption DEF ProbeConnected, TypeOK, ConnRec, Slots
  <2>2. f \in [Slots -> SlotRec] /\ \A j \in Slots : f[j].addr = slot[j].addr
    BY <1>b, <2>1, AnsweredFacts
  <2>3. SeenThen(f, slot[i].addr, "probe") /\ slot[i].addr \in Peers \cup {NoPeer}
    BY <1>7, <1>b, <2>1 DEF ProbeConnected
  <2> HIDE DEF f
  <2> QED BY <1>d, <2>2, <2>3
<1>8. CASE ProbeFailed
  BY <1>8, <1>b DEF ProbeFailed, ProbeEnded, SlotRec
<1>9. ASSUME NEW h \in Handles, ProbeLinkDown(h) PROVE Kept
  <2>1. \A j \in Slots : slot'[j] = slot[j] \/ slot'[j] = LinkDropped(slot[j])
    BY <1>9, <1>b DEF ProbeLinkDown
  <2> QED BY <1>b, <2>1 DEF LinkDropped, SlotRec
<1>10. ASSUME NEW h \in Handles, NEW p \in Peers, HidConnected(p, h) PROVE Kept
  BY <1>10, <1>b, <1>d DEF HidConnected
<1>11. ASSUME NEW h \in Handles, HidDisconnected(h) PROVE Kept
  <2>1. \A j \in Slots : slot'[j] = slot[j] \/ slot'[j] = Unlinked(slot[j])
    BY <1>11 DEF HidDisconnected
  <2> QED BY <1>b, <2>1 DEF Unlinked, SlotRec
<1>12. CASE HostAllocate
  <2>1. slot' \in Preallocations(slot, host.bonded, rows) /\ host.bonded \in SUBSET Peers
    BY <1>12, <1>a DEF HostAllocate, TypeOK, HostRec
  <2> QED BY <1>e, <2>1
<1>13. CASE HostRecord
  <2> DEFINE f == [slot EXCEPT ![host.slot].ack = TRUE]
  <2>1. f \in [Slots -> SlotRec] /\ \A j \in Slots : f[j].addr = slot[j].addr
    <3>1. \A i \in Slots : [slot[i] EXCEPT !.ack = TRUE] \in SlotRec
      BY <1>b DEF SlotRec
    <3>2. f \in [Slots -> SlotRec]
      BY <1>b, <3>1
    <3>3. \A j \in Slots : f[j].addr = slot[j].addr
      BY <1>b DEF SlotRec
    <3> QED BY <3>2, <3>3
  <2>2. slot' = f \/ slot' = MarkConnected(f, host.peer)
    BY <1>13 DEF HostRecord, AfterSeen
  <2> HIDE DEF f
  <2> QED BY <2>1, <2>2, MarkConnectedFacts
<1>14. CASE ResetEvents
  <2>1. \A j \in Slots : slot'[j] = slot[j] \/ slot'[j] = [slot[j] EXCEPT !.ack = FALSE]
    BY <1>14 DEF ResetEvents
  <2> QED BY <1>b, <2>1 DEF SlotRec
<1>15. CASE \/ ScanRestart \/ WipeRows \/ PairingStart \/ PairingEnd \/ ClockSynced
            \/ NtpServerChanged
            \/ \E t \in TimeoutMin .. TimeoutMax : SetTimeout(t)
            \/ \E p \in Peers : RevokeBond(p) \/ Moves(p)
            \/ \E h \in Handles : EncChanged(h) \/ RepeatPairing(h)
            \/ HostWaits \/ (\E i \in Slots : TickWaits(i))
            \/ UNCHANGED vars
  BY <1>1, <1>15 DEF ScanRestart, WipeRows, PairingStart, PairingEnd, ClockSynced,
    NtpServerChanged, SetTimeout, RevokeBond, Moves, EncChanged, RepeatPairing, HostWaits,
    TickWaits, codeVars, vars
<1> QED
  BY <1>2, <1>3, <1>4, <1>5, <1>6, <1>7, <1>8, <1>9, <1>10, <1>11, <1>12, <1>13, <1>14, <1>15
  DEF Next, Tick, Radio, Admin, World, Stall

\* Bonds are added by ENC_CHANGE alone, which goes on to give out slots; the HTTP
\* task's revoke begins by deleting the bond.
LEMMA BondsGrowAllocating ==
  ASSUME [Next]_vars, ~Boot, ~RevokeSlot, host.slot # 0 => host.then # "alloc"
  PROVE  /\ \/ bonds' \subseteq bonds
            \/ host.then # "alloc" /\ host'.then = "alloc" /\ http.op # "revoke"
         /\ \/ host' = host
            \/ HostAllocate /\ host'.then # "alloc"
            \/ host.then # "alloc" /\ host'.then # "alloc"
            \/ host.then # "alloc" /\ host'.then = "alloc" /\ host'.bonded = bonds'
         /\ host'.slot # 0 => host'.then # "alloc"
         /\ \/ http' = http
            \/ http'.op # "revoke"
            \/ http'.peer \notin bonds'
<1> DEFINE Goal ==
         /\ \/ bonds' \subseteq bonds
            \/ host.then # "alloc" /\ host'.then = "alloc" /\ http.op # "revoke"
         /\ \/ host' = host
            \/ HostAllocate /\ host'.then # "alloc"
            \/ host.then # "alloc" /\ host'.then # "alloc"
            \/ host.then # "alloc" /\ host'.then = "alloc" /\ host'.bonded = bonds'
         /\ host'.slot # 0 => host'.then # "alloc"
         /\ \/ http' = http
            \/ http'.op # "revoke"
            \/ http'.peer \notin bonds'
<1> SUFFICES Goal
  OBVIOUS
<1>h. /\ HostIdle.then = "none" /\ HostIdle.slot = 0
      /\ HttpIdle.op = "none"
  BY DEF HostIdle, HttpIdle
\* Steps that neither touch the bonds nor begin or end an allocation.
<1>q. ASSUME UNCHANGED <<bonds, http>>, host.then # "alloc", host'.then # "alloc" PROVE Goal
  BY <1>q
\* Steps that leave the host task alone and add no bond.
<1>r. ASSUME bonds' \subseteq bonds, host' = host,
             http' = http \/ http'.op # "revoke" \/ http'.peer \notin bonds'
      PROVE  Goal
  BY <1>r
<1> HIDE DEF Goal
<1>1. ASSUME NEW p, NEW f, NEW then \in {"none", "hid", "probe"}, SeenThen(f, p, then),
             host = HostIdle
      PROVE  host.then # "alloc" /\ host'.then # "alloc"
  BY <1>1, <1>h DEF SeenThen
<1>2. CASE ClockTick \/ Tick \/ ScanRestart \/ Stall
  BY <1>2, <1>r DEF ClockTick, Tick, TickEval, TickIn, TickOut, ScanRestart, Stall,
    HostWaits, TickWaits, Stalled, codeVars, radioVars
<1>3. ASSUME NEW p \in Peers, Advertised(p) PROVE Goal
  BY <1>1, <1>3, <1>q DEF Advertised
<1>4. ASSUME NEW h \in Handles, ProbeConnected(h) PROVE Goal
  BY <1>1, <1>4, <1>q DEF ProbeConnected
<1>5. ASSUME NEW h \in Handles, NEW p \in Peers, HidConnected(p, h) PROVE Goal
  BY <1>1, <1>5, <1>q DEF HidConnected
<1>6. CASE ProbeFailed \/ \E h \in Handles : ProbeLinkDown(h) \/ HidDisconnected(h)
  BY <1>6, <1>r DEF ProbeFailed, ProbeLinkDown, HidDisconnected
<1>7. ASSUME NEW h \in Handles, RepeatPairing(h) PROVE Goal
  BY <1>7, <1>r DEF RepeatPairing, codeVars
<1>8. CASE HostRecord
  <2>1. UNCHANGED <<bonds, http>> /\ host' = HostIdle /\ host.slot # 0
    BY <1>8 DEF HostRecord, radioVars
  <2> QED BY <1>h, <1>q, <2>1
<1>9. CASE HostAllocate
  <2>1. UNCHANGED <<bonds, http>> /\ host' = HostIdle
    BY <1>9 DEF HostAllocate, radioVars
  <2> QED BY <1>9, <1>h, <2>1 DEF Goal
<1>10. ASSUME NEW h \in Handles, EncChanged(h) PROVE Goal
  <2>1. host' = [HostIdle EXCEPT !.then = "alloc", !.bonded = bonds'] /\ host = HostIdle
        /\ http' = http /\ (bonds' = bonds \/ http.op # "revoke")
    BY <1>10 DEF EncChanged
  <2>2. host'.then = "alloc" /\ host'.bonded = bonds' /\ host'.slot = 0
    BY <2>1 DEF HostIdle
  <2> QED BY <1>h, <2>1, <2>2 DEF Goal
<1>11. ASSUME NEW p \in Peers, RevokeBond(p) PROVE Goal
  <2>1. bonds' = bonds \ {p} /\ host' = host /\ http' = [op |-> "revoke", peer |-> p]
    BY <1>11 DEF RevokeBond
  <2>2. http'.peer \notin bonds'
    BY <2>1
  <2> QED BY <1>r, <2>1, <2>2
<1>12. CASE WipeRows \/ ResetEvents
  <2>1. UNCHANGED <<bonds, host>> /\ http'.op # "revoke"
    BY <1>12, <1>h DEF WipeRows, ResetEvents, radioVars
  <2> QED BY <1>r, <2>1
<1>13. CASE \/ PairingStart \/ PairingEnd \/ ClockSynced \/ NtpServerChanged
            \/ \E t \in TimeoutMin .. TimeoutMax : SetTimeout(t)
            \/ \E p \in Peers : Moves(p)
            \/ UNCHANGED vars
  <2>1. UNCHANGED <<bonds, host, http>>
    BY <1>13 DEF PairingStart, PairingEnd, ClockSynced, NtpServerChanged, SetTimeout, Moves,
      radioVars, codeVars, vars
  <2> QED BY <1>r, <2>1
<1> QED
  BY <1>2, <1>3, <1>4, <1>5, <1>6, <1>7, <1>8, <1>9, <1>10, <1>11, <1>12, <1>13
  DEF Next, Radio, Admin, World

\* Every step keeps the bonded phones tracked.
LEMMA NextTracked ==
  ASSUME EnoughSlots
  PROVE  Typed /\ OneSlotPerPeer /\ Tracked /\ [Next]_vars => Tracked'
<1> SUFFICES ASSUME Typed, OneSlotPerPeer, Tracked, [Next]_vars PROVE Tracked'
  OBVIOUS
<1>a. /\ slot \in [Slots -> SlotRec] /\ rows \in [Peers -> RowsRec]
      /\ bonds \in SUBSET Peers /\ host \in HostRec
  BY DEF Typed, TypeOK
<1>b. NoPeer \notin bonds
  BY <1>a, PeersAssumption
<1>h. HostIdle.then = "none" /\ HostIdle.slot = 0 /\ HttpIdle.op = "none"
  BY DEF HostIdle, HttpIdle
<1>1. CASE Boot
  <2> DEFINE f == [i \in Slots |-> FreeSlot]
  <2>1. f \in [Slots -> SlotRec] /\ \A i \in Slots : f[i].addr = NoPeer
    BY SizesAssumption, Ages DEF FreeSlot, SlotRec, Handles
  <2>2. slot' \in Preallocations(f, bonds, rows) /\ bonds' = bonds
        /\ host' = HostIdle /\ http' = HttpIdle
    BY <1>1 DEF Boot
  <2> HIDE DEF f
  <2>3. \A p \in bonds : \E i \in Slots : slot'[i].addr = p
    BY <1>a, <2>1, <2>2, Allocates
  <2> QED BY <1>h, <2>2, <2>3 DEF Tracked, BondedTracked
<1>2. CASE RevokeSlot
  <2>1. UNCHANGED <<bonds, host>> /\ http' = HttpIdle /\ http.op = "revoke"
        /\ \A i \in Slots : slot[i].addr # http.peer => slot'[i] = slot[i]
    BY <1>2 DEF RevokeSlot, radioVars
  <2> QED BY <1>h, <2>1 DEF Tracked, BondedTracked
<1>3. CASE ~Boot /\ ~RevokeSlot
  <2>1. \A i \in Slots : slot[i].addr # NoPeer => slot'[i].addr = slot[i].addr
    BY <1>3, KeepsAddresses DEF Used
  <2>2. /\ \/ bonds' \subseteq bonds
           \/ host.then # "alloc" /\ host'.then = "alloc" /\ http.op # "revoke"
        /\ \/ host' = host
           \/ HostAllocate /\ host'.then # "alloc"
           \/ host.then # "alloc" /\ host'.then # "alloc"
           \/ host.then # "alloc" /\ host'.then = "alloc" /\ host'.bonded = bonds'
        /\ host'.slot # 0 => host'.then # "alloc"
        /\ \/ http' = http
           \/ http'.op # "revoke"
           \/ http'.peer \notin bonds'
    BY <1>3, BondsGrowAllocating DEF Tracked
  <2>3. host'.then # "alloc" => bonds' \subseteq {slot'[i].addr : i \in Slots}
    <3>1. CASE host.then # "alloc" /\ host'.then # "alloc"
      BY <1>b, <2>1, <2>2, <3>1 DEF Tracked, BondedTracked
    <3>2. CASE HostAllocate /\ host'.then # "alloc"
      <4>1. /\ slot' \in Preallocations(slot, host.bonded, rows) /\ bonds' = bonds
            /\ host.bonded \in SUBSET Peers /\ bonds \subseteq host.bonded
        BY <1>a, <3>2 DEF HostAllocate, radioVars, HostRec, Tracked
      <4>2. ASSUME NEW B \in SUBSET Peers, slot' \in Preallocations(slot, B, rows)
            PROVE  \A p \in B : \E i \in Slots : slot'[i].addr = p
        BY <1>a, <4>2, Allocates DEF OneSlotPerPeer, Used
      <4> QED BY <4>1, <4>2
    <3> QED BY <2>2, <3>1, <3>2
  <2>4. host'.then = "alloc" => bonds' \subseteq host'.bonded
    BY <2>2 DEF Tracked
  <2>5. http'.op = "revoke" => http'.peer \notin bonds'
    BY <2>2 DEF Tracked
  <2> QED BY <2>2, <2>3, <2>4, <2>5 DEF Tracked, BondedTracked
<1> QED BY <1>1, <1>2, <1>3

\* The bonded phones are tracked from the start.
LEMMA AlwaysTracked == ASSUME EnoughSlots PROVE Spec => []Tracked
<1>1. Init => Tracked
  <2> SUFFICES ASSUME Init PROVE Tracked
    OBVIOUS
  <2> DEFINE f == [i \in Slots |-> FreeSlot]
  <2>1. f \in [Slots -> SlotRec] /\ \A i \in Slots : f[i].addr = NoPeer
    BY SizesAssumption, Ages DEF FreeSlot, SlotRec, Handles
  <2>2. slot \in Preallocations(f, bonds, rows) /\ bonds \in SUBSET Peers
        /\ rows \in [Peers -> RowsRec] /\ host = HostIdle /\ http = HttpIdle
    BY InitTyped DEF Init, Typed, TypeOK
  <2> HIDE DEF f
  <2>3. \A p \in bonds : \E i \in Slots : slot[i].addr = p
    BY <2>1, <2>2, Allocates
  <2>4. HostIdle.then = "none" /\ HttpIdle.op = "none"
    BY DEF HostIdle, HttpIdle
  <2> QED BY <2>2, <2>3, <2>4 DEF Tracked, BondedTracked
<1>2. Typed /\ OneSlotPerPeer /\ Tracked /\ [Next]_vars => Tracked'
  BY NextTracked
<1> QED BY <1>1, <1>2, AlwaysTyped, SlotsDistinct, PTL DEF Spec

(***************************************************************************)
(* BondedTracked (dd_ble.c:671): although ENC_CHANGE, revocations, GAP     *)
(* callbacks and restarts give out and free slots without a lock, a bonded *)
(* phone has one whenever none are being given out, if there are no more   *)
(* phones than slots.                                                      *)
(***************************************************************************)
THEOREM BondedHaveSlots == ASSUME EnoughSlots PROVE Spec => []BondedTracked
<1>1. Tracked => BondedTracked
  BY DEF Tracked
<1>2. Spec => []Tracked
  BY AlwaysTracked
<1> QED BY <1>1, <1>2, PTL

-----------------------------------------------------------------------------
(***************************************************************************)
(* What the slots say of the phones is true, as long as no bond is revoked *)
(* from the web page.  The slots say it by their marks and by their ages:  *)
(* a mark stands for a link (Marks), and a phone with a link is being      *)
(* heard (HeardLinks); the age of a present slot is no less than the time  *)
(* its phone was last heard, if no task has waited for the log and nothing *)
(* was restarted (Fresh).  A probe finds its slot by an index   *)
(* it was given long ago, and the end of its link finds it by a handle:    *)
(* both still lead to the same phone (Aims, ProbeLinks).                   *)
(***************************************************************************)
NoRevocation == "revoke" \notin Features

\* A tick that is recording an IN does so for a phone; no revoke ever begins.
Visited ==
    /\ http.op # "revoke"
    /\ tick.phase = "in" => tick.at \in Slots /\ Used(tick.at)

HeardLinks == \A p \in Peers : Linked(p) => heard[p] = 0

OneLink ==
    \A g, h \in Handles : link[g].peer # NoPeer /\ link[g].peer = link[h].peer => g = h

ProbeLinks ==
    \A h \in Handles : link[h].via = "probe" =>
        /\ link[h].slot \in Slots
        /\ slot[link[h].slot].handle = h
        /\ slot[link[h].slot].addr = link[h].peer
        /\ slot[link[h].slot].connected

Marks == \A i \in Slots : slot[i].connected => Used(i) /\ Linked(slot[i].addr)

Aims == conn.slot # 0 => conn.peer \in Peers /\ slot[conn.slot].addr = conn.peer

Holds ==
    /\ host.then = "hid" => Linked(host.peer)
    /\ waits = "none" /\ host.then = "alloc" =>
         \A p \in host.bonded : heard[p] = 0 \/ \E i \in Slots : slot[i].addr = p

Fresh ==
    waits = "none" /\ "reboot" \notin Features =>
        \A i \in Slots : Used(i) /\ slot[i].present => heard[slot[i].addr] <= slot[i].seen

Truthful == HeardLinks /\ OneLink /\ ProbeLinks /\ Marks /\ Aims /\ Holds /\ Fresh

\* What presence_seen_addr and the rest of its callback do to the fields of a slot.
LEMMA SeenFields ==
  ASSUME NEW f \in [Slots -> SlotRec], NEW p \in Peers,
         NEW then \in {"none", "hid", "probe"}, SeenThen(f, p, then)
  PROVE  /\ \A i \in Slots :
              /\ \/ slot'[i].addr = f[i].addr
                 \/ f[i].addr = NoPeer /\ slot'[i].addr = p
              /\ f[i].addr # NoPeer => slot'[i].handle = f[i].handle
              /\ slot'[i].connected =>
                   f[i].connected \/ (then = "hid" /\ slot'[i].addr = p)
              /\ f[i].connected => slot'[i].connected
              /\ slot'[i].present =>
                   \/ slot'[i].addr = p
                   \/ /\ slot'[i].addr = f[i].addr
                      /\ f[i].present /\ slot'[i].seen = f[i].seen
         /\ host' = host \/ (host'.then = then /\ host'.peer = p)
<1> DEFINE g == SeenSlots(f, p)
           k == SeenAt(f, p)
           base == IF f[k].addr = p THEN f[k] ELSE Claimed(f[k], p)
           new == [base EXCEPT !.seen = 0, !.present = TRUE]
<1>p. p # NoPeer
  BY PeersAssumption
<1>1. \A i \in Slots : g[i] = IF i # k THEN f[i] ELSE new
  BY DEF SeenSlots
<1>2. k # 0 => k \in Slots /\ f[k].addr \in {p, NoPeer}
  BY SeenAtFacts
<1>3. 0 \notin Slots
  BY SizesAssumption DEF Slots
<1>4. ASSUME k \in Slots, f[k].addr \in {p, NoPeer}
      PROVE  /\ new.addr = p /\ new.connected = f[k].connected
             /\ f[k].addr # NoPeer => new.handle = f[k].handle
  <2>1. f[k] \in SlotRec
    BY <1>4
  <2>2. CASE f[k].addr = p
    BY <1>p, <2>1, <2>2 DEF SlotRec
  <2>3. CASE f[k].addr # p
    BY <1>4, <1>p, <2>1, <2>3 DEF SlotRec, Claimed
  <2> QED BY <2>2, <2>3
<1> HIDE DEF new, base
<1>5. \A i \in Slots : f[i] \in SlotRec
  OBVIOUS
<1>6. g \in [Slots -> SlotRec]
  BY SeenSlotsFacts
<1>7. \A i \in Slots :
              /\ \/ g[i].addr = f[i].addr
                 \/ f[i].addr = NoPeer /\ g[i].addr = p
              /\ f[i].addr # NoPeer => g[i].handle = f[i].handle
              /\ g[i].connected = f[i].connected
              /\ g[i].addr = p \/ g[i] = f[i]
  <2> SUFFICES ASSUME NEW i \in Slots
               PROVE  /\ \/ g[i].addr = f[i].addr
                         \/ f[i].addr = NoPeer /\ g[i].addr = p
                      /\ f[i].addr # NoPeer => g[i].handle = f[i].handle
                      /\ g[i].connected = f[i].connected
                      /\ g[i].addr = p \/ g[i] = f[i]
    OBVIOUS
  <2>1. CASE i # k
    BY <1>1, <2>1
  <2>2. CASE i = k
    <3>1. g[i] = new /\ f[i].addr \in {p, NoPeer}
      BY <1>1, <1>2, <1>3, <2>2
    <3> HIDE DEF g, k
    <3> QED BY <1>4, <2>2, <3>1
  <2> QED BY <2>1, <2>2
<1> HIDE DEF g, k
<1>8. \A i \in Slots :
        MarkConnected(g, p)[i] = IF g[i].addr = p THEN [g[i] EXCEPT !.connected = TRUE] ELSE g[i]
  BY <1>p DEF MarkConnected
<1>9. \A i \in Slots :
        /\ MarkConnected(g, p)[i].addr = g[i].addr
        /\ MarkConnected(g, p)[i].handle = g[i].handle
        /\ MarkConnected(g, p)[i].seen = g[i].seen
        /\ MarkConnected(g, p)[i].present = g[i].present
        /\ g[i].connected => MarkConnected(g, p)[i].connected
        /\ MarkConnected(g, p)[i].connected => g[i].connected \/ g[i].addr = p
  BY <1>6, <1>8 DEF SlotRec
<1>10. /\ slot' = g \/ (then = "hid" /\ slot' = MarkConnected(g, p))
       /\ host' = host \/ host' = [slot |-> k, peer |-> p, then |-> then, bonded |-> {}]
  BY DEF SeenThen, AfterSeen, g, k
<1>11. \A i \in Slots :
        /\ slot'[i].addr = g[i].addr
        /\ slot'[i].handle = g[i].handle
        /\ slot'[i].seen = g[i].seen
        /\ slot'[i].present = g[i].present
        /\ g[i].connected => slot'[i].connected
        /\ slot'[i].connected => g[i].connected \/ (then = "hid" /\ g[i].addr = p)
  BY <1>9, <1>10
<1> QED BY <1>7, <1>10, <1>11

\* Slots given out by pre-allocation are unmarked, and present only if the last row of
\* their phone is an IN.
LEMMA GivenOut ==
  ASSUME NEW f, NEW bonded, NEW log, NEW g \in Preallocations(f, bonded, log)
  PROVE  \A i \in Slots :
           \/ g[i] = f[i]
           \/ /\ f[i].addr = NoPeer /\ ~g[i].connected
              /\ g[i].addr \in bonded /\ \A j \in Slots : f[j].addr # g[i].addr
              /\ g[i].present => log[g[i].addr].last = "in"
<1> DEFINE free == {i \in Slots : f[i].addr = NoPeer}
           missing == Untracked(f, bonded)
<1>1. PICK m \in [free -> missing \cup {NoPeer}] :
        g = [i \in Slots |-> IF i \in free /\ m[i] # NoPeer
                             THEN ResumedSlot(m[i], log) ELSE f[i]]
  BY DEF Preallocations
<1>2. \A p \in missing : p \in bonded /\ \A j \in Slots : f[j].addr # p
  BY DEF Untracked
<1>3. ASSUME NEW p
      PROVE  /\ ResumedSlot(p, log).addr = p
             /\ ~ResumedSlot(p, log).connected
             /\ ResumedSlot(p, log).present => log[p].last = "in"
  BY DEF ResumedSlot
<1> HIDE DEF missing
<1>4. ASSUME NEW i \in Slots, i \in free, m[i] # NoPeer
      PROVE  g[i] = ResumedSlot(m[i], log) /\ m[i] \in missing
  BY <1>1, <1>4
<1> QED BY <1>1, <1>2, <1>3, <1>4

\* A slot with a mark is not touched by the rest of a tick, and a probe that is started
\* is aimed at the slot's phone.
LEMMA TickRestMarks ==
  ASSUME TypeOK, NEW i \in Slots, NEW s \in SlotRec, tick.at = i, TickRest(i, s)
  PROVE  /\ s.connected => slot'[i] = s
         /\ conn' = conn \/ (conn'.slot = i /\ conn'.peer = s.addr)
<1>1. i \in DOMAIN slot
  BY DEF TypeOK
<1>2. ASSUME ProbeStart(i, s) PROVE conn' = conn \/ (conn'.slot = i /\ conn'.peer = s.addr)
  BY <1>2 DEF ProbeStart
<1> QED BY <1>1, <1>2 DEF TickRest

\* Nothing happens on the air, and the slots keep their phones and their marks.
LEMMA QuietTruth ==
  ASSUME Typed, Typed', Truthful, UNCHANGED <<link, heard, host, waits>>,
         \/ conn' = conn
         \/ conn'.slot = 0
         \/ conn'.slot \in Slots /\ conn'.peer = slot[conn'.slot].addr /\ conn'.peer # NoPeer,
         \A i \in Slots :
           /\ slot'[i].addr = slot[i].addr
           /\ slot'[i].connected = slot[i].connected
           /\ slot[i].connected => slot'[i].handle = slot[i].handle
           /\ slot'[i].present =>
                slot[i].connected \/ (slot[i].present /\ slot'[i].seen = slot[i].seen)
  PROVE  Truthful'
<1>1. /\ \A i \in Slots : slot[i].addr \in Peers \cup {NoPeer} /\ slot'[i].seen \in Nat
      /\ conn \in ConnRec
  BY DEF Typed, TypeOK, SlotRec
<1>2. \A p : Linked(p)' <=> Linked(p)
  BY DEF Linked
<1>3. HeardLinks' /\ OneLink'
  BY <1>2 DEF Truthful, HeardLinks, OneLink
<1>4. ProbeLinks'
  BY DEF Truthful, ProbeLinks
<1>5. Marks'
  BY <1>2 DEF Truthful, Marks, Used
<1>6. Aims'
  <2>1. conn.slot # 0 => conn.slot \in Slots
    BY <1>1, SizesAssumption DEF ConnRec, Slots
  <2> QED BY <1>1, <2>1 DEF Truthful, Aims
<1>7. Holds'
  BY <1>2 DEF Truthful, Holds
<1>8. Fresh'
  <2> SUFFICES ASSUME NEW i \in Slots, slot'[i].addr # NoPeer, slot'[i].present,
                      waits = "none", "reboot" \notin Features
               PROVE  heard'[slot'[i].addr] <= slot'[i].seen
    BY DEF Fresh, Used
  <2>1. slot[i].addr \in Peers /\ slot'[i].addr = slot[i].addr /\ heard' = heard
    BY <1>1
  <2>2. CASE slot[i].connected
    <3>1. heard[slot[i].addr] = 0
      BY <2>1, <2>2 DEF Truthful, Marks, HeardLinks
    <3> QED BY <1>1, <2>1, <3>1
  <2>3. CASE ~slot[i].connected
    BY <2>1, <2>3 DEF Truthful, Fresh, Used
  <2> QED BY <2>2, <2>3
<1> QED BY <1>3, <1>4, <1>5, <1>6, <1>7, <1>8 DEF Truthful

\* A phone is heard and its slot, if it has or gets one, says so: presence_seen_addr on
\* slots f, whose phones and marks are those of the slots but for the phone heard.
LEMMA SeenTruth ==
  ASSUME Typed, Typed', Truthful, NEW p \in Peers, NEW then \in {"none", "hid", "probe"},
         NEW f \in [Slots -> SlotRec], SeenThen(f, p, then), Contact(p),
         host = HostIdle, waits' = waits,
         conn' = conn \/ conn'.slot = 0,
         \A i \in Slots :
           /\ f[i].addr = slot[i].addr /\ f[i].present = slot[i].present
           /\ f[i].seen = slot[i].seen
           /\ slot[i].connected => f[i].connected
           /\ f[i].addr # p => f[i].connected = slot[i].connected
           /\ f[i].addr # p => f[i].handle = slot[i].handle,
         \A g \in Handles : link[g].peer # NoPeer => link'[g] = link[g],
         \A g \in Handles : link'[g] # link[g] => link'[g].peer = p /\ ~Linked(p),
         \A g, h \in Handles : link'[g] # link[g] /\ link'[h] # link[h] => g = h,
         \A i \in Slots : f[i].connected /\ f[i].addr = p => Linked(p)',
         then = "hid" => Linked(p)',
         \A g \in Handles : link'[g].via = "probe" /\ link'[g].peer = p =>
           /\ link'[g].slot \in Slots /\ f[link'[g].slot].addr = p
           /\ f[link'[g].slot].handle = g /\ f[link'[g].slot].connected
  PROVE  Truthful'
<1>1. /\ \A i \in Slots : slot[i].addr \in Peers \cup {NoPeer} /\ slot'[i].seen \in Nat
      /\ conn \in ConnRec /\ p # NoPeer
      /\ heard \in [Peers -> 0 .. AgeMax]
  BY PeersAssumption DEF Typed, TypeOK, SlotRec
<1>2. /\ \A i \in Slots :
              /\ \/ slot'[i].addr = f[i].addr
                 \/ f[i].addr = NoPeer /\ slot'[i].addr = p
              /\ f[i].addr # NoPeer => slot'[i].handle = f[i].handle
              /\ slot'[i].connected =>
                   f[i].connected \/ (then = "hid" /\ slot'[i].addr = p)
              /\ f[i].connected => slot'[i].connected
              /\ slot'[i].present =>
                   \/ slot'[i].addr = p
                   \/ /\ slot'[i].addr = f[i].addr
                      /\ f[i].present /\ slot'[i].seen = f[i].seen
      /\ host' = host \/ (host'.then = then /\ host'.peer = p)
  BY SeenFields
<1>3. \A q \in Peers : heard'[q] = IF q = p THEN 0 ELSE heard[q]
  BY <1>1 DEF Contact
<1>4. /\ \A q : Linked(q) => Linked(q)'
      /\ \A q : q # p /\ Linked(q)' => Linked(q)
  BY DEF Linked
<1>5. HeardLinks'
  BY <1>3, <1>4 DEF Truthful, HeardLinks
<1>6. OneLink'
  <2> SUFFICES ASSUME NEW g \in Handles, NEW h \in Handles, link'[g].peer # NoPeer,
                      link'[g].peer = link'[h].peer
               PROVE  g = h
    BY DEF OneLink
  <2>1. CASE link'[g] = link[g] /\ link'[h] = link[h]
    BY <2>1 DEF Truthful, OneLink
  <2>2. CASE link'[g] # link[g] /\ link'[h] # link[h]
    BY <2>2
  <2>3. CASE link'[g] # link[g] /\ link'[h] = link[h]
    BY <1>1, <2>3 DEF Linked
  <2>4. CASE link'[g] = link[g] /\ link'[h] # link[h]
    BY <1>1, <2>4 DEF Linked
  <2> QED BY <2>1, <2>2, <2>3, <2>4
<1>7. ProbeLinks'
  <2> SUFFICES ASSUME NEW g \in Handles, link'[g].via = "probe"
               PROVE  /\ link'[g].slot \in Slots
                      /\ slot'[link'[g].slot].handle = g
                      /\ slot'[link'[g].slot].addr = link'[g].peer
                      /\ slot'[link'[g].slot].connected
    BY DEF ProbeLinks
  <2>1. CASE link'[g].peer = p
    BY <1>1, <1>2, <2>1
  <2>2. CASE link'[g].peer # p
    <3>1. link'[g] = link[g]
      BY <2>2
    <3>2. link[g].peer \in Peers /\ link[g].peer # NoPeer
      BY <3>1, PeersAssumption DEF Typed, LinksHavePeers
    <3>3. /\ link[g].slot \in Slots /\ slot[link[g].slot].handle = g
          /\ slot[link[g].slot].addr = link[g].peer /\ slot[link[g].slot].connected
      BY <3>1 DEF Truthful, ProbeLinks
    <3> QED BY <1>2, <2>2, <3>1, <3>2, <3>3
  <2> QED BY <2>1, <2>2
<1>8. Marks'
  <2> SUFFICES ASSUME NEW i \in Slots, slot'[i].connected
               PROVE  /\ slot'[i].addr # NoPeer
                      /\ \E h \in Handles : link'[h].peer = slot'[i].addr
    BY DEF Marks, Used, Linked
  <2>1. CASE slot'[i].addr = p
    <3>1. Linked(p)'
      <4>1. CASE f[i].connected /\ f[i].addr = p
        BY <4>1
      <4>2. CASE f[i].connected /\ f[i].addr # p
        <5>1. slot[i].connected /\ slot[i].addr # NoPeer
          BY <4>2 DEF Truthful, Marks, Used
        <5> QED BY <1>2, <2>1, <4>2, <5>1
      <4>3. CASE ~f[i].connected
        BY <1>2, <4>3
      <4> QED BY <4>1, <4>2, <4>3
    <3> QED BY <1>1, <2>1, <3>1 DEF Linked
  <2>2. CASE slot'[i].addr # p
    <3>1. f[i].connected /\ slot'[i].addr = slot[i].addr /\ slot[i].connected
      BY <1>2, <2>2
    <3>2. slot[i].addr # NoPeer /\ Linked(slot[i].addr)
      BY <3>1 DEF Truthful, Marks, Used
    <3>3. Linked(slot[i].addr) => \E h \in Handles : link'[h].peer = slot[i].addr
      <4>1. PICK h \in Handles : link[h].peer = slot[i].addr
        BY <3>2 DEF Linked
      <4>2. link'[h] = link[h]
        BY <3>2, <4>1
      <4> QED BY <4>1, <4>2
    <3> QED BY <3>1, <3>2, <3>3
  <2> QED BY <2>1, <2>2
<1>9. Aims'
  <2>1. conn.slot # 0 => conn.slot \in Slots
    BY <1>1, SizesAssumption DEF ConnRec, Slots
  <2> QED BY <1>1, <1>2, <2>1, PeersAssumption DEF Truthful, Aims
<1>10. Holds'
  <2>1. host.then = "none"
    BY DEF HostIdle
  <2> QED BY <1>2, <2>1 DEF Holds
<1>11. Fresh'
  <2> SUFFICES ASSUME NEW i \in Slots, slot'[i].addr # NoPeer, slot'[i].present,
                      waits = "none", "reboot" \notin Features
               PROVE  heard'[slot'[i].addr] <= slot'[i].seen
    BY DEF Fresh, Used
  <2>1. CASE slot'[i].addr = p
    BY <1>1, <1>3, <2>1
  <2>2. CASE slot'[i].addr # p
    <3>1. slot'[i].addr = slot[i].addr /\ slot[i].present /\ slot'[i].seen = slot[i].seen
          /\ slot[i].addr \in Peers
      BY <1>1, <1>2, <2>2
    <3> QED BY <1>3, <2>2, <3>1 DEF Truthful, Fresh, Used
  <2> QED BY <2>1, <2>2
<1> QED BY <1>5, <1>6, <1>7, <1>8, <1>9, <1>10, <1>11 DEF Truthful

\* Without revocations no slot is taken from its phone in the middle of a tick.
LEMMA NextVisited ==
  ASSUME NoRevocation
  PROVE  Typed /\ Visited /\ [Next]_vars => Visited'
<1> SUFFICES ASSUME Typed, Visited, [Next]_vars PROVE Visited'
  OBVIOUS
<1>h. HttpIdle.op = "none" /\ TickIdle.phase = "eval"
  BY DEF HttpIdle, TickIdle
<1>0. ~RevokeSlot
  BY DEF RevokeSlot, Visited
<1>1. http'.op # "revoke"
  <2>1. http' = http \/ http' = HttpIdle \/ http' = [op |-> "wipe", peer |-> NoPeer]
    BY <1>0, Zenon DEF Next, Tick, Radio, Admin, World, NoRevocation, ClockTick, TickEval, TickIn,
      TickOut, ScanRestart, Advertised, ProbeFailed, HostRecord, HostAllocate, ProbeConnected,
      ProbeLinkDown, HidConnected, HidDisconnected, EncChanged, RepeatPairing, WipeRows,
      ResetEvents, PairingStart, PairingEnd, SetTimeout, NtpServerChanged, ClockSynced, Boot,
      Moves, Stall, HostWaits, TickWaits, Stalled, codeVars, vars
  <2> QED BY <1>h, <2>1 DEF Visited
<1>2. CASE Boot
  BY <1>1, <1>2, <1>h DEF Boot, Visited
<1>3. CASE ~Boot
  <2>1. \A i \in Slots : Used(i) => slot'[i].addr = slot[i].addr
    BY <1>0, <1>3, KeepsAddresses
  <2>2. CASE tick' = tick
    BY <1>1, <2>1, <2>2 DEF Visited, Used
  <2>3. CASE tick'.phase # "in"
    BY <1>1, <2>3 DEF Visited
  <2>4. ASSUME NEW i \in Slots, TickEval(i) PROVE tick'.phase # "in" \/ (tick'.at = i /\ Used(i))
    BY <2>4 DEF TickEval, TickRest, NextSlot, TickIdle, Typed, TypeOK, TickRec
  <2>5. ASSUME NEW i \in Slots, TickIn(i) \/ TickOut(i) PROVE tick'.phase # "in"
    BY <2>5 DEF TickIn, TickOut, TickRest, NextSlot, TickIdle
  <2>6. ClockTick \/ Stalled => tick'.phase # "in" \/ tick' = tick
    <3>1. ClockTick \/ Stalled => tick' = [at |-> 1, phase |-> "eval"] \/ tick' = tick
      BY Zenon DEF ClockTick, Stalled
    <3> QED BY <3>1
  <2>7. \/ tick' = tick \/ Tick \/ ClockTick \/ Stalled
    BY <1>3, Zenon DEF Next, Radio, Admin, World,
      ScanRestart, Advertised, ProbeFailed, HostRecord, HostAllocate, ProbeConnected,
      ProbeLinkDown, HidConnected, HidDisconnected, EncChanged, RepeatPairing, WipeRows,
      RevokeBond, RevokeSlot,
      ResetEvents, PairingStart, PairingEnd, SetTimeout, NtpServerChanged, ClockSynced,
      Moves, Stall, HostWaits, TickWaits, codeVars, vars
  <2>8. ASSUME Tick PROVE Visited'
    <3>1. PICK i \in Slots : TickEval(i) \/ TickIn(i) \/ TickOut(i)
      BY <2>8 DEF Tick
    <3>2. tick'.phase # "in" \/ (tick'.at = i /\ Used(i))
      BY <3>1, <2>4, <2>5
    <3> QED BY <1>1, <2>1, <2>3, <3>2 DEF Visited, Used
  <2> QED BY <2>2, <2>3, <2>6, <2>7, <2>8
<1> QED BY <1>2, <1>3

\* An answered probe or an accepted connection adds the link of a phone without one.
LEMMA LinkAdded ==
  ASSUME Typed, NEW h \in Handles, NEW p \in Peers, NEW r \in LinkRec, r.peer = p,
         link[h] = NoLink, ~Linked(p), link' = [link EXCEPT ![h] = r]
  PROVE  /\ \A g \in Handles : link[g].peer # NoPeer => link'[g] = link[g]
         /\ \A g \in Handles : link'[g] # link[g] => g = h /\ link'[g].peer = p
         /\ \A g \in Handles : link'[g].peer = p => g = h
         /\ link'[h] = r
         /\ Linked(p)'
<1>1. \A g \in Handles : link'[g] = IF g = h THEN r ELSE link[g]
  BY DEF Typed, TypeOK
<1>2. p # NoPeer /\ NoLink.peer = NoPeer
  BY PeersAssumption DEF NoLink
<1>3. \A g \in Handles : link[g].peer # p
  BY <1>2 DEF Linked
<1> QED BY <1>1, <1>2, <1>3 DEF Linked

\* Every step keeps what the slots say true.
LEMMA NextTruthful ==
  ASSUME EnoughSlots, NoRevocation
  PROVE  /\ Typed /\ Typed' /\ OneSlotPerPeer /\ Tracked /\ Visited /\ Truthful
         /\ [Next]_vars
         => Truthful'
<1> SUFFICES ASSUME Typed, Typed', OneSlotPerPeer, Tracked, Visited, Truthful, [Next]_vars
             PROVE  Truthful'
  OBVIOUS
<1>a. TypeOK
  BY DEF Typed
<1>b. /\ slot \in [Slots -> SlotRec]
      /\ \A i \in Slots : slot[i] \in SlotRec /\ slot[i].addr \in Peers \cup {NoPeer}
      /\ rows \in [Peers -> RowsRec]
      /\ bonds \in SUBSET Peers
      /\ host \in HostRec
      /\ conn \in ConnRec
      /\ link \in [Handles -> LinkRec]
      /\ heard \in [Peers -> 0 .. AgeMax]
  BY <1>a DEF TypeOK, SlotRec
<1>h. HostIdle.then = "none" /\ NoConn.slot = 0 /\ NoLink.peer = NoPeer /\ NoLink.via = "none"
  BY DEF HostIdle, NoConn, NoLink
<1>p. NoPeer \notin Peers /\ 0 \notin Slots
  BY PeersAssumption, SizesAssumption DEF Slots
<1>c. conn.slot # 0 => conn.slot \in Slots /\ conn.peer \in Peers
                       /\ slot[conn.slot].addr = conn.peer
  BY <1>b, SizesAssumption DEF ConnRec, Slots, Truthful, Aims
\* Steps of the tick: slot i is replaced.
<1>t. ASSUME NEW i \in Slots, NEW s \in SlotRec, tick.at = i, TickRest(i, s),
             UNCHANGED <<link, heard, host, waits>>,
             s.addr = slot[i].addr, s.addr # NoPeer, s.connected = slot[i].connected,
             slot[i].connected => s.handle = slot[i].handle,
             s.present => slot[i].connected \/ (slot[i].present /\ s.seen = slot[i].seen)
      PROVE  Truthful'
  <2>1. /\ \A j \in Slots : j # i => slot'[j] = slot[j]
        /\ slot'[i].addr = s.addr
        /\ slot'[i].connected = s.connected
        /\ slot'[i].seen = s.seen
        /\ slot'[i].present => s.present
    BY <1>a, <1>t, TickRestFacts
  <2>2. /\ s.connected => slot'[i] = s
        /\ conn' = conn \/ (conn'.slot = i /\ conn'.peer = s.addr)
    BY <1>a, <1>t, TickRestMarks
  <2>3. \/ conn' = conn
        \/ conn'.slot \in Slots /\ conn'.peer = slot[conn'.slot].addr /\ conn'.peer # NoPeer
    BY <1>t, <2>2
  <2>4. \A j \in Slots :
           /\ slot'[j].addr = slot[j].addr
           /\ slot'[j].connected = slot[j].connected
           /\ slot[j].connected => slot'[j].handle = slot[j].handle
           /\ slot'[j].present =>
                slot[j].connected \/ (slot[j].present /\ slot'[j].seen = slot[j].seen)
    BY <1>t, <2>1, <2>2
  <2> QED BY <1>t, <2>3, <2>4, QuietTruth
<1>1. CASE UNCHANGED <<slot, link, heard, host, conn, waits>>
  BY <1>1, QuietTruth
<1>2. CASE ClockTick \/ Stalled
  <2>1. /\ link' = link /\ host' = host
        /\ Ageing
        /\ ClockTick => host.then = "none" /\ waits' = waits
        /\ Stalled => waits' # "none"
        /\ conn'.slot = conn.slot /\ conn'.peer = conn.peer
    <3>1. CASE ClockTick
      <4>1. ~Stalled
        BY <3>1 DEF ClockTick, Stalled
      <4> QED BY <3>1, <4>1, <1>b, <1>h DEF ClockTick, ConnRec
    <3>2. CASE Stalled
      <4>1. ~ClockTick
        BY <3>2 DEF ClockTick, Stalled
      <4> QED BY <3>2, <4>1, <1>b DEF Stalled, ConnRec
    <3> QED BY <1>2, <3>1, <3>2
  <2>2. \A i \in Slots :
              /\ slot'[i].addr = slot[i].addr /\ slot'[i].handle = slot[i].handle
              /\ slot'[i].connected = slot[i].connected
              /\ slot'[i].present = slot[i].present
              /\ slot'[i].seen = Older(slot[i].seen, AgeMax)
    BY <2>1, <1>a, AgeingFacts
  <2>3. \A p \in Peers : heard'[p] = IF Linked(p) THEN 0 ELSE Older(heard[p], AgeMax)
    BY <2>1 DEF Ageing
  <2>4. \A p : Linked(p)' <=> Linked(p)
    BY <2>1 DEF Linked
  <2>5. HeardLinks' /\ OneLink'
    BY <2>1, <2>3, <2>4 DEF Truthful, HeardLinks, OneLink
  <2>6. ProbeLinks'
    BY <2>1, <2>2 DEF Truthful, ProbeLinks
  <2>7. Marks'
    BY <2>1, <2>2, <2>4 DEF Truthful, Marks, Used
  <2>8. Aims'
    BY <1>c, <2>1, <2>2 DEF Truthful, Aims
  <2>9. Holds'
    BY <1>2, <2>1, <2>4 DEF Truthful, Holds
  <2>10. Fresh'
    <3> SUFFICES ASSUME NEW i \in Slots, slot'[i].addr # NoPeer, slot'[i].present,
                        waits' = "none", "reboot" \notin Features
                 PROVE  heard'[slot'[i].addr] <= slot'[i].seen
      BY DEF Fresh, Used
    <3>1. /\ slot[i].addr \in Peers /\ slot'[i].addr = slot[i].addr /\ slot[i].present
          /\ slot[i].seen \in Nat /\ heard[slot[i].addr] \in Nat
          /\ slot'[i].seen = Older(slot[i].seen, AgeMax)
      BY <1>b, <2>2, Ages DEF SlotRec
    <3>2. heard[slot[i].addr] <= slot[i].seen
      BY <1>2, <2>1, <3>1, <1>p DEF Truthful, Fresh, Used
    <3>3. heard'[slot[i].addr] = 0 \/ heard'[slot[i].addr] = Older(heard[slot[i].addr], AgeMax)
      BY <2>3, <3>1
    <3>4. Older(slot[i].seen, AgeMax) >= 0
          /\ Older(heard[slot[i].addr], AgeMax) <= Older(slot[i].seen, AgeMax)
      BY <3>1, <3>2, Ages DEF Older
    <3> QED BY <3>1, <3>3, <3>4
  <2> QED BY <2>5, <2>6, <2>7, <2>8, <2>9, <2>10 DEF Truthful
<1>3. ASSUME NEW i \in Slots, TickEval(i) PROVE Truthful'
  <2> DEFINE s == Refreshed(slot[i])
  <2>1. /\ s \in SlotRec /\ s.addr = slot[i].addr /\ s.connected = slot[i].connected
        /\ ~slot[i].connected => s = slot[i]
    BY <1>b, RefreshedFacts
  <2>2. slot[i].connected => s.handle = slot[i].handle
    BY <1>b DEF Refreshed, SlotRec
  <2>3. tick.at = i /\ UNCHANGED <<link, heard, host, waits>>
    BY <1>3 DEF TickEval
  <2> HIDE DEF s
  <2>4. CASE Used(i) /\ TickRest(i, s)
    BY <1>t, <2>1, <2>2, <2>3, <2>4 DEF Used
  <2>5. CASE slot' = [slot EXCEPT ![i] = s] /\ conn' = conn
    <3>1. \A j \in Slots : slot'[j] = IF j = i THEN s ELSE slot[j]
      BY <1>b, <2>5
    <3> QED BY <2>1, <2>2, <2>3, <2>5, <3>1, QuietTruth
  <2>6. CASE UNCHANGED <<slot, conn>>
    BY <1>1, <2>3, <2>6
  <2>7. \/ UNCHANGED <<slot, conn>>
        \/ slot' = [slot EXCEPT ![i] = s] /\ conn' = conn
        \/ Used(i) /\ TickRest(i, s)
    BY <1>3 DEF TickEval, s
  <2> QED BY <2>4, <2>5, <2>6, <2>7
<1>4. ASSUME NEW i \in Slots, TickIn(i) PROVE Truthful'
  <2> DEFINE s == [slot[i] EXCEPT !.ack = TRUE]
  <2>1. s \in SlotRec /\ s.addr = slot[i].addr /\ s.connected = slot[i].connected
        /\ s.handle = slot[i].handle /\ s.present = slot[i].present /\ s.seen = slot[i].seen
    BY <1>b DEF SlotRec
  <2>2. tick.at = i /\ UNCHANGED <<link, heard, host, waits>> /\ TickRest(i, s)
        /\ slot[i].addr # NoPeer
    BY <1>4, RecordEventWaits DEF TickIn, Visited, Used
  <2> HIDE DEF s
  <2> QED BY <1>t, <2>1, <2>2
<1>5. ASSUME NEW i \in Slots, TickOut(i) PROVE Truthful'
  <2>1. UNCHANGED <<link, heard, host, conn, waits>>
        /\ \A j \in Slots :
              /\ slot'[j].addr = slot[j].addr /\ slot'[j].handle = slot[j].handle
              /\ slot'[j].connected = slot[j].connected
              /\ slot'[j].present = slot[j].present /\ slot'[j].seen = slot[j].seen
    BY <1>5, <1>b, RecordEventWaits DEF TickOut, SlotRec
  <2> QED BY <2>1, QuietTruth
<1>6. CASE ResetEvents
  <2>1. \A j \in Slots : slot'[j] = slot[j] \/ slot'[j] = [slot[j] EXCEPT !.ack = FALSE]
    BY <1>6 DEF ResetEvents
  <2>2. UNCHANGED <<link, heard, host, conn, waits>>
    BY <1>6 DEF ResetEvents, radioVars
  <2>3. \A j \in Slots :
              /\ slot'[j].addr = slot[j].addr /\ slot'[j].handle = slot[j].handle
              /\ slot'[j].connected = slot[j].connected
              /\ slot'[j].present = slot[j].present /\ slot'[j].seen = slot[j].seen
    BY <1>b, <2>1 DEF SlotRec
  <2> QED BY <2>2, <2>3, QuietTruth
<1>7. CASE ProbeFailed
  <2>1. UNCHANGED <<link, heard, host, waits>> /\ conn'.slot = 0
        /\ \A j \in Slots : slot'[j] = slot[j] \/ slot'[j] = ProbeEnded(slot[j])
    BY <1>7, <1>b, <1>h DEF ProbeFailed
  <2>2. \A j \in Slots :
              /\ slot'[j].addr = slot[j].addr /\ slot'[j].handle = slot[j].handle
              /\ slot'[j].connected = slot[j].connected
              /\ slot'[j].present = slot[j].present /\ slot'[j].seen = slot[j].seen
    BY <1>b, <2>1 DEF ProbeEnded, SlotRec
  <2> QED BY <2>1, <2>2, QuietTruth
<1>8. ASSUME NEW p \in Peers, Advertised(p) PROVE Truthful'
  <2>1. host = HostIdle /\ SeenThen(slot, p, "none") /\ Contact(p)
        /\ link' = link /\ conn' = conn /\ waits' = waits
    BY <1>8 DEF Advertised
  <2>2. \A i \in Slots : slot[i].connected /\ slot[i].addr = p => Linked(p)'
    BY <2>1 DEF Truthful, Marks, Linked
  <2>3. \A g \in Handles : link'[g].via = "probe" /\ link'[g].peer = p =>
           /\ link'[g].slot \in Slots /\ slot[link'[g].slot].addr = p
           /\ slot[link'[g].slot].handle = g /\ slot[link'[g].slot].connected
    BY <2>1 DEF Truthful, ProbeLinks
  <2> QED BY <1>b, <2>1, <2>2, <2>3, SeenTruth
<1>9. ASSUME NEW h \in Handles, NEW p \in Peers, HidConnected(p, h) PROVE Truthful'
  <2> DEFINE r == [peer |-> p, via |-> "hid", slot |-> 0, closing |-> FALSE]
  <2>1. host = HostIdle /\ SeenThen(slot, p, "hid") /\ Contact(p) /\ ~Linked(p)
        /\ link[h] = NoLink /\ link' = [link EXCEPT ![h] = r] /\ conn' = conn
        /\ waits' = waits
    BY <1>9 DEF HidConnected
  <2>2. r \in LinkRec /\ r.peer = p /\ r.via = "hid"
    BY SizesAssumption DEF LinkRec
  <2> HIDE DEF r
  <2>3. /\ \A g \in Handles : link[g].peer # NoPeer => link'[g] = link[g]
        /\ \A g \in Handles : link'[g] # link[g] => g = h /\ link'[g].peer = p
        /\ \A g \in Handles : link'[g].peer = p => g = h
        /\ link'[h] = r
        /\ Linked(p)'
    BY <2>1, <2>2, LinkAdded, ZenonT(60)
  <2>4. \A g \in Handles : link'[g].via = "probe" => link'[g].peer # p
    BY <2>2, <2>3
  <2> QED BY <1>b, <2>1, <2>3, <2>4, SeenTruth
<1>10. ASSUME NEW h \in Handles, NEW i, NEW p, i = conn.slot, p = conn.peer,
              ProbeConnected(h)
       PROVE  Truthful'
  <2> DEFINE f == Answered(i, h)
             r == [peer |-> p, via |-> "probe", slot |-> i, closing |-> FALSE]
  <2>1. /\ host = HostIdle /\ i # 0 /\ SeenThen(f, slot[i].addr, "probe") /\ Contact(p)
        /\ ~Linked(p) /\ link[h] = NoLink /\ link' = [link EXCEPT ![h] = r]
        /\ conn' = NoConn /\ waits' = waits
    BY <1>10 DEF ProbeConnected
  <2>2. i \in Slots /\ p \in Peers /\ slot[i].addr = p
    BY <1>c, <1>10, <2>1
  <2>3. r \in LinkRec /\ r.peer = p /\ r.slot = i
    BY <1>b, <1>10, <2>2 DEF LinkRec, ConnRec
  <2>4. /\ f \in [Slots -> SlotRec]
        /\ \A j \in Slots : j # i => f[j] = slot[j]
        /\ f[i].addr = p
        /\ f[i].present = slot[i].present
        /\ f[i].connected
    BY <1>b, <2>2, AnsweredFacts
  <2>5. f[i].handle = h /\ f[i].seen = slot[i].seen
    BY <1>b, <2>2 DEF Answered, SlotRec
  <2> HIDE DEF f, r
  <2>6. /\ \A g \in Handles : link[g].peer # NoPeer => link'[g] = link[g]
        /\ \A g \in Handles : link'[g] # link[g] => g = h /\ link'[g].peer = p
        /\ \A g \in Handles : link'[g].peer = p => g = h
        /\ link'[h] = r
        /\ Linked(p)'
    BY <2>1, <2>2, <2>3, LinkAdded
  <2>7. \A j \in Slots :
           /\ f[j].addr = slot[j].addr /\ f[j].present = slot[j].present
           /\ f[j].seen = slot[j].seen
           /\ slot[j].connected => f[j].connected
           /\ f[j].addr # p => f[j] = slot[j]
    BY <2>2, <2>4, <2>5
  <2>8. \A g \in Handles : link'[g].via = "probe" /\ link'[g].peer = p =>
           /\ link'[g].slot \in Slots /\ f[link'[g].slot].addr = p
           /\ f[link'[g].slot].handle = g /\ f[link'[g].slot].connected
    BY <2>2, <2>3, <2>4, <2>5, <2>6
  <2>9. SeenThen(f, p, "probe") /\ conn'.slot = 0
    BY <1>h, <2>1, <2>2
  <2> QED BY <2>1, <2>2, <2>4, <2>6, <2>7, <2>8, <2>9, SeenTruth
\* Steps that end a link: the slot of its phone loses the mark.
<1>d. ASSUME NEW h \in Handles, link[h].peer \in Peers, host = HostIdle,
             UNCHANGED <<host, conn, waits>>,
             link' = [link EXCEPT ![h] = NoLink], Contact(link[h].peer),
             \A i \in Slots :
               /\ slot'[i].addr = slot[i].addr /\ slot'[i].present = slot[i].present
               /\ slot[i].addr # link[h].peer => slot'[i] = slot[i]
               /\ slot[i].addr = link[h].peer => ~slot'[i].connected
      PROVE  Truthful'
  <2> DEFINE p == link[h].peer
  <2>1. \A g \in Handles : link'[g] = IF g = h THEN NoLink ELSE link[g]
    BY <1>b, <1>d
  <2>2. \A q \in Peers : heard'[q] = IF q = p THEN 0 ELSE heard[q]
    BY <1>b, <1>d DEF Contact
  <2>3. \A g \in Handles : g # h => link[g].peer # p
    BY <1>d, <1>p DEF Truthful, OneLink
  <2>4. \A g \in Handles : link'[g].peer # NoPeer => g # h /\ link'[g] = link[g]
    BY <2>1, <1>h
  <2>5. HeardLinks'
    <3> SUFFICES ASSUME NEW q \in Peers, NEW g \in Handles, link'[g].peer = q PROVE heard'[q] = 0
      BY DEF HeardLinks, Linked
    <3>1. q # NoPeer
      BY <1>p
    <3>2. Linked(q)
      BY <2>4, <3>1 DEF Linked
    <3> QED BY <2>2, <3>2 DEF Truthful, HeardLinks
  <2>6. OneLink'
    BY <2>4 DEF Truthful, OneLink
  <2>7. ProbeLinks'
    <3> SUFFICES ASSUME NEW g \in Handles, link'[g].via = "probe"
                 PROVE  /\ link'[g].slot \in Slots
                        /\ slot'[link'[g].slot].handle = g
                        /\ slot'[link'[g].slot].addr = link'[g].peer
                        /\ slot'[link'[g].slot].connected
      BY DEF ProbeLinks
    <3>1. g # h /\ link'[g] = link[g]
      BY <1>h, <2>1
    <3>2. /\ link[g].slot \in Slots /\ slot[link[g].slot].handle = g
          /\ slot[link[g].slot].addr = link[g].peer /\ slot[link[g].slot].connected
      BY <3>1 DEF Truthful, ProbeLinks
    <3> QED BY <1>d, <2>3, <3>1, <3>2
  <2>8. Marks'
    <3> SUFFICES ASSUME NEW i \in Slots, slot'[i].connected
                 PROVE  /\ slot'[i].addr # NoPeer
                        /\ \E g \in Handles : link'[g].peer = slot'[i].addr
      BY DEF Marks, Used, Linked
    <3>1. slot[i].addr # p /\ slot'[i] = slot[i]
      BY <1>d
    <3>2. slot[i].addr # NoPeer /\ Linked(slot[i].addr)
      BY <3>1 DEF Truthful, Marks, Used
    <3>3. PICK g \in Handles : link[g].peer = slot[i].addr
      BY <3>2 DEF Linked
    <3>4. link'[g] = link[g]
      BY <2>1, <3>1, <3>3
    <3> QED BY <3>1, <3>2, <3>3, <3>4
  <2>9. Aims'
    BY <1>c, <1>d DEF Truthful, Aims
  <2>10. Holds'
    BY <1>d, <1>h DEF Holds
  <2>11. Fresh'
    <3> SUFFICES ASSUME NEW i \in Slots, slot'[i].addr # NoPeer, slot'[i].present,
                        waits = "none", "reboot" \notin Features
                 PROVE  heard'[slot'[i].addr] <= slot'[i].seen
      BY <1>d DEF Fresh, Used
    <3>1. slot[i].addr \in Peers /\ slot'[i].addr = slot[i].addr /\ slot[i].present
      BY <1>b, <1>d
    <3>2. CASE slot[i].addr = p
      <4>1. slot'[i].seen \in Nat
        BY Ages DEF Typed, TypeOK, SlotRec
      <4> QED BY <2>2, <3>1, <3>2, <4>1
    <3>3. CASE slot[i].addr # p
      BY <1>d, <1>p, <2>2, <3>1, <3>3 DEF Truthful, Fresh, Used
    <3> QED BY <3>2, <3>3
  <2> QED BY <2>5, <2>6, <2>7, <2>8, <2>9, <2>10, <2>11 DEF Truthful
<1>11. ASSUME NEW h \in Handles, ProbeLinkDown(h) PROVE Truthful'
  <2>1. /\ host = HostIdle /\ link[h].via = "probe" /\ UNCHANGED <<host, conn, waits>>
        /\ link' = [link EXCEPT ![h] = NoLink] /\ Contact(link[h].peer)
    BY <1>11 DEF ProbeLinkDown
  <2>2. link[h].peer \in Peers
    BY <2>1 DEF Typed, LinksHavePeers
  <2>3. /\ link[h].slot \in Slots /\ slot[link[h].slot].handle = h
        /\ slot[link[h].slot].addr = link[h].peer
    BY <2>1 DEF Truthful, ProbeLinks
  <2>4. \A i \in Slots : slot[i].addr = link[h].peer => i = link[h].slot
    BY <1>p, <2>2, <2>3 DEF OneSlotPerPeer, Used
  <2>5. slot' = [slot EXCEPT ![link[h].slot] = LinkDropped(slot[link[h].slot])]
    BY <1>11, <2>3 DEF ProbeLinkDown
  <2>6. ASSUME NEW s \in SlotRec
        PROVE  LinkDropped(s).addr = s.addr /\ LinkDropped(s).present = s.present
               /\ ~LinkDropped(s).connected
    BY DEF LinkDropped, SlotRec
  <2>7. \A i \in Slots : slot'[i] = IF i = link[h].slot THEN LinkDropped(slot[i]) ELSE slot[i]
    BY <1>b, <2>5
  <2>8. \A i \in Slots :
               /\ slot'[i].addr = slot[i].addr /\ slot'[i].present = slot[i].present
               /\ slot[i].addr # link[h].peer => slot'[i] = slot[i]
               /\ slot[i].addr = link[h].peer => ~slot'[i].connected
    BY <1>b, <2>3, <2>4, <2>6, <2>7
  <2> QED BY <1>d, <2>1, <2>2, <2>8
<1>12. ASSUME NEW h \in Handles, HidDisconnected(h) PROVE Truthful'
  <2>1. /\ host = HostIdle /\ link[h].via = "hid" /\ UNCHANGED <<host, conn, waits>>
        /\ link' = [link EXCEPT ![h] = NoLink] /\ Contact(link[h].peer)
        /\ \A i \in Slots : slot'[i] = IF slot[i].addr = link[h].peer THEN Unlinked(slot[i])
                                                                     ELSE slot[i]
    BY <1>12 DEF HidDisconnected
  <2>2. link[h].peer \in Peers
    BY <2>1 DEF Typed, LinksHavePeers
  <2>3. ASSUME NEW s \in SlotRec
        PROVE  Unlinked(s).addr = s.addr /\ Unlinked(s).present = s.present
               /\ ~Unlinked(s).connected
    BY DEF Unlinked, SlotRec
  <2>4. \A i \in Slots :
               /\ slot'[i].addr = slot[i].addr /\ slot'[i].present = slot[i].present
               /\ slot[i].addr # link[h].peer => slot'[i] = slot[i]
               /\ slot[i].addr = link[h].peer => ~slot'[i].connected
    BY <1>b, <2>1, <2>3
  <2> QED BY <1>d, <2>1, <2>2, <2>4
<1>13. ASSUME NEW h \in Handles, EncChanged(h) PROVE Truthful'
  <2>1. /\ host = HostIdle /\ UNCHANGED <<slot, link, heard, conn, waits>>
        /\ link[h].via = "hid"
        /\ bonds' \subseteq bonds \cup {link[h].peer}
        /\ host' = [HostIdle EXCEPT !.then = "alloc", !.bonded = bonds']
    BY <1>13 DEF EncChanged
  <2>2. host'.then = "alloc" /\ host'.bonded = bonds' /\ host'.then # "hid"
    BY <2>1 DEF HostIdle
  <2>3. link[h].peer \in Peers /\ Linked(link[h].peer)
    BY <1>p, <2>1 DEF Typed, LinksHavePeers, Linked
  <2>4. \A p \in bonds : \E i \in Slots : slot[i].addr = p
    BY <1>h, <2>1 DEF Tracked, BondedTracked
  <2>5. Holds'
    BY <2>1, <2>2, <2>3, <2>4 DEF Truthful, HeardLinks, Holds
  <2>6. \A p : Linked(p)' <=> Linked(p)
    BY <2>1 DEF Linked
  <2>7. HeardLinks' /\ OneLink' /\ ProbeLinks' /\ Marks' /\ Aims' /\ Fresh'
    BY <2>1, <2>6 DEF Truthful, HeardLinks, OneLink, ProbeLinks, Marks, Aims, Fresh, Used
  <2> QED BY <2>5, <2>7 DEF Truthful
<1>14. CASE HostAllocate
  <2>1. /\ host.then = "alloc" /\ host' = HostIdle /\ UNCHANGED <<link, conn, heard, waits>>
        /\ slot' \in Preallocations(slot, host.bonded, rows)
        /\ host.bonded \in SUBSET Peers
    BY <1>14, <1>b DEF HostAllocate, radioVars, HostRec
  <2>2. ASSUME NEW B \in SUBSET Peers, slot' \in Preallocations(slot, B, rows)
        PROVE  \A i \in Slots :
                 \/ slot'[i] = slot[i]
                 \/ /\ slot[i].addr = NoPeer /\ ~slot'[i].connected
                    /\ slot'[i].addr \in B /\ \A j \in Slots : slot[j].addr # slot'[i].addr
    BY <2>2, GivenOut
  <2>3. \A i \in Slots :
                 \/ slot'[i] = slot[i]
                 \/ /\ slot[i].addr = NoPeer /\ ~slot'[i].connected
                    /\ slot'[i].addr \in Peers
                    /\ waits = "none" => heard[slot'[i].addr] = 0
    BY <1>b, <2>1, <2>2 DEF Truthful, Holds
  <2>4. \A p : Linked(p)' <=> Linked(p)
    BY <2>1 DEF Linked
  <2>5. HeardLinks' /\ OneLink'
    BY <2>1, <2>4 DEF Truthful, HeardLinks, OneLink
  <2>6. ProbeLinks'
    <3> SUFFICES ASSUME NEW g \in Handles, link[g].via = "probe"
                 PROVE  /\ link[g].slot \in Slots
                        /\ slot'[link[g].slot] = slot[link[g].slot]
      BY <2>1 DEF Truthful, ProbeLinks
    <3>1. link[g].peer # NoPeer
      BY <1>p DEF Typed, LinksHavePeers
    <3> QED BY <2>3, <3>1 DEF Truthful, ProbeLinks
  <2>7. Marks'
    <3> SUFFICES ASSUME NEW i \in Slots, slot'[i].connected
                 PROVE  slot'[i].addr # NoPeer /\ \E g \in Handles : link[g].peer = slot'[i].addr
      BY <2>1 DEF Marks, Used, Linked
    <3>1. slot'[i] = slot[i]
      BY <2>3
    <3> QED BY <3>1 DEF Truthful, Marks, Used, Linked
  <2>8. Aims'
    BY <1>c, <1>p, <2>1, <2>3 DEF Truthful, Aims
  <2>9. Holds'
    BY <1>h, <2>1 DEF Holds
  <2>10. Fresh'
    <3> SUFFICES ASSUME NEW i \in Slots, slot'[i].addr # NoPeer, slot'[i].present,
                        waits = "none", "reboot" \notin Features
                 PROVE  heard[slot'[i].addr] <= slot'[i].seen
      BY <2>1 DEF Fresh, Used
    <3>1. slot'[i].seen \in Nat
      BY Ages DEF Typed, TypeOK, SlotRec
    <3> QED BY <2>3, <3>1 DEF Truthful, Fresh, Used
  <2> QED BY <2>5, <2>6, <2>7, <2>8, <2>9, <2>10 DEF Truthful
<1>15. CASE HostRecord
  <2> DEFINE f == [slot EXCEPT ![host.slot].ack = TRUE]
             p == host.peer
  <2>1. /\ UNCHANGED <<link, conn, heard, waits>> /\ host' = HostIdle
        /\ slot' = f \/ (host.then = "hid" /\ slot' = MarkConnected(f, p))
    BY <1>15, RecordEventWaits DEF HostRecord, AfterSeen, radioVars
  <2>2. \A i \in Slots :
          /\ f[i].addr = slot[i].addr /\ f[i].handle = slot[i].handle
          /\ f[i].connected = slot[i].connected /\ f[i].present = slot[i].present
          /\ f[i].seen = slot[i].seen
          /\ f[i] \in SlotRec
    BY <1>b DEF SlotRec
  <2> HIDE DEF f
  <2>3. \A i \in Slots : MarkConnected(f, p)[i] =
              IF f[i].addr = p /\ p # NoPeer THEN [f[i] EXCEPT !.connected = TRUE] ELSE f[i]
    BY DEF MarkConnected
  <2>4. \A i \in Slots :
          /\ slot'[i].addr = slot[i].addr /\ slot'[i].handle = slot[i].handle
          /\ slot'[i].present = slot[i].present /\ slot'[i].seen = slot[i].seen
          /\ slot[i].connected => slot'[i].connected
          /\ slot'[i].connected => slot[i].connected
                                   \/ (host.then = "hid" /\ slot[i].addr = p /\ p # NoPeer)
    <3>1. ASSUME NEW s \in SlotRec
          PROVE  LET m == [s EXCEPT !.connected = TRUE] IN
                 m.addr = s.addr /\ m.handle = s.handle /\ m.present = s.present
                 /\ m.seen = s.seen /\ m.connected
      BY DEF SlotRec
    <3>2. CASE slot' = f
      BY <2>2, <3>2
    <3>3. CASE host.then = "hid" /\ slot' = MarkConnected(f, p)
      <4> SUFFICES ASSUME NEW i \in Slots
                   PROVE  /\ slot'[i].addr = slot[i].addr /\ slot'[i].handle = slot[i].handle
                          /\ slot'[i].present = slot[i].present
                          /\ slot'[i].seen = slot[i].seen
                          /\ slot[i].connected => slot'[i].connected
                          /\ slot'[i].connected => slot[i].connected
                               \/ (host.then = "hid" /\ slot[i].addr = p /\ p # NoPeer)
        OBVIOUS
      <4>1. CASE f[i].addr = p /\ p # NoPeer
        <5>1. slot'[i] = [f[i] EXCEPT !.connected = TRUE] /\ f[i] \in SlotRec
          BY <2>2, <2>3, <3>3, <4>1
        <5> QED BY <2>2, <3>1, <3>3, <4>1, <5>1
      <4>2. CASE ~(f[i].addr = p /\ p # NoPeer)
        BY <2>2, <2>3, <3>3, <4>2
      <4> QED BY <4>1, <4>2
    <3> QED BY <2>1, <3>2, <3>3
  <2>5. \A q : Linked(q)' <=> Linked(q)
    BY <2>1 DEF Linked
  <2>6. HeardLinks' /\ OneLink'
    BY <2>1, <2>5 DEF Truthful, HeardLinks, OneLink
  <2>7. ProbeLinks'
    BY <2>1, <2>4 DEF Truthful, ProbeLinks
  <2>8. Marks'
    <3> SUFFICES ASSUME NEW i \in Slots, slot'[i].connected
                 PROVE  slot[i].addr # NoPeer /\ Linked(slot[i].addr)
      BY <2>1, <2>4 DEF Marks, Used, Linked
    <3> QED BY <2>4 DEF Truthful, Marks, Used, Holds
  <2>9. Aims'
    BY <1>c, <2>1, <2>4 DEF Truthful, Aims
  <2>10. Holds'
    BY <1>h, <2>1 DEF Holds
  <2>11. Fresh'
    BY <2>1, <2>4 DEF Truthful, Fresh, Used
  <2> QED BY <2>6, <2>7, <2>8, <2>9, <2>10, <2>11 DEF Truthful
<1>16. CASE "reboot" \in Features /\ Boot
  <2> DEFINE f == [i \in Slots |-> FreeSlot]
  <2>1. \A i \in Slots : ~f[i].connected
    BY DEF FreeSlot
  <2>2. /\ slot' \in Preallocations(f, bonds, rows) /\ host' = HostIdle /\ conn' = NoConn
        /\ link' = [h \in Handles |-> NoLink]
    BY <1>16 DEF Boot
  <2> HIDE DEF f
  <2>3. \A i \in Slots : slot'[i] = f[i] \/ ~slot'[i].connected
    BY <2>2, GivenOut
  <2>4. \A i \in Slots : ~slot'[i].connected
    BY <2>1, <2>3
  <2>5. \A h \in Handles : link'[h].peer = NoPeer /\ link'[h].via = "none"
    BY <1>h, <2>2
  <2>6. HeardLinks' /\ OneLink' /\ ProbeLinks' /\ Marks' /\ Aims' /\ Holds'
    BY <1>h, <2>2, <2>4, <2>5 DEF HeardLinks, Linked, OneLink, ProbeLinks, Marks, Aims, Holds
  <2>7. Fresh'
    BY <1>16 DEF Fresh
  <2> QED BY <2>6, <2>7 DEF Truthful
<1>17. CASE \/ ScanRestart \/ WipeRows \/ PairingStart \/ PairingEnd \/ ClockSynced
            \/ NtpServerChanged
            \/ \E t \in TimeoutMin .. TimeoutMax : SetTimeout(t)
            \/ \E p \in Peers : Moves(p)
            \/ \E h \in Handles : RepeatPairing(h)
            \/ HostWaits
            \/ \E i \in Slots : TickWaits(i)
            \/ UNCHANGED vars
  BY <1>1, <1>17 DEF ScanRestart, WipeRows, PairingStart, PairingEnd, ClockSynced,
    NtpServerChanged, SetTimeout, Moves, RepeatPairing, HostWaits, TickWaits, codeVars, radioVars,
    vars
<1>18. ~RevokeSlot
  BY DEF RevokeSlot, Visited
<1> QED
  BY <1>2, <1>3, <1>4, <1>5, <1>6, <1>7, <1>8, <1>9, <1>10, <1>11, <1>12, <1>13, <1>14, <1>15,
    <1>16, <1>17, <1>18
  DEF Next, Tick, Radio, Admin, World, Stall, NoRevocation

\* Without revocations, what the slots say is true from the start and stays so.
LEMMA AlwaysTruthful ==
  ASSUME EnoughSlots, NoRevocation
  PROVE  Spec => []Truthful
<1>1. Init => Visited /\ Truthful
  <2> SUFFICES ASSUME Init PROVE Visited /\ Truthful
    OBVIOUS
  <2> DEFINE f == [i \in Slots |-> FreeSlot]
  <2>1. \A i \in Slots : f[i].addr = NoPeer /\ ~f[i].connected /\ ~f[i].present
    BY DEF FreeSlot
  <2>2. /\ slot \in Preallocations(f, bonds, rows) /\ host.then = "none" /\ conn.slot = 0
        /\ http.op = "none" /\ tick.phase = "eval"
        /\ \A h \in Handles : link[h].peer = NoPeer /\ link[h].via = "none"
        /\ \A p \in Peers : rows[p].last = "none"
        /\ bonds \in SUBSET Peers
    BY DEF Init, HostIdle, NoConn, HttpIdle, TickIdle, NoLink, NoRows
  <2> HIDE DEF f
  <2>3. \A i \in Slots : ~slot[i].connected /\ ~slot[i].present
    <3>1. \A i \in Slots :
            \/ slot[i] = f[i]
            \/ ~slot[i].connected /\ slot[i].addr \in bonds
               /\ (slot[i].present => rows[slot[i].addr].last = "in")
      BY <2>2, GivenOut
    <3> QED BY <2>1, <2>2, <3>1
  <2> QED BY <2>2, <2>3 DEF Visited, Truthful, HeardLinks, Linked, OneLink, ProbeLinks, Marks,
    Aims, Holds, Fresh
<1>2. Typed /\ Visited /\ [Next]_vars => Visited'
  BY NextVisited
<1>3. Typed /\ [Next]_vars => Typed'
  BY NextTyped
<1>4. /\ Typed /\ Typed' /\ OneSlotPerPeer /\ Tracked /\ Visited /\ Truthful
      /\ [Next]_vars
      => Truthful'
  BY NextTruthful
<1>5. Spec => []Tracked
  BY AlwaysTracked
<1> QED BY <1>1, <1>2, <1>3, <1>4, <1>5, AlwaysTyped, SlotsDistinct, PTL DEF Spec

(***************************************************************************)
(* PresenceIsTrue: however advertisements, probes, links and the tick      *)
(* interleave, a phone shown as present was on the air no longer ago than  *)
(* the timeout, a probe and a tick, if nothing is revoked, no task has     *)
(* waited for the log and the device does not restart: after a restart the *)
(* presence is that of the log until the first timeout, and nothing was    *)
(* heard.                                                                  *)
(***************************************************************************)
THEOREM PresenceTruthful ==
  ASSUME EnoughSlots, NoRevocation, "reboot" \notin Features
  PROVE  Spec => []PresenceIsTrue
<1>1. Typed /\ Truthful /\ PromptOut => PresenceIsTrue
  <2> SUFFICES ASSUME Typed, Truthful, PromptOut,
                      NEW i \in Slots, slot[i].addr # NoPeer, slot[i].present,
                      waits = "none"
               PROVE  heard[slot[i].addr] < AgeMax
    BY DEF PresenceIsTrue, Used
  <2>1. /\ slot[i].addr \in Peers /\ slot[i].seen \in Nat
        /\ heard[slot[i].addr] \in Nat
    BY Ages DEF Typed, TypeOK, SlotRec
  <2>2. CASE slot[i].connected
    <3>1. heard[slot[i].addr] = 0
      BY <2>1, <2>2 DEF Truthful, Marks, HeardLinks
    <3>2. AgeMax \in Nat /\ 0 < AgeMax
      BY TimesAssumption DEF AgeMax
    <3> QED BY <3>1, <3>2
  <2>3. CASE ~slot[i].connected
    <3>1. heard[slot[i].addr] <= slot[i].seen /\ slot[i].seen < AgeMax
      BY <2>3 DEF Truthful, Fresh, Used, PromptOut
    <3> QED BY <2>1, <3>1, Ages
  <2> QED BY <2>2, <2>3
<1>2. Spec => []Truthful
  BY AlwaysTruthful
<1> QED BY <1>1, <1>2, AlwaysTyped, OutIsPrompt, PTL

(***************************************************************************)
(* ConnectedMeansLinked (dd_ble.c:96): a slot marked connected has a link  *)
(* to its own phone, if nothing is revoked.                                *)
(***************************************************************************)
THEOREM MarksAreLinks ==
  ASSUME EnoughSlots, NoRevocation
  PROVE  Spec => []ConnectedMeansLinked
<1>1. Truthful => ConnectedMeansLinked
  BY DEF Truthful, Marks, ConnectedMeansLinked
<1>2. Spec => []Truthful
  BY AlwaysTruthful
<1> QED BY <1>1, <1>2, PTL

-----------------------------------------------------------------------------
(***************************************************************************)
(* The rows of a phone alternate: an IN follows no IN and an OUT follows   *)
(* one IN, as long as every row that is due can be recorded and none is    *)
(* taken away.                                                             *)
(*                                                                         *)
(* An IN.  A slot whose ack_event is not set denies that its phone's last  *)
(* row is an IN (Denies), so the IN that is due when a phone is seen is no *)
(* second one.  But the host task and the tick may both find it due; one   *)
(* of them stamps it first, and may then wait for the log.  The stamp is   *)
(* younger than the debounce from there to the moment the row is in the    *)
(* log, unless the row waits for as long as that (waits): the other task's *)
(* IN is swallowed (NoSecond).                                             *)
(*                                                                         *)
(* An OUT.  A slot that is present was seen since its phone's last OUT, or *)
(* that is older than the debounce (Left), so the debounce never swallows  *)
(* an OUT, and the slot's denial afterwards is right.                      *)
(*                                                                         *)
(* That every OUT follows an IN needs more: a slot that is acknowledged is *)
(* so for an IN that is in the log, or about to be (Believes).  An IN that *)
(* is swallowed must then be that of the last row (Stamped), and so an OUT *)
(* must come no earlier than the debounce after its IN; it does, since a   *)
(* slot was seen at most one tick before its IN is recorded (Since, Soon), *)
(* as long as no row had to wait.                                          *)
(***************************************************************************)
Undisturbed ==
    /\ Features \cap {"revoke", "wipe", "ntp", "reboot", "appendfail", "lateclock"} = {}
    /\ Debounce > 0

Last(p) == rows[p].last

\* An IN of p is stamped and waits for the log.
Coming(p) == append.host = p \/ (append.tick = p /\ tick.phase = "in")

\* What the slot of a phone knows and how long ago that was.
Denies(i) == ~slot[i].ack => Last(slot[i].addr) # "in"
Leaving(i) == ~slot[i].present /\ slot[i].ack => tick.at = i /\ tick.phase = "out"
Left(i) ==
    slot[i].present => \/ since[slot[i].addr]["out"] = Debounce
                       \/ slot[i].seen <= since[slot[i].addr]["out"]
Believes(i) ==
    waits = "none" /\ slot[i].ack => Last(slot[i].addr) = "in" \/ Coming(slot[i].addr)
Since(i) ==
    waits = "none" /\ slot[i].ack => \/ since[slot[i].addr]["in"] = Debounce
                                     \/ slot[i].seen <= since[slot[i].addr]["in"] + 1
Soon(i) ==
    waits = "none" /\ slot[i].present /\ ~slot[i].ack =>
        slot[i].seen <= IF Pending(i) THEN 1 ELSE 0

Knows(i) == Denies(i) /\ Leaving(i) /\ Left(i) /\ Believes(i) /\ Since(i) /\ Soon(i)
SlotsKnow == \A i \in Slots : Used(i) => Knows(i)

\* A phone without a slot is not in.
UnheldClosed ==
    \A p \in Peers : (\A i \in Slots : slot[i].addr # p) => Last(p) # "in"

\* An IN that the debounce would swallow is that of the last row, or one that waits.
Stamped ==
    waits = "none" =>
        \A p \in Peers : Last(p) # "in" => since[p]["in"] = Debounce \/ Coming(p)

\* The IN that is due (or stamped and waiting, if w) is no second one: the last row, the
\* age of the IN's stamp, and whether no row had to wait so far.
NoSecond(last, age, w, calm) ==
    /\ w => last # "in" /\ age < Debounce
    /\ ~w /\ last = "in" => age < Debounce
    /\ w /\ calm => age = 0

\* What the tick is about to record.
TickRecords ==
    LET i == tick.at
        p == slot[i].addr
        w == append.tick # NoPeer
    IN  /\ tick.phase = "eval" => ~w
        /\ tick.phase \in {"in", "out"} => i \in Slots /\ Used(i) /\ append.tick \in {NoPeer, p}
        /\ tick.phase = "in" =>
             /\ slot[i].present
             /\ NoSecond(Last(p), since[p]["in"], w, waits = "none")
             /\ w => append.host # p
        /\ tick.phase = "out" =>
             /\ slot[i].ack /\ host.slot # i
             /\ ~w => since[p]["out"] = Debounce
             /\ ~w \/ waits = "none" => (slot[i].present => slot[i].seen = 0)
             /\ waits = "none" => since[p]["in"] = Debounce

\* What the host task is about to record.
HostRecords ==
    LET i == host.slot
        p == host.peer
        w == append.host # NoPeer
    IN  /\ i = 0 => ~w
        /\ i # 0 => /\ host.then # "alloc"
                    /\ slot[i].addr = p /\ Used(i) /\ slot[i].present
                    /\ append.host \in {NoPeer, p}
                    /\ NoSecond(Last(p), since[p]["in"], w, waits = "none")
                    /\ ~w => slot[i].seen = 0
                    /\ w => slot[i].seen <= since[p]["in"]

Alternating ==
    /\ waits # "long" /\ synced /\ http.op = "none"
    /\ SlotsKnow /\ UnheldClosed /\ Stamped /\ TickRecords /\ HostRecords
    /\ NoOrphanOut /\ NoDoubleIn

\* The invariant: a row that has waited for as long as the debounce ends what is promised.
UntilLong == synced /\ http.op = "none" /\ (waits # "long" => Alternating)

\* s and t tell the same about the rows.
SameRow(s, t) ==
    s.addr = t.addr /\ s.ack = t.ack /\ s.present = t.present /\ s.seen = t.seen

\* A slot holding s was kept, or just seen, as t.
Kept(s, t) ==
    /\ t.addr = s.addr /\ t.ack = s.ack
    /\ s.present => t.present
    /\ t.seen = 0 \/ (t.seen = s.seen /\ t.present = s.present)

\* The types that the steps below rely on.
LEMMA RowTypes ==
  ASSUME Typed
  PROVE  /\ TypeOK /\ slot \in [Slots -> SlotRec]
         /\ \A j \in Slots : /\ slot[j] \in SlotRec
                             /\ slot[j].ack \in BOOLEAN /\ slot[j].present \in BOOLEAN
                             /\ slot[j].addr \in Peers \cup {NoPeer} /\ slot[j].seen \in Nat
         /\ since \in [Peers -> [EventTypes -> 0 .. Debounce]]
         /\ \A p \in Peers : since[p]["in"] \in 0 .. Debounce /\ since[p]["out"] \in 0 .. Debounce
         /\ rows \in [Peers -> RowsRec]
         /\ host.slot \in 0 .. MaxSlots /\ host.peer \in Peers \cup {NoPeer}
         /\ host.bonded \in SUBSET Peers
         /\ tick.at \in 0 .. MaxSlots /\ tick.phase \in {"eval", "in", "out"}
         /\ append \in AppendRec
         /\ append.host \in Peers \cup {NoPeer} /\ append.tick \in Peers \cup {NoPeer}
         /\ Debounce \in Nat /\ AgeMax \in Nat /\ timeout \in Nat /\ Debounce <= timeout
         /\ MaxSlots \in Nat /\ 0 \notin Slots /\ NoPeer \notin Peers
         /\ \A i \in 0 .. MaxSlots : i # 0 => i \in Slots
<1>1. /\ Debounce \in Nat /\ AgeMax \in Nat /\ timeout \in Nat /\ Debounce <= timeout
      /\ MaxSlots \in Nat /\ 0 \notin Slots /\ NoPeer \notin Peers
      /\ \A i \in 0 .. MaxSlots : i # 0 => i \in Slots
  BY Ages, TimesAssumption, SizesAssumption, PeersAssumption DEF Typed, TypeOK, Slots
<1>2. /\ slot \in [Slots -> SlotRec]
      /\ \A j \in Slots : /\ slot[j] \in SlotRec
                          /\ slot[j].ack \in BOOLEAN /\ slot[j].present \in BOOLEAN
                          /\ slot[j].addr \in Peers \cup {NoPeer} /\ slot[j].seen \in Nat
  BY Ages DEF Typed, TypeOK, SlotRec
<1>3. /\ since \in [Peers -> [EventTypes -> 0 .. Debounce]] /\ rows \in [Peers -> RowsRec]
      /\ \A p \in Peers : since[p]["in"] \in 0 .. Debounce /\ since[p]["out"] \in 0 .. Debounce
  BY DEF Typed, TypeOK, EventTypes
<1>4. /\ host.slot \in 0 .. MaxSlots /\ host.peer \in Peers \cup {NoPeer}
      /\ host.bonded \in SUBSET Peers
      /\ tick.at \in 0 .. MaxSlots /\ tick.phase \in {"eval", "in", "out"}
      /\ append \in AppendRec
      /\ append.host \in Peers \cup {NoPeer} /\ append.tick \in Peers \cup {NoPeer}
  BY DEF Typed, TypeOK, HostRec, TickRec, AppendRec
<1> QED BY <1>1, <1>2, <1>3, <1>4 DEF Typed

\* presence_seen_addr and the rest of its callback, while the wall clock is known: the
\* slots are kept or just seen, a slot is claimed only with an IN due, and the host task
\* stops only for an IN.
LEMMA SeenRows ==
  ASSUME synced, NEW f \in [Slots -> SlotRec], NEW p \in Peers \cup {NoPeer},
         NEW then \in {"none", "hid", "probe"}, SeenThen(f, p, then)
  PROVE  /\ \A j \in Slots :
              \/ Kept(f[j], slot'[j])
              \/ /\ f[j].addr = NoPeer /\ slot'[j].addr = p
                 /\ \A k \in Slots : f[k].addr # p
                 /\ ~slot'[j].ack /\ slot'[j].seen = 0
         /\ \/ host' = host
            \/ /\ host'.slot \in Slots /\ host'.peer = p /\ p # NoPeer
               /\ slot'[host'.slot].addr = p /\ slot'[host'.slot].present
               /\ slot'[host'.slot].seen = 0 /\ ~slot'[host'.slot].ack
               /\ host'.then # "alloc"
<1> DEFINE g == SeenSlots(f, p)
           i0 == SeenAt(f, p)
           base == IF f[i0].addr = p THEN f[i0] ELSE Claimed(f[i0], p)
           new == [base EXCEPT !.seen = 0, !.present = TRUE]
<1>1. \A i \in Slots : g[i] = IF i # i0 THEN f[i] ELSE new
  BY DEF SeenSlots
<1>2. /\ i0 # 0 => i0 \in Slots /\ p # NoPeer /\ f[i0].addr \in {p, NoPeer}
      /\ i0 # 0 /\ f[i0].addr # p => \A k \in Slots : f[k].addr # p
      /\ i0 \in Slots \cup {0}
  BY SeenAtFacts
<1>3. 0 \notin Slots
  BY SizesAssumption DEF Slots
<1>4. ASSUME i0 \in Slots
      PROVE  /\ new.addr = p /\ new.seen = 0 /\ new.present
             /\ f[i0].addr = p => new.ack = f[i0].ack
             /\ f[i0].addr # p => ~new.ack
  <2>1. f[i0] \in SlotRec
    BY <1>4
  <2>2. CASE f[i0].addr = p
    BY <2>1, <2>2 DEF SlotRec
  <2>3. CASE f[i0].addr # p
    <3>1. base = Claimed(f[i0], p)
      BY <2>3
    <3> QED BY <2>1, <2>3, <3>1 DEF SlotRec, Claimed
  <2> QED BY <2>2, <2>3
<1> HIDE DEF new, base
<1>5. \/ /\ i0 # 0 /\ ~g[i0].ack
         /\ slot' = g
         /\ host' = [slot |-> i0, peer |-> p, then |-> then, bonded |-> {}]
      \/ /\ i0 = 0 \/ g[i0].ack
         /\ slot' = g \/ slot' = MarkConnected(g, p)
         /\ host' = host
  BY DEF SeenThen, AfterSeen
<1>6. g \in [Slots -> SlotRec]
  BY SeenSlotsFacts
<1> HIDE DEF g, i0
<1>7. \A j \in Slots :
        MarkConnected(g, p)[j] = IF g[j].addr = p /\ p # NoPeer
                                 THEN [g[j] EXCEPT !.connected = TRUE] ELSE g[j]
  BY DEF MarkConnected
<1>8. \A j \in Slots : SameRow(slot'[j], g[j])
  <2>1. ASSUME NEW s \in SlotRec PROVE SameRow([s EXCEPT !.connected = TRUE], s)
    BY DEF SameRow, SlotRec
  <2>2. \A s : SameRow(s, s)
    BY DEF SameRow
  <2>3. \A j \in Slots : g[j] \in SlotRec
    BY <1>6
  <2> QED BY <1>5, <1>7, <2>1, <2>2, <2>3
<1>9. ASSUME NEW j \in Slots
      PROVE  \/ Kept(f[j], slot'[j])
             \/ /\ f[j].addr = NoPeer /\ slot'[j].addr = p
                /\ \A k \in Slots : f[k].addr # p
                /\ ~slot'[j].ack /\ slot'[j].seen = 0
  <2>1. CASE j # i0
    BY <1>1, <1>8, <2>1 DEF SameRow, Kept
  <2>2. CASE j = i0
    <3>1. g[j] = new /\ i0 \in Slots /\ i0 # 0
      BY <1>1, <1>3, <2>2
    <3> QED BY <1>2, <1>4, <1>8, <2>2, <3>1 DEF SameRow, Kept
  <2> QED BY <2>1, <2>2
<1>10. CASE host' = [slot |-> i0, peer |-> p, then |-> then, bonded |-> {}]
            /\ i0 # 0 /\ slot' = g /\ ~g[i0].ack
  <2>1. /\ host'.slot = i0 /\ host'.peer = p /\ i0 \in Slots /\ p # NoPeer
        /\ host'.then = then /\ then # "alloc"
    BY <1>2, <1>10
  <2>2. g[i0] = new
    BY <1>1, <2>1
  <2> QED BY <1>4, <1>9, <1>10, <2>1, <2>2
<1> QED BY <1>5, <1>9, <1>10

\* Steps that record nothing and leave the tick and the clock alone: slots are kept, just
\* seen, or given to phones that had none; the host task stays, or stops for an IN.
LEMMA RowsFrame ==
  ASSUME Typed, Typed', Alternating,
         UNCHANGED <<rows, since, tick, synced, append, waits>>, http'.op = "none",
         \A j \in Slots :
           \/ Kept(slot[j], slot'[j])
           \/ /\ slot[j].addr = NoPeer
              /\ \A k \in Slots : slot[k].addr # slot'[j].addr
              /\ ~slot'[j].ack
              /\ slot'[j].present => slot'[j].seen = 0,
         \/ host' = host
         \/ /\ host.slot = 0
            /\ \/ host'.slot = 0
               \/ /\ host'.slot \in Slots /\ slot'[host'.slot].addr = host'.peer
                  /\ host'.peer # NoPeer
                  /\ slot'[host'.slot].present /\ slot'[host'.slot].seen = 0
                  /\ ~slot'[host'.slot].ack
                  /\ host'.then # "alloc"
  PROVE  Alternating'
<1>t. /\ tick'.at = tick.at /\ tick'.phase = tick.phase
      /\ append'.host = append.host /\ append'.tick = append.tick
      /\ \A j \in Slots : /\ slot'[j].ack \in BOOLEAN /\ slot'[j].present \in BOOLEAN
                          /\ slot'[j].addr \in Peers \cup {NoPeer}
      /\ \A p : Coming(p)' <=> Coming(p)
  BY DEF Typed, TypeOK, SlotRec, Coming
<1>k. \A j \in Slots : slot[j].addr # NoPeer => Kept(slot[j], slot'[j])
  OBVIOUS
<1>1. waits' # "long" /\ synced' /\ http'.op = "none" /\ NoOrphanOut' /\ NoDoubleIn'
  BY DEF Alternating, NoOrphanOut, NoDoubleIn
<1>2. UnheldClosed'
  <2> SUFFICES ASSUME NEW p \in Peers, \A i \in Slots : slot'[i].addr # p
               PROVE  rows[p].last # "in"
    BY DEF UnheldClosed, Last
  <2>1. \A i \in Slots : slot[i].addr # p
    BY <1>k, PeersAssumption DEF Kept
  <2> QED BY <2>1 DEF Alternating, UnheldClosed, Last
<1>3. Stamped'
  BY <1>t DEF Alternating, Stamped, Last
<1>4. SlotsKnow'
  <2> SUFFICES ASSUME NEW i \in Slots, slot'[i].addr # NoPeer PROVE Knows(i)'
    BY DEF SlotsKnow, Used
  <2>0. Pending(i)' = Pending(i)
    BY <1>t DEF Pending
  <2>1. CASE Kept(slot[i], slot'[i])
    <3>1. Denies(i) /\ Leaving(i) /\ Left(i) /\ Believes(i) /\ Since(i) /\ Soon(i)
      BY <2>1 DEF Alternating, SlotsKnow, Knows, Used, Kept
    <3>2. slot[i].addr \in Peers
      BY <1>t, <2>1 DEF Kept
    <3>3. Denies(i)' /\ Believes(i)'
      BY <1>t, <2>1, <3>1 DEF Denies, Believes, Last, Kept
    <3>4. Since(i)' /\ Left(i)'
      BY <2>1, <3>1, <3>2, RowTypes DEF Since, Left, Kept
    <3>5. Soon(i)'
      BY <2>0, <2>1, <3>1 DEF Soon, Kept
    <3>6. Leaving(i)'
      BY <1>t, <2>1, <3>1, RowTypes DEF Leaving, Kept
    <3> QED BY <3>3, <3>4, <3>5, <3>6 DEF Knows
  <2>2. CASE /\ \A k \in Slots : slot[k].addr # slot'[i].addr
             /\ ~slot'[i].ack
             /\ slot'[i].present => slot'[i].seen = 0
    <3>1. slot'[i].addr \in Peers
      BY <1>t
    <3>2. rows[slot'[i].addr].last # "in" /\ since[slot'[i].addr]["out"] \in Nat
      BY <2>2, <3>1, RowTypes DEF Alternating, UnheldClosed, Last
    <3> QED BY <2>2, <3>2 DEF Knows, Denies, Left, Believes, Since, Soon, Leaving, Last
  <2> QED BY <2>1, <2>2
<1>5. TickRecords'
  <2> DEFINE i == tick.at
             p == slot[i].addr
  <2>1. CASE tick.phase = "eval"
    BY <1>t, <2>1 DEF Alternating, TickRecords
  <2>2. CASE tick.phase \in {"in", "out"}
    <3>1. i \in Slots /\ p # NoPeer /\ append.tick \in {NoPeer, p}
      BY <2>2 DEF Alternating, TickRecords, Used
    <3>2. Kept(slot[i], slot'[i])
      BY <1>k, <3>1
    <3>3. CASE tick.phase = "in"
      <4>1. /\ slot[i].present
            /\ NoSecond(Last(p), since[p]["in"], append.tick # NoPeer, waits = "none")
            /\ append.tick # NoPeer => append.host # p
        BY <3>3 DEF Alternating, TickRecords
      <4>2. slot'[i].present /\ slot'[i].addr = p
        BY <3>2, <4>1 DEF Kept
      <4> QED BY <1>t, <3>1, <3>3, <4>1, <4>2 DEF TickRecords, Used, Last
    <3>4. CASE tick.phase = "out"
      <4>1. /\ slot[i].ack /\ host.slot # i
            /\ append.tick = NoPeer => since[p]["out"] = Debounce
            /\ append.tick = NoPeer \/ waits = "none" => (slot[i].present => slot[i].seen = 0)
            /\ waits = "none" => since[p]["in"] = Debounce
        BY <3>4 DEF Alternating, TickRecords
      <4>2. /\ slot'[i].ack /\ slot'[i].addr = p
            /\ slot'[i].present => slot'[i].seen = 0 \/ (slot[i].present /\ slot'[i].seen = slot[i].seen)
        BY <3>2, <4>1 DEF Kept
      <4>3. host'.slot # i
        BY <3>1, <4>1, <4>2, RowTypes
      <4> QED BY <1>t, <3>1, <3>4, <4>1, <4>2, <4>3 DEF TickRecords, Used
    <3> QED BY <2>2, <3>3, <3>4
  <2> QED BY <2>1, <2>2, RowTypes
<1>6. HostRecords'
  <2>1. CASE host' = host
    <3>1. CASE host.slot = 0
      BY <1>t, <2>1, <3>1 DEF Alternating, HostRecords
    <3>2. CASE host.slot # 0
      <4>1. host.slot \in Slots
        BY <3>2, RowTypes
      <4>2. Kept(slot[host.slot], slot'[host.slot])
        BY <1>k, <3>2, <4>1 DEF Alternating, HostRecords, Used
      <4>3. LET i == host.slot
                p == host.peer
                w == append.host # NoPeer
            IN  /\ host.then # "alloc" /\ slot[i].addr = p /\ p # NoPeer /\ slot[i].present
                /\ append.host \in {NoPeer, p}
                /\ NoSecond(Last(p), since[p]["in"], w, waits = "none")
                /\ ~w => slot[i].seen = 0
                /\ w => slot[i].seen <= since[p]["in"]
        BY <3>2 DEF Alternating, HostRecords, Used
      <4>4. /\ slot'[host.slot].addr = host.peer /\ slot'[host.slot].present
            /\ slot'[host.slot].seen \in {0, slot[host.slot].seen}
            /\ since[host.peer]["in"] \in Nat
        BY <4>1, <4>2, <4>3, RowTypes DEF Kept
      <4> QED BY <1>t, <2>1, <3>2, <4>3, <4>4 DEF HostRecords, Used, Last
    <3> QED BY <3>1, <3>2
  <2>2. CASE host.slot = 0 /\ host'.slot = 0
    BY <1>t, <2>2 DEF Alternating, HostRecords
  <2>3. CASE /\ host.slot = 0
             /\ host'.slot \in Slots /\ slot'[host'.slot].addr = host'.peer
             /\ host'.peer # NoPeer
             /\ slot'[host'.slot].present /\ slot'[host'.slot].seen = 0
             /\ ~slot'[host'.slot].ack
             /\ host'.then # "alloc"
    <3>1. append'.host = NoPeer
      BY <1>t, <2>3 DEF Alternating, HostRecords
    <3>2. ASSUME NEW i \in Slots, slot'[i].addr # NoPeer, ~slot'[i].ack
          PROVE  rows'[slot'[i].addr].last # "in"
      <4>1. Knows(i)'
        BY <1>4, <3>2 DEF SlotsKnow, Used
      <4> QED BY <3>2, <4>1 DEF Knows, Denies, Last
    <3>3. rows'[host'.peer].last # "in"
      BY <2>3, <3>2
    <3> QED BY <2>3, <3>1, <3>3 DEF HostRecords, Used, Last, NoSecond
  <2> QED BY <2>1, <2>2, <2>3
<1> QED BY <1>1, <1>2, <1>3, <1>4, <1>5, <1>6 DEF Alternating

\* Time passes: the ages of a phone's slot and of its stamps grow together, and a task
\* that is in the middle of a row waits for the log.
LEMMA AgeRows ==
  ASSUME Typed, Typed', Alternating, ClockTick \/ Stalled, waits' # "long"
  PROVE  Alternating'
<1>t. /\ \A j \in Slots : slot[j].addr \in Peers \cup {NoPeer} /\ slot[j].seen \in Nat
      /\ \A p \in Peers : since[p]["in"] \in 0 .. Debounce /\ since[p]["out"] \in 0 .. Debounce
      /\ Debounce \in Nat /\ AgeMax \in Nat /\ 0 \notin Slots
      /\ append.host \in Peers \cup {NoPeer} /\ append.tick \in Peers \cup {NoPeer}
      /\ tick.phase \in {"eval", "in", "out"}
  BY RowTypes
<1>e. "in" \in EventTypes /\ "out" \in EventTypes
  BY DEF EventTypes
<1>0. tick.phase # "eval" => tick.at # 0
  BY <1>t DEF Alternating, TickRecords
<1>c. /\ UNCHANGED <<host, http, synced, rows, append>> /\ Ageing
      /\ host.slot # 0 => append.host # NoPeer
      /\ tick.at # 0 => append.tick # NoPeer /\ tick' = tick
      /\ tick.at = 0 => append.tick = NoPeer /\ tick'.at = 1 /\ tick'.phase = "eval"
      /\ waits' = "none" => waits = "none" /\ tick.at = 0 /\ append.host = NoPeer
  <2>1. tick.at = 0 => append.tick = NoPeer
    BY <1>0, <1>t DEF Alternating, TickRecords
  <2>2. host.slot = 0 => append.host = NoPeer
    BY DEF Alternating, HostRecords
  <2>3. HostIdle.slot = 0
    BY DEF HostIdle
  <2>4. CASE ClockTick
    BY <2>1, <2>2, <2>3, <2>4 DEF ClockTick
  <2>5. CASE Stalled
    <3>1. host.then = "alloc" => host.slot = 0
      BY DEF Alternating, HostRecords
    <3>2. waits' # "none"
      BY <2>5 DEF Stalled
    <3> QED BY <2>1, <2>3, <2>5, <3>1, <3>2 DEF Stalled
  <2> QED BY <2>4, <2>5
<1>y. /\ append.host # NoPeer => since'[append.host]["in"] # Debounce
      /\ append.tick # NoPeer /\ tick.phase = "in" => since'[append.tick]["in"] # Debounce
  <2>1. CASE ClockTick
    <3>1. HostIdle.slot = 0
      BY DEF HostIdle
    <3> QED BY <1>c, <2>1, <3>1 DEF ClockTick, Alternating, HostRecords
  <2>2. CASE Stalled
    <3>1. ~Overdue
      BY <2>2 DEF Stalled
    <3> QED BY <3>1 DEF Overdue
  <2> QED BY <2>1, <2>2
<1>s. \A j \in Slots : /\ slot'[j].addr = slot[j].addr /\ slot'[j].ack = slot[j].ack
                       /\ slot'[j].present = slot[j].present
                       /\ slot'[j].seen = Older(slot[j].seen, AgeMax)
  BY <1>c, RowTypes, AgeingFacts
<1>i. \A p \in Peers : /\ since'[p]["in"] = Older(since[p]["in"], Debounce)
                       /\ since'[p]["out"] = Older(since[p]["out"], Debounce)
  BY <1>c, <1>e DEF Ageing
<1>1. synced' /\ http'.op = "none" /\ NoOrphanOut' /\ NoDoubleIn'
  BY <1>c DEF Alternating, NoOrphanOut, NoDoubleIn
<1>2. UnheldClosed'
  BY <1>c, <1>s DEF Alternating, UnheldClosed, Last
<1>3. Stamped'
  <2> SUFFICES ASSUME waits' = "none", NEW p \in Peers, rows[p].last # "in"
               PROVE  since'[p]["in"] = Debounce
    BY <1>c DEF Stamped, Last
  <2>1. ~Coming(p)
    BY <1>c, PeersAssumption DEF Coming
  <2>2. since[p]["in"] = Debounce
    BY <1>c, <2>1 DEF Alternating, Stamped, Last
  <2> QED BY <1>i, <1>t, <2>2 DEF Older
<1>4. SlotsKnow'
  <2> SUFFICES ASSUME NEW i \in Slots, slot'[i].addr # NoPeer PROVE Knows(i)'
    BY DEF SlotsKnow, Used
  <2>1. /\ Denies(i) /\ Leaving(i) /\ Left(i) /\ Believes(i) /\ Since(i) /\ Soon(i)
        /\ slot[i].addr \in Peers
    BY <1>s, <1>t DEF Alternating, SlotsKnow, Knows, Used
  <2>2. Denies(i)'
    BY <1>c, <1>s, <2>1 DEF Denies, Last
  <2>3. Leaving(i)'
    BY <1>c, <1>s, <1>t, <2>1 DEF Leaving
  <2>4. Left(i)'
    BY <1>i, <1>s, <1>t, <2>1 DEF Left, Older
  <2>5. Believes(i)'
    <3>1. waits' = "none" => ~Coming(slot[i].addr)
      BY <1>c, <2>1, PeersAssumption DEF Coming
    <3> QED BY <1>c, <1>s, <2>1, <3>1 DEF Believes, Last
  <2>6. Since(i)'
    BY <1>c, <1>i, <1>s, <1>t, <2>1 DEF Since, Older
  <2>7. Soon(i)'
    <3>1. waits' = "none" => ~Pending(i) /\ Pending(i)'
      BY <1>c DEF Pending, Slots
    <3> QED BY <1>c, <1>s, <1>t, <2>1, <3>1 DEF Soon, Older
  <2> QED BY <2>2, <2>3, <2>4, <2>5, <2>6, <2>7 DEF Knows
\* An IN that waits has not waited for as long as the debounce.
<1>w. ASSUME NEW p \in Peers, NoSecond(Last(p), since[p]["in"], TRUE, waits = "none"),
             since'[p]["in"] # Debounce, waits' # "none"
      PROVE  /\ NoSecond(rows'[p].last, since'[p]["in"], TRUE, waits' = "none")
             /\ since'[p]["in"] = since[p]["in"] + 1
  <2>1. since[p]["in"] < Debounce /\ Last(p) # "in"
    BY <1>w DEF NoSecond
  <2>2. since'[p]["in"] = since[p]["in"] + 1 /\ since'[p]["in"] < Debounce
    BY <1>i, <1>t, <1>w, <2>1 DEF Older
  <2> QED BY <1>c, <1>w, <2>1, <2>2 DEF NoSecond, Last
<1>5. TickRecords'
  <2>1. CASE tick.at = 0
    BY <1>c, <2>1 DEF TickRecords
  <2>2. CASE tick.at # 0
    <3> DEFINE i == tick.at
               p == slot[i].addr
    <3>1. /\ append.tick # NoPeer /\ tick' = tick /\ append' = append /\ waits' # "none"
          /\ tick.phase \in {"in", "out"}
      BY <1>c, <1>t, <2>2 DEF Alternating, TickRecords
    <3>2. i \in Slots /\ p # NoPeer /\ append.tick = p /\ p \in Peers
      BY <1>t, <3>1 DEF Alternating, TickRecords, Used
    <3>3. slot'[i].addr = p /\ slot'[i].present = slot[i].present /\ slot'[i].ack = slot[i].ack
      BY <1>s, <3>2
    <3>4. CASE tick.phase = "in"
      <4>1. /\ slot[i].present /\ append.host # p
            /\ NoSecond(Last(p), since[p]["in"], TRUE, waits = "none")
        BY <3>1, <3>2, <3>4 DEF Alternating, TickRecords
      <4>2. NoSecond(rows'[p].last, since'[p]["in"], TRUE, waits' = "none")
        BY <1>w, <1>y, <3>1, <3>2, <3>4, <4>1
      <4> QED BY <1>c, <3>1, <3>2, <3>3, <3>4, <4>1, <4>2 DEF TickRecords, Used, Last
    <3>5. CASE tick.phase = "out"
      <4>1. slot[i].ack /\ host.slot # i
        BY <3>5 DEF Alternating, TickRecords
      <4> QED BY <1>c, <3>1, <3>2, <3>3, <3>5, <4>1 DEF TickRecords, Used
    <3> QED BY <3>1, <3>4, <3>5
  <2> QED BY <2>1, <2>2
<1>6. HostRecords'
  <2>1. CASE host.slot = 0
    BY <1>c, <2>1 DEF Alternating, HostRecords
  <2>2. CASE host.slot # 0
    <3> DEFINE i == host.slot
               p == host.peer
    <3>1. append.host # NoPeer /\ append' = append /\ host' = host /\ waits' # "none" /\ i \in Slots
      BY <1>c, <2>2, RowTypes
    <3>2. /\ host.then # "alloc" /\ slot[i].addr = p /\ p # NoPeer /\ slot[i].present
          /\ append.host = p /\ p \in Peers
          /\ NoSecond(Last(p), since[p]["in"], TRUE, waits = "none")
          /\ slot[i].seen <= since[p]["in"]
      BY <1>t, <2>2, <3>1 DEF Alternating, HostRecords, Used
    <3>3. /\ NoSecond(rows'[p].last, since'[p]["in"], TRUE, waits' = "none")
          /\ since'[p]["in"] = since[p]["in"] + 1
      BY <1>w, <1>y, <3>1, <3>2
    <3>4. slot'[i].seen <= since'[p]["in"]
      BY <1>s, <1>t, <3>1, <3>2, <3>3 DEF Older
    <3>5. slot'[i].addr = p /\ slot'[i].present
      BY <1>s, <3>1, <3>2
    <3> QED BY <2>2, <3>1, <3>2, <3>3, <3>4, <3>5 DEF HostRecords, Used, Last
  <2> QED BY <2>1, <2>2
<1> QED BY <1>1, <1>2, <1>3, <1>4, <1>5, <1>6 DEF Alternating

\* What a new stamp does: that of p and the type becomes zero.
LEMMA StampFacts ==
  ASSUME Typed, NEW type \in EventTypes, NEW p \in Peers, Stamp(type, p)
  PROVE  /\ ~(since[p][type] < Debounce)
         /\ since'[p][type] = 0
         /\ \A e \in EventTypes : e # type => since'[p][e] = since[p][e]
         /\ \A q \in Peers : q # p => since'[q] = since[q]
<1>1. since \in [Peers -> [EventTypes -> 0 .. Debounce]]
  BY RowTypes
<1>2. since' = [since EXCEPT ![p][type] = 0]
  BY DEF Stamp
<1>3. ~(since[p][type] < Debounce)
  BY DEF Stamp, Debounced
<1> QED BY <1>1, <1>2, <1>3

\* The host task finds the log locked.
LEMMA HostWaitsRows ==
  ASSUME Typed, Typed', OneSlotPerPeer, Undisturbed, Alternating, HostWaits
  PROVE  Alternating'
<1> DEFINE i == host.slot
           p == host.peer
<1>t. /\ \A j \in Slots : slot[j].addr \in Peers \cup {NoPeer} /\ slot[j].seen \in Nat
      /\ \A q \in Peers : since[q]["in"] \in 0 .. Debounce /\ since[q]["out"] \in 0 .. Debounce
      /\ Debounce \in Nat /\ 0 < Debounce /\ NoPeer \notin Peers
      /\ append \in AppendRec
      /\ append.host \in Peers \cup {NoPeer} /\ append.tick \in Peers \cup {NoPeer}
      /\ tick.phase \in {"eval", "in", "out"}
  BY RowTypes DEF Undisturbed
<1>e. "in" \in EventTypes /\ "out" \in EventTypes /\ "out" # "in"
  BY DEF EventTypes
<1>a. /\ i # 0 /\ i \in Slots /\ append.host = NoPeer
      /\ UNCHANGED <<slot, tick, host, http, synced, rows, waits>>
  BY RowTypes DEF HostWaits, codeVars
<1>b. /\ host.then # "alloc" /\ slot[i].addr = p /\ p # NoPeer /\ p \in Peers
      /\ slot[i].present /\ slot[i].seen = 0
      /\ NoSecond(Last(p), since[p]["in"], FALSE, waits = "none")
      /\ HostPeer = p
  BY <1>a, <1>t DEF Alternating, HostRecords, Used, HostPeer
<1>c. /\ Stamp("in", p) /\ append' = [append EXCEPT !.host = p]
  BY <1>b DEF HostWaits
<1>d. /\ ~(since[p]["in"] < Debounce) /\ since'[p]["in"] = 0 /\ since'[p]["out"] = since[p]["out"]
      /\ \A q \in Peers : q # p => since'[q] = since[q]
      /\ append'.host = p /\ append'.tick = append.tick
  BY <1>b, <1>c, <1>e, <1>t, StampFacts DEF AppendRec
<1>f. /\ rows[p].last # "in"
      /\ \A j \in Slots : j # i => slot[j].addr # p
      /\ ~(append.tick = p /\ tick.phase = "in")
  <2>1. rows[p].last # "in"
    BY <1>b, <1>d DEF NoSecond, Last
  <2>2. \A j \in Slots : j # i => slot[j].addr # p
    BY <1>a, <1>b DEF OneSlotPerPeer, Used
  <2>3. ASSUME append.tick = p, tick.phase = "in" PROVE FALSE
    <3>1. slot[tick.at].addr = p /\ NoSecond(Last(p), since[p]["in"], TRUE, waits = "none")
      BY <1>b, <2>3 DEF Alternating, TickRecords
    <3> QED BY <1>d, <3>1 DEF NoSecond
  <2> QED BY <2>1, <2>2, <2>3
<1>g. \A q \in Peers : Coming(q)' <=> Coming(q) \/ q = p
  BY <1>a, <1>d, <1>t DEF Coming
<1> HIDE DEF i, p
<1>1. waits' # "long" /\ synced' /\ http'.op = "none" /\ NoOrphanOut' /\ NoDoubleIn'
  BY <1>a DEF Alternating, NoOrphanOut, NoDoubleIn
<1>2. UnheldClosed'
  BY <1>a DEF Alternating, UnheldClosed, Last
<1>3. Stamped'
  <2> SUFFICES ASSUME waits = "none", NEW q \in Peers, rows[q].last # "in"
               PROVE  since'[q]["in"] = Debounce \/ Coming(q)'
    BY <1>a DEF Stamped, Last
  <2>1. since[q]["in"] = Debounce \/ Coming(q)
    BY DEF Alternating, Stamped, Last
  <2> QED BY <1>d, <1>g, <2>1
<1>4. SlotsKnow'
  <2> SUFFICES ASSUME NEW j \in Slots, slot[j].addr # NoPeer PROVE Knows(j)'
    BY <1>a DEF SlotsKnow, Used
  <2>1. /\ Denies(j) /\ Leaving(j) /\ Left(j) /\ Believes(j) /\ Since(j) /\ Soon(j)
        /\ slot[j].addr \in Peers
    BY <1>t DEF Alternating, SlotsKnow, Knows, Used
  <2>2. Denies(j)' /\ Leaving(j)' /\ Soon(j)'
    BY <1>a, <2>1 DEF Denies, Leaving, Soon, Last, Pending
  <2>3. Believes(j)'
    BY <1>a, <1>g, <2>1 DEF Believes, Last
  <2>4. Left(j)'
    BY <1>a, <1>d, <2>1 DEF Left
  <2>5. Since(j)'
    BY <1>a, <1>b, <1>d, <1>f, <2>1 DEF Since
  <2> QED BY <2>2, <2>3, <2>4, <2>5 DEF Knows
<1>5. TickRecords'
  <2> DEFINE k == tick.at
             q == slot[k].addr
  <2>1. CASE tick.phase = "eval"
    BY <1>a, <1>d, <2>1 DEF Alternating, TickRecords
  <2>2. CASE tick.phase = "in"
    <3>1. /\ k \in Slots /\ q # NoPeer /\ append.tick \in {NoPeer, q} /\ slot[k].present
          /\ NoSecond(Last(q), since[q]["in"], append.tick # NoPeer, waits = "none")
          /\ append.tick # NoPeer => append.host # q
          /\ q \in Peers
      BY <1>t, <2>2 DEF Alternating, TickRecords, Used
    <3>2. /\ NoSecond(rows'[q].last, since'[q]["in"], append'.tick # NoPeer, waits' = "none")
          /\ append'.tick # NoPeer => append'.host # q
      <4>1. CASE q = p
        <5>1. append.tick = NoPeer
          BY <1>f, <2>2, <3>1, <4>1
        <5> QED BY <1>a, <1>d, <1>f, <4>1, <5>1 DEF NoSecond
      <4>2. CASE q # p
        BY <1>a, <1>d, <3>1, <4>2 DEF Last
      <4> QED BY <4>1, <4>2
    <3> QED BY <1>a, <1>d, <2>2, <3>1, <3>2 DEF TickRecords, Used, Last
  <2>3. CASE tick.phase = "out"
    <3>1. /\ k \in Slots /\ q # NoPeer /\ append.tick \in {NoPeer, q} /\ q \in Peers
          /\ slot[k].ack /\ host.slot # k
          /\ append.tick = NoPeer => since[q]["out"] = Debounce
          /\ append.tick = NoPeer \/ waits = "none" => (slot[k].present => slot[k].seen = 0)
          /\ waits = "none" => since[q]["in"] = Debounce
      BY <1>t, <2>3 DEF Alternating, TickRecords, Used
    <3>2. q # p
      BY <1>f, <3>1 DEF i
    <3>3. since'[q] = since[q]
      BY <1>d, <3>1, <3>2
    <3> QED BY <1>a, <1>d, <2>3, <3>1, <3>3 DEF TickRecords, Used
  <2> QED BY <1>t, <2>1, <2>2, <2>3
<1>6. HostRecords'
  BY <1>a, <1>b, <1>d, <1>f, <1>t DEF HostRecords, Used, Last, NoSecond, i, p
<1> QED BY <1>1, <1>2, <1>3, <1>4, <1>5, <1>6 DEF Alternating

\* The tick finds the log locked.
LEMMA TickWaitsRows ==
  ASSUME Typed, Typed', OneSlotPerPeer, Undisturbed, Alternating, NEW i \in Slots, TickWaits(i)
  PROVE  Alternating'
<1> DEFINE p == slot[i].addr
<1>t. /\ \A j \in Slots : slot[j].addr \in Peers \cup {NoPeer} /\ slot[j].seen \in Nat
      /\ \A q \in Peers : since[q]["in"] \in 0 .. Debounce /\ since[q]["out"] \in 0 .. Debounce
      /\ Debounce \in Nat /\ 0 < Debounce /\ NoPeer \notin Peers
      /\ append \in AppendRec
      /\ append.host \in Peers \cup {NoPeer} /\ append.tick \in Peers \cup {NoPeer}
      /\ tick.phase \in {"eval", "in", "out"}
  BY RowTypes DEF Undisturbed
<1>e. "in" \in EventTypes /\ "out" \in EventTypes /\ "out" # "in"
  BY DEF EventTypes
<1>a. /\ tick.at = i /\ tick.phase \in {"in", "out"} /\ append.tick = NoPeer
      /\ UNCHANGED <<slot, tick, host, http, synced, rows, waits>>
      /\ Stamp(tick.phase, p) /\ append' = [append EXCEPT !.tick = p]
  BY <1>t DEF TickWaits, codeVars
<1>b. p # NoPeer /\ p \in Peers
  BY <1>a, <1>t DEF Alternating, TickRecords, Used
<1>d. /\ \A q \in Peers : q # p => since'[q] = since[q]
      /\ append'.tick = p /\ append'.host = append.host
  BY <1>a, <1>b, <1>e, <1>t, StampFacts DEF AppendRec
<1>f. \A j \in Slots : j # i => slot[j].addr # p
  BY <1>b DEF OneSlotPerPeer, Used
<1>g. \A q \in Peers : Coming(q)' <=> Coming(q) \/ (q = p /\ tick.phase = "in")
  BY <1>a, <1>b, <1>d, <1>t DEF Coming
\* An IN: neither the last row is one, nor is one waiting.
<1>h. ASSUME tick.phase = "in"
      PROVE  /\ since'[p]["in"] = 0 /\ since'[p]["out"] = since[p]["out"]
             /\ rows[p].last # "in" /\ append.host # p /\ slot[i].present
  <2>1. /\ ~(since[p]["in"] < Debounce) /\ since'[p]["in"] = 0
        /\ since'[p]["out"] = since[p]["out"]
    BY <1>a, <1>b, <1>e, <1>h, StampFacts
  <2>2. slot[i].present /\ NoSecond(Last(p), since[p]["in"], FALSE, waits = "none")
    BY <1>a, <1>h DEF Alternating, TickRecords
  <2>3. rows[p].last # "in"
    BY <2>1, <2>2 DEF NoSecond, Last
  <2>4. ASSUME append.host = p PROVE FALSE
    <3>1. host.slot # 0 /\ host.peer = p
      BY <1>b, <1>t, <2>4 DEF Alternating, HostRecords
    <3>2. NoSecond(Last(p), since[p]["in"], TRUE, waits = "none")
      BY <1>b, <1>t, <2>4, <3>1 DEF Alternating, HostRecords
    <3> QED BY <2>1, <3>2 DEF NoSecond
  <2> QED BY <2>1, <2>2, <2>3, <2>4
\* An OUT.
<1>o. ASSUME tick.phase = "out"
      PROVE  /\ since'[p]["out"] = 0 /\ since'[p]["in"] = since[p]["in"]
             /\ slot[i].ack /\ host.slot # i
             /\ slot[i].present => slot[i].seen = 0
             /\ waits = "none" => since[p]["in"] = Debounce
  <2>1. since'[p]["out"] = 0 /\ since'[p]["in"] = since[p]["in"]
    BY <1>a, <1>b, <1>e, <1>o, StampFacts
  <2> QED BY <1>a, <1>o, <2>1 DEF Alternating, TickRecords
<1> HIDE DEF p
<1>1. waits' # "long" /\ synced' /\ http'.op = "none" /\ NoOrphanOut' /\ NoDoubleIn'
  BY <1>a DEF Alternating, NoOrphanOut, NoDoubleIn
<1>2. UnheldClosed'
  BY <1>a DEF Alternating, UnheldClosed, Last
<1>3. Stamped'
  <2> SUFFICES ASSUME waits = "none", NEW q \in Peers, rows[q].last # "in"
               PROVE  since'[q]["in"] = Debounce \/ Coming(q)'
    BY <1>a DEF Stamped, Last
  <2>1. since[q]["in"] = Debounce \/ Coming(q)
    BY DEF Alternating, Stamped, Last
  <2>2. CASE q = p
    BY <1>a, <1>g, <1>o, <2>1, <2>2
  <2>3. CASE q # p
    BY <1>d, <1>g, <2>1, <2>3
  <2> QED BY <2>2, <2>3
<1>4. SlotsKnow'
  <2> SUFFICES ASSUME NEW j \in Slots, slot[j].addr # NoPeer PROVE Knows(j)'
    BY <1>a DEF SlotsKnow, Used
  <2>1. /\ Denies(j) /\ Leaving(j) /\ Left(j) /\ Believes(j) /\ Since(j) /\ Soon(j)
        /\ slot[j].addr \in Peers
    BY <1>t DEF Alternating, SlotsKnow, Knows, Used
  <2>2. Denies(j)' /\ Leaving(j)' /\ Soon(j)'
    BY <1>a, <2>1 DEF Denies, Leaving, Soon, Last, Pending
  <2>3. Believes(j)'
    BY <1>a, <1>g, <2>1 DEF Believes, Last
  <2>4. CASE j # i
    <3>1. since'[slot[j].addr] = since[slot[j].addr]
      BY <1>d, <1>f, <2>1, <2>4
    <3>2. Left(j)' /\ Since(j)'
      BY <1>a, <2>1, <3>1 DEF Left, Since
    <3> QED BY <2>2, <2>3, <3>2 DEF Knows
  <2>5. CASE j = i
    <3>1. slot[j].addr = p
      BY <2>5 DEF p
    <3>2. CASE tick.phase = "in"
      <4>1. Left(j)'
        BY <1>a, <1>h, <2>1, <3>1, <3>2 DEF Left
      <4>2. waits = "none" => ~slot[j].ack
        BY <1>a, <1>b, <1>h, <2>1, <3>1, <3>2 DEF Believes, Last, Coming
      <4>3. Since(j)'
        BY <1>a, <4>2 DEF Since
      <4> QED BY <2>2, <2>3, <4>1, <4>3 DEF Knows
    <3>3. CASE tick.phase = "out"
      <4>1. Left(j)' /\ Since(j)'
        BY <1>a, <1>o, <2>1, <2>5, <3>1, <3>3 DEF Left, Since
      <4> QED BY <2>2, <2>3, <4>1 DEF Knows
    <3> QED BY <1>a, <3>2, <3>3
  <2> QED BY <2>4, <2>5
<1>5. TickRecords'
  <2>1. CASE tick.phase = "in"
    <3>1. NoSecond(rows'[p].last, since'[p]["in"], TRUE, waits' = "none")
      BY <1>a, <1>h, <1>t, <2>1 DEF NoSecond
    <3> QED BY <1>a, <1>b, <1>d, <1>h, <2>1, <3>1 DEF TickRecords, Used, Last, p
  <2>2. CASE tick.phase = "out"
    BY <1>a, <1>b, <1>d, <1>o, <2>2 DEF TickRecords, Used, p
  <2> QED BY <1>a, <2>1, <2>2
<1>6. HostRecords'
  <2>1. CASE host.slot = 0
    BY <1>a, <1>d, <2>1 DEF Alternating, HostRecords
  <2>2. CASE host.slot # 0
    <3> DEFINE k == host.slot
               q == host.peer
    <3>1. k \in Slots
      BY <2>2, RowTypes
    <3>2. /\ host.then # "alloc" /\ slot[k].addr = q /\ q # NoPeer /\ slot[k].present
          /\ append.host \in {NoPeer, q} /\ q \in Peers
          /\ NoSecond(Last(q), since[q]["in"], append.host # NoPeer, waits = "none")
          /\ append.host = NoPeer => slot[k].seen = 0
          /\ append.host # NoPeer => slot[k].seen <= since[q]["in"]
      BY <1>t, <2>2, <3>1 DEF Alternating, HostRecords, Used
    <3>3. /\ NoSecond(rows'[q].last, since'[q]["in"], append'.host # NoPeer, waits' = "none")
          /\ append'.host # NoPeer => slot[k].seen <= since'[q]["in"]
      <4>1. CASE q # p
        BY <1>a, <1>d, <3>2, <4>1 DEF Last
      <4>2. CASE q = p /\ tick.phase = "in"
        BY <1>a, <1>d, <1>h, <3>2, <4>2 DEF NoSecond
      <4>3. CASE q = p /\ tick.phase = "out"
        <5>1. k = i
          BY <1>f, <3>1, <3>2, <4>3
        <5> QED BY <1>o, <4>3, <5>1
      <4> QED BY <1>a, <4>1, <4>2, <4>3
    <3> QED BY <1>a, <1>d, <2>2, <3>2, <3>3 DEF HostRecords, Used, Last
  <2> QED BY <2>1, <2>2
<1> QED BY <1>1, <1>2, <1>3, <1>4, <1>5, <1>6 DEF Alternating


\* An IN that is due for p and no second one is recorded, or swallowed as a second one.
LEMMA RecordIn ==
  ASSUME Undisturbed, Typed, Alternating, NEW task \in {"host", "tick"}, NEW p \in Peers,
         RecordEvent(task, "in", p), append[task] \in {NoPeer, p},
         NoSecond(Last(p), since[p]["in"], append[task] # NoPeer, waits = "none")
  PROVE  /\ waits' = waits /\ append' = [append EXCEPT ![task] = NoPeer]
         /\ since'[p]["in"] < Debounce /\ since'[p]["out"] = since[p]["out"]
         /\ \/ /\ Last(p) # "in" /\ rows'[p].last = "in"
               /\ waits = "none" => since'[p]["in"] = 0
               /\ append[task] # NoPeer \/ ~(since[p]["in"] < Debounce)
               /\ append[task] # NoPeer => since' = since
            \/ /\ append[task] = NoPeer /\ rows' = rows /\ since' = since
               /\ since[p]["in"] < Debounce
         /\ \A q \in Peers : q # p => since'[q] = since[q] /\ rows'[q] = rows[q]
         /\ NoOrphanOut' /\ NoDoubleIn'
<1>t. /\ rows \in [Peers -> RowsRec]
      /\ \A q \in Peers : since[q]["in"] \in 0 .. Debounce /\ since[q]["out"] \in 0 .. Debounce
      /\ Debounce \in Nat /\ 0 < Debounce /\ NoPeer \notin Peers /\ append \in AppendRec
      /\ "appendfail" \notin Features
  BY RowTypes DEF Undisturbed
<1>e. "in" \in EventTypes /\ "out" \in EventTypes /\ "out" # "in"
  BY DEF EventTypes
\* The row is in the log.
<1>a. ASSUME Appended("in", p), Last(p) # "in"
      PROVE  /\ rows'[p].last = "in" /\ rows'[p].prior # "in"
             /\ \A q \in Peers : q # p => rows'[q] = rows[q]
  BY <1>a, <1>t DEF Appended, Last
<1>n. ASSUME waits' = waits, rows'[p].last = "in", rows'[p].prior # "in",
             \A q \in Peers : q # p => rows'[q] = rows[q]
      PROVE  NoOrphanOut' /\ NoDoubleIn'
  BY <1>n DEF Alternating, NoOrphanOut, NoDoubleIn
<1>1. CASE /\ append[task] # NoPeer
           /\ Appended("in", append[task])
           /\ append' = [append EXCEPT ![task] = NoPeer]
           /\ UNCHANGED <<since, waits>>
  <2>1. append[task] = p /\ Last(p) # "in" /\ since[p]["in"] < Debounce
        /\ (waits = "none" => since[p]["in"] = 0)
    BY <1>1 DEF NoSecond
  <2>2. /\ rows'[p].last = "in" /\ rows'[p].prior # "in"
        /\ \A q \in Peers : q # p => rows'[q] = rows[q]
    BY <1>1, <1>a, <2>1
  <2> QED BY <1>1, <1>n, <2>1, <2>2
<1>2. CASE /\ append[task] = NoPeer
           /\ Stamp("in", p) /\ Appended("in", p)
           /\ UNCHANGED stalls
  <2>1. /\ ~(since[p]["in"] < Debounce) /\ since'[p]["in"] = 0
        /\ since'[p]["out"] = since[p]["out"]
        /\ \A q \in Peers : q # p => since'[q] = since[q]
    BY <1>2, <1>e, StampFacts
  <2>2. Last(p) # "in"
    BY <1>2, <2>1 DEF NoSecond
  <2>3. /\ rows'[p].last = "in" /\ rows'[p].prior # "in"
        /\ \A q \in Peers : q # p => rows'[q] = rows[q]
    BY <1>2, <1>a, <2>2
  <2>4. append' = [append EXCEPT ![task] = NoPeer] /\ waits' = waits
    BY <1>2, <1>t DEF stalls, AppendRec
  <2> QED BY <1>2, <1>n, <1>t, <2>1, <2>2, <2>3, <2>4
<1>3. CASE /\ append[task] = NoPeer
           /\ p # NoPeer => Debounced("in", p)
           /\ UNCHANGED <<logVars, stalls>>
  <2>1. since[p]["in"] < Debounce /\ rows' = rows /\ since' = since /\ waits' = waits
    BY <1>3, <1>t DEF Debounced, logVars, stalls
  <2>2. append' = [append EXCEPT ![task] = NoPeer]
    BY <1>3, <1>t DEF stalls, AppendRec
  <2>3. NoOrphanOut' /\ NoDoubleIn'
    BY <2>1 DEF Alternating, NoOrphanOut, NoDoubleIn
  <2> QED BY <1>3, <2>1, <2>2, <2>3
<1> QED BY <1>1, <1>2, <1>3 DEF RecordEvent

\* A step of the tick at slot i that touches only the rows of that slot's phone: it is
\* enough to look at this slot and this phone.
LEMMA TickRows ==
  ASSUME Typed, Typed', OneSlotPerPeer, Alternating,
         NEW i \in Slots, tick.at = i, UNCHANGED <<host, http, synced, waits>>,
         append'.host = append.host, append'.tick = NoPeer,
         append.tick \in {NoPeer, slot[i].addr},
         \A j \in Slots : j # i => slot'[j] = slot[j],
         slot'[i].addr = slot[i].addr,
         \A q \in Peers : q # slot[i].addr => since'[q] = since[q] /\ rows'[q] = rows[q],
         NextSlot \/ tick'.at = i,
         slot[i].addr # NoPeer =>
           /\ Denies(i)' /\ Leaving(i)' /\ Left(i)' /\ Believes(i)' /\ Since(i)' /\ Soon(i)'
           /\ waits = "none" /\ rows'[slot[i].addr].last # "in" =>
                since'[slot[i].addr]["in"] = Debounce \/ append.host = slot[i].addr
           /\ host.slot = i =>
                /\ slot'[i].present
                /\ NoSecond(rows'[slot[i].addr].last, since'[slot[i].addr]["in"],
                            append.host # NoPeer, waits = "none")
                /\ append.host = NoPeer => slot'[i].seen = 0
                /\ append.host # NoPeer => slot'[i].seen <= since'[slot[i].addr]["in"],
         NoOrphanOut', NoDoubleIn', TickRecords'
  PROVE  Alternating'
<1>t. /\ \A j \in Slots : /\ slot[j].ack \in BOOLEAN /\ slot[j].present \in BOOLEAN
                          /\ slot[j].addr \in Peers \cup {NoPeer}
      /\ tick.at \in 0 .. MaxSlots /\ host.slot \in 0 .. MaxSlots
      /\ MaxSlots \in Nat /\ NoPeer \notin Peers
  BY RowTypes
<1>d. \A j \in Slots : slot[j].addr # NoPeer /\ j # i => slot[j].addr # slot[i].addr
  BY DEF OneSlotPerPeer, Used
\* Of another phone, no row comes or goes.
<1>g. \A q \in Peers : q # slot[i].addr => (Coming(q)' <=> Coming(q))
  BY <1>t DEF Coming
<1>1. waits' # "long" /\ synced' /\ http'.op = "none"
  BY DEF Alternating
<1>2. UnheldClosed'
  <2> SUFFICES ASSUME NEW p \in Peers, \A j \in Slots : slot'[j].addr # p
               PROVE  rows'[p].last # "in"
    BY DEF UnheldClosed, Last
  <2>1. \A j \in Slots : slot[j].addr # p
    OBVIOUS
  <2> QED BY <2>1 DEF Alternating, UnheldClosed, Last
<1>3. Stamped'
  <2> SUFFICES ASSUME waits = "none", NEW p \in Peers, rows'[p].last # "in"
               PROVE  since'[p]["in"] = Debounce \/ Coming(p)'
    BY DEF Stamped, Last
  <2>1. CASE p = slot[i].addr
    BY <1>t, <2>1 DEF Coming
  <2>2. CASE p # slot[i].addr
    BY <1>g, <2>2 DEF Alternating, Stamped, Last
  <2> QED BY <2>1, <2>2
<1>4. SlotsKnow'
  <2> SUFFICES ASSUME NEW j \in Slots, slot'[j].addr # NoPeer
               PROVE  Knows(j)'
    BY DEF SlotsKnow, Used
  <2>1. CASE j = i
    BY <2>1 DEF Knows
  <2>2. CASE j # i
    <3>1. /\ slot'[j] = slot[j] /\ slot[j].addr \in Peers /\ slot[j].addr # slot[i].addr
          /\ Denies(j) /\ Leaving(j) /\ Left(j) /\ Believes(j) /\ Since(j) /\ Soon(j)
      BY <1>d, <1>t, <2>2 DEF Alternating, SlotsKnow, Knows, Used
    <3>2. /\ since'[slot[j].addr] = since[slot[j].addr]
          /\ rows'[slot[j].addr] = rows[slot[j].addr]
      BY <3>1
    <3>3. Denies(j)' /\ Since(j)' /\ Left(j)'
      BY <3>1, <3>2 DEF Denies, Since, Left, Last
    <3>4. Believes(j)'
      BY <1>g, <3>1, <3>2 DEF Believes, Last
    <3>5. Leaving(j)'
      BY <2>2, <3>1 DEF Leaving
    <3>6. Pending(j)' = Pending(j)
      <4>1. i \in Nat /\ j \in Nat /\ i > 0 /\ i <= MaxSlots /\ j <= MaxSlots
        BY <1>t DEF Slots
      <4>2. CASE tick'.at = i
        BY <2>2, <4>1, <4>2 DEF Pending
      <4>3. CASE NextSlot
        <5>1. tick'.phase = "eval" /\ ((tick'.at = 0 /\ i = MaxSlots) \/ tick'.at = i + 1)
          BY <4>3, NextSlotType DEF Typed
        <5> QED BY <1>t, <2>2, <4>1, <5>1 DEF Pending
      <4> QED BY <4>2, <4>3
    <3>7. Soon(j)'
      BY <3>1, <3>6 DEF Soon
    <3> QED BY <3>3, <3>4, <3>5, <3>7 DEF Knows
  <2> QED BY <2>1, <2>2
<1>5. HostRecords'
  <2>1. CASE host.slot = 0
    BY <2>1 DEF Alternating, HostRecords
  <2>2. CASE host.slot # 0
    <3> DEFINE k == host.slot
               q == host.peer
    <3>1. /\ k \in Slots
          /\ host.then # "alloc" /\ slot[k].addr = q /\ q # NoPeer /\ slot[k].present
          /\ append.host \in {NoPeer, q} /\ q \in Peers
          /\ NoSecond(Last(q), since[q]["in"], append.host # NoPeer, waits = "none")
          /\ append.host = NoPeer => slot[k].seen = 0
          /\ append.host # NoPeer => slot[k].seen <= since[q]["in"]
      BY <2>2, RowTypes DEF Alternating, HostRecords, Used
    <3>2. /\ slot'[k].addr = q /\ slot'[k].present
          /\ NoSecond(rows'[q].last, since'[q]["in"], append'.host # NoPeer, waits' = "none")
          /\ append'.host = NoPeer => slot'[k].seen = 0
          /\ append'.host # NoPeer => slot'[k].seen <= since'[q]["in"]
      <4>1. CASE k = i
        BY <3>1, <4>1
      <4>2. CASE k # i
        <5>1. q # slot[i].addr
          BY <1>d, <3>1, <4>2
        <5> QED BY <3>1, <4>2, <5>1 DEF Last
      <4> QED BY <4>1, <4>2
    <3> QED BY <2>2, <3>1, <3>2 DEF HostRecords, Used, Last
  <2> QED BY <2>1, <2>2
<1> QED BY <1>1, <1>2, <1>3, <1>4, <1>5 DEF Alternating

\* The rest of an iteration of the tick, once a present phone's IN is recorded: the slot
\* keeps what it tells about the rows, or an OUT is due.
LEMMA RestRows ==
  ASSUME TypeOK, synced, NEW i \in Slots, NEW s \in SlotRec, tick.at = i, TickRest(i, s),
         s.present => s.ack
  PROVE  /\ \A j \in Slots : j # i => slot'[j] = slot[j]
         /\ slot'[i].addr = s.addr /\ slot'[i].ack = s.ack /\ slot'[i].seen = s.seen
         /\ \/ slot'[i].present = s.present /\ NextSlot
            \/ /\ ~s.connected /\ OutDue(s) /\ s.ack
               /\ ~slot'[i].present /\ tick' = [at |-> i, phase |-> "out"]
<1>1. slot \in [Slots -> SlotRec]
  BY DEF TypeOK
<1>2. ASSUME ProbeStart(i, s)
      PROVE  /\ \A j \in Slots : j # i => slot'[j] = slot[j]
             /\ slot'[i].addr = s.addr /\ slot'[i].ack = s.ack /\ slot'[i].seen = s.seen
             /\ slot'[i].present = s.present
  <2> DEFINE Stored(t) == slot' = [slot EXCEPT ![i] = t]
  <2>1. \/ Stored(s)
        \/ Stored([s EXCEPT !.probed = 0])
        \/ Stored([s EXCEPT !.handle = NoHandle, !.probed = 0])
        \/ Stored([s EXCEPT !.handle = NoHandle, !.probing = TRUE])
    BY <1>2 DEF ProbeStart
  <2>2. PICK t : Stored(t) /\ SameRow(t, s)
    <3>1. /\ SameRow([s EXCEPT !.probed = 0], s)
          /\ SameRow([s EXCEPT !.handle = NoHandle, !.probed = 0], s)
          /\ SameRow([s EXCEPT !.handle = NoHandle, !.probing = TRUE], s)
          /\ SameRow(s, s)
      BY DEF SameRow, SlotRec
    <3> QED BY <2>1, <3>1
  <2> QED BY <1>1, <2>2 DEF SameRow
<1>3. CASE /\ ~s.connected /\ OutDue(s) /\ OutRecorded(s)
           /\ slot' = [slot EXCEPT ![i] = [s EXCEPT !.present = FALSE]]
           /\ tick' = [at |-> i, phase |-> "out"]
  BY <1>1, <1>3 DEF SlotRec, OutRecorded
<1>4. ~(OutDue(s) /\ ~OutRecorded(s))
  BY DEF OutDue, OutRecorded
<1>5. CASE slot' = [slot EXCEPT ![i] = s] /\ NextSlot
  BY <1>1, <1>5
<1> QED BY <1>2, <1>3, <1>4, <1>5 DEF TickRest

\* The tick at a slot, up to the recording of a row.
LEMMA EvalRows ==
  ASSUME Typed, Typed', OneSlotPerPeer, Alternating, NEW i \in Slots, TickEval(i)
  PROVE  Alternating'
<1> DEFINE s == Refreshed(slot[i])
           p == slot[i].addr
<1>t. /\ slot \in [Slots -> SlotRec] /\ slot[i] \in SlotRec /\ TypeOK
      /\ \A j \in Slots : slot[j].addr \in Peers \cup {NoPeer} /\ slot[j].seen \in Nat
      /\ Debounce \in Nat /\ timeout \in Nat /\ Debounce <= timeout
      /\ \A q \in Peers : since[q]["in"] \in 0 .. Debounce /\ since[q]["out"] \in 0 .. Debounce
      /\ i # 0 /\ NoPeer \notin Peers
  BY RowTypes
<1>a. /\ tick.at = i /\ tick.phase = "eval" /\ synced
      /\ UNCHANGED <<host, http, synced, since, rows, append, waits>>
      /\ append.tick = NoPeer
  BY DEF TickEval, Alternating, TickRecords, stalls
<1>n. NoOrphanOut' /\ NoDoubleIn'
  BY <1>a DEF Alternating, NoOrphanOut, NoDoubleIn
<1>d. p # NoPeer =>
        /\ p \in Peers
        /\ Denies(i) /\ Leaving(i) /\ Left(i) /\ Believes(i) /\ Since(i) /\ Soon(i)
        /\ waits = "none" /\ rows[p].last # "in" =>
             since[p]["in"] = Debounce \/ append.host = p
  BY <1>a, <1>t DEF Alternating, SlotsKnow, Knows, Used, Stamped, Last, Coming
<1>h. host.slot = i => /\ slot[i].present
                       /\ NoSecond(rows[p].last, since[p]["in"], append.host # NoPeer, waits = "none")
                       /\ append.host = NoPeer => slot[i].seen = 0
                       /\ append.host # NoPeer => slot[i].seen <= since[p]["in"]
  BY <1>t DEF Alternating, HostRecords, Last
\* A link sets the age to zero and makes the slot present; an absent slot has no IN to forget.
<1>s. p # NoPeer =>
        /\ s \in SlotRec /\ s.addr = p /\ s.ack = slot[i].ack
        /\ s.seen = 0 \/ (s.seen = slot[i].seen /\ s.present = slot[i].present)
        /\ slot[i].present => s.present
        /\ ~s.connected => s = slot[i]
  <2> SUFFICES ASSUME p # NoPeer
               PROVE  /\ s.ack = slot[i].ack
                      /\ s.seen = 0 \/ (s.seen = slot[i].seen /\ s.present = slot[i].present)
                      /\ slot[i].present => s.present
    BY <1>t, RefreshedFacts
  <2>1. CASE ~slot[i].connected
    BY <2>1 DEF Refreshed
  <2>2. CASE slot[i].connected
    <3>1. ~slot[i].present => ~slot[i].ack
      BY <1>a, <1>d DEF Leaving
    <3>2. s = [slot[i] EXCEPT !.seen = 0, !.present = TRUE,
                 !.ack = IF slot[i].present THEN slot[i].ack ELSE FALSE]
      BY <2>2 DEF Refreshed
    <3>3. s.seen = 0 /\ s.present
          /\ s.ack = IF slot[i].present THEN slot[i].ack ELSE FALSE
      BY <1>t, <3>2 DEF SlotRec
    <3>4. slot[i].ack \in BOOLEAN
      BY <1>t DEF SlotRec
    <3> QED BY <3>1, <3>3, <3>4
  <2> QED BY <2>1, <2>2
<1> HIDE DEF s
\* The slot holds s afterwards, as far as the rows go, and there is nothing to record next.
<1>e. ASSUME \A j \in Slots : j # i => slot'[j] = slot[j],
             p # NoPeer, slot'[i].addr = s.addr, slot'[i].ack = s.ack,
             slot'[i].seen = s.seen,
             \/ /\ slot'[i].present = s.present
                /\ s.present => s.ack
                /\ NextSlot
             \/ /\ slot'[i].present = s.present
                /\ ~s.ack
                /\ tick'.at = i /\ tick'.phase = "in" /\ slot'[i].present
             \/ /\ ~s.connected /\ OutDue(s) /\ s.ack
                /\ ~slot'[i].present /\ tick' = [at |-> i, phase |-> "out"]
      PROVE  Alternating'
  <2>1. p \in Peers /\ slot'[i].addr = p /\ slot'[i].ack = slot[i].ack
    BY <1>d, <1>e, <1>s
  <2>2. Denies(i)' /\ Believes(i)'
    BY <1>a, <1>d, <1>e, <1>t, <2>1 DEF Denies, Believes, Last, Coming
  <2>3. Since(i)' /\ Left(i)'
    <3>1. slot'[i].seen = 0 \/ slot'[i].seen = slot[i].seen
      BY <1>e, <1>s
    <3>2. Since(i)'
      BY <1>a, <1>d, <1>e, <1>t, <2>1, <3>1 DEF Since
    <3>3. slot'[i].present => slot'[i].seen = 0 \/ (slot'[i].seen = slot[i].seen /\ slot[i].present)
      BY <1>e, <1>s
    <3>4. Left(i)'
      BY <1>a, <1>d, <1>e, <1>t, <2>1, <3>3 DEF Left
    <3> QED BY <3>2, <3>4
  <2>4. NextSlot => tick'.phase = "eval"
    BY <1>a, <1>t, NextSlotType
  <2>5. slot[i].ack => slot[i].present
    BY <1>a, <1>d, <1>e DEF Leaving
  <2>6. CASE slot'[i].present = s.present /\ (s.present => s.ack) /\ NextSlot
    <3>1. TickRecords'
      BY <1>a, <2>4, <2>6 DEF TickRecords
    <3>2. Soon(i)' /\ Leaving(i)'
      BY <1>e, <1>s, <2>1, <2>5, <2>6 DEF Soon, Leaving
    <3>3. host.slot = i => slot'[i].present /\ slot'[i].seen \in {0, slot[i].seen}
      BY <1>e, <1>h, <1>s, <2>6
    <3> QED BY <1>a, <1>d, <1>e, <1>h, <1>n, <1>t, <2>1, <2>2, <2>3, <2>6, <3>1, <3>2, <3>3, TickRows
  <2>7. CASE /\ slot'[i].present = s.present /\ ~s.ack
             /\ tick'.at = i /\ tick'.phase = "in" /\ slot'[i].present
    <3>0. rows[p].last # "in"
      BY <1>d, <1>e, <1>s, <2>7 DEF Denies, Last
    <3>1. TickRecords'
      BY <1>a, <1>e, <2>1, <2>7, <3>0 DEF TickRecords, Used, Last, NoSecond
    <3>2. Leaving(i)'
      BY <1>e, <2>7 DEF Leaving
    <3>3. Soon(i)'
      <4>1. Pending(i)' /\ Pending(i)
        BY <1>a, <1>t, <2>7 DEF Pending
      <4>2. waits = "none" => slot'[i].seen <= 1
        BY <1>d, <1>e, <1>s, <1>t, <2>7, <4>1 DEF Soon
      <4> QED BY <1>a, <4>1, <4>2 DEF Soon
    <3>4. host.slot = i => slot'[i].present /\ slot'[i].seen \in {0, slot[i].seen}
      BY <1>e, <1>h, <1>s, <2>7
    <3> QED BY <1>a, <1>d, <1>e, <1>h, <1>n, <1>t, <2>1, <2>2, <2>3, <2>7, <3>1, <3>2, <3>3, <3>4,
               TickRows
  <2>8. CASE /\ ~s.connected /\ OutDue(s) /\ s.ack
             /\ ~slot'[i].present /\ tick' = [at |-> i, phase |-> "out"]
    <3>0. tick'.at = i /\ tick'.phase = "out"
      BY <2>8
    <3>1. s = slot[i] /\ slot[i].seen > timeout /\ slot[i].present
      BY <1>e, <1>s, <2>8 DEF OutDue
    <3>2. waits = "none" => since[p]["in"] = Debounce
      BY <1>d, <1>e, <1>t, <2>1, <2>8, <3>1 DEF Since
    <3>3. since[p]["out"] = Debounce
      BY <1>d, <1>e, <1>t, <2>1, <3>1 DEF Left
    <3>4. host.slot # i
      <4> SUFFICES ASSUME host.slot = i PROVE FALSE
        OBVIOUS
      <4>1. append.host # NoPeer => since[p]["in"] < Debounce
        BY <1>h DEF NoSecond
      <4>2. since[p]["in"] \in Nat /\ slot[i].seen \in Nat
        BY <1>t, <2>1
      <4> QED BY <1>h, <1>t, <3>1, <4>1, <4>2
    <3>5. TickRecords'
      BY <1>a, <1>e, <2>1, <2>8, <3>0, <3>2, <3>3, <3>4 DEF TickRecords, Used
    <3>6. Soon(i)' /\ Leaving(i)'
      BY <2>8, <3>0 DEF Soon, Leaving
    <3> QED BY <1>a, <1>d, <1>e, <1>n, <2>1, <2>2, <2>3, <3>0, <3>4, <3>5, <3>6, TickRows
  <2> QED BY <1>e, <2>6, <2>7, <2>8
<1>1. CASE ~Used(i) /\ NextSlot /\ UNCHANGED slot
  <2>1. tick'.phase = "eval"
    BY <1>1, <1>a, <1>t, NextSlotType
  <2>2. TickRecords'
    BY <1>a, <2>1 DEF TickRecords
  <2> QED BY <1>1, <1>a, <1>n, <2>2, TickRows DEF Used
<1>2. CASE /\ Used(i) /\ s.present /\ ~s.ack
           /\ slot' = [slot EXCEPT ![i] = s]
           /\ tick' = [tick EXCEPT !.phase = "in"]
  <2>1. tick'.at = i /\ tick'.phase = "in"
    BY <1>2, <1>a, <1>t DEF TypeOK, TickRec
  <2>2. slot'[i] = s /\ \A j \in Slots : j # i => slot'[j] = slot[j]
    BY <1>2, <1>t
  <2> QED BY <1>2, <1>e, <2>1, <2>2 DEF Used
<1>3. CASE Used(i) /\ ~(s.present /\ ~s.ack /\ synced) /\ TickRest(i, s)
  <2>1. s \in SlotRec /\ (s.present => s.ack)
    BY <1>3, <1>a, <1>s DEF Used, SlotRec
  <2> QED BY <1>3, <1>a, <1>e, <1>t, <2>1, RestRows DEF Used
<1> QED BY <1>1, <1>2, <1>3 DEF TickEval, s

\* The tick's catch-up IN.  An OUT is due in the same iteration only if a row had to wait.
LEMMA InRows ==
  ASSUME Typed, Typed', OneSlotPerPeer, Undisturbed, Alternating, NEW i \in Slots, TickIn(i)
  PROVE  Alternating'
<1> DEFINE p == slot[i].addr
           s == [slot[i] EXCEPT !.ack = TRUE]
<1>a. /\ tick.at = i /\ tick.phase = "in" /\ synced
      /\ UNCHANGED <<host, http, synced>>
      /\ RecordEvent("tick", "in", p) /\ TickRest(i, s)
  BY DEF TickIn, Alternating
<1>b. /\ p # NoPeer /\ slot[i].present /\ append.tick \in {NoPeer, p}
      /\ NoSecond(Last(p), since[p]["in"], append.tick # NoPeer, waits = "none")
      /\ append.tick # NoPeer => append.host # p
  BY <1>a DEF Alternating, TickRecords, Used
<1>t. /\ TypeOK /\ slot[i] \in SlotRec /\ slot[i].seen \in Nat
      /\ p \in Peers /\ timeout \in Nat /\ Debounce <= timeout /\ Debounce \in Nat /\ 0 < Debounce
      /\ since[p]["in"] \in 0 .. Debounce /\ since[p]["out"] \in 0 .. Debounce
      /\ append \in AppendRec /\ append.host \in Peers \cup {NoPeer}
      /\ i # 0 /\ NoPeer \notin Peers
  BY <1>b, RowTypes DEF Undisturbed
<1>k. Left(i) /\ Believes(i) /\ Since(i) /\ Soon(i)
  BY <1>b DEF Alternating, SlotsKnow, Knows, Used
\* The other task's IN of the same phone.
<1>h. /\ append.host = p => since[p]["in"] < Debounce
      /\ host.slot = i =>
           /\ NoSecond(Last(p), since[p]["in"], append.host # NoPeer, waits = "none")
           /\ append.host \in {NoPeer, p}
           /\ append.host = NoPeer => slot[i].seen = 0
           /\ append.host # NoPeer => slot[i].seen <= since[p]["in"]
  <2>1. ASSUME append.host = p PROVE since[p]["in"] < Debounce
    <3>1. host.slot # 0 /\ append.host # NoPeer
      BY <1>b, <2>1 DEF Alternating, HostRecords
    <3>2. host.peer = p /\ NoSecond(Last(host.peer), since[host.peer]["in"], TRUE, waits = "none")
      BY <2>1, <3>1 DEF Alternating, HostRecords
    <3> QED BY <3>2 DEF NoSecond
  <2> QED BY <1>t, <2>1 DEF Alternating, HostRecords
<1>r. /\ waits' = waits /\ append' = [append EXCEPT !["tick"] = NoPeer]
      /\ since'[p]["in"] < Debounce /\ since'[p]["out"] = since[p]["out"]
      /\ \/ /\ Last(p) # "in" /\ rows'[p].last = "in"
            /\ waits = "none" => since'[p]["in"] = 0
            /\ append.tick # NoPeer \/ ~(since[p]["in"] < Debounce)
            /\ append.tick # NoPeer => since' = since
         \/ /\ append.tick = NoPeer /\ rows' = rows /\ since' = since
            /\ since[p]["in"] < Debounce
      /\ \A q \in Peers : q # p => since'[q] = since[q] /\ rows'[q] = rows[q]
      /\ NoOrphanOut' /\ NoDoubleIn'
  BY <1>a, <1>b, <1>t, RecordIn
<1>w. append'.host = append.host /\ append'.tick = NoPeer
  BY <1>r, <1>t DEF AppendRec
<1>s. /\ s \in SlotRec /\ s.addr = p /\ s.ack /\ s.seen = slot[i].seen
      /\ s.present
  BY <1>b, <1>t DEF SlotRec
<1> HIDE DEF s
<1>e. /\ \A j \in Slots : j # i => slot'[j] = slot[j]
      /\ slot'[i].addr = p /\ slot'[i].ack /\ slot'[i].seen = slot[i].seen
      /\ \/ slot'[i].present /\ NextSlot
         \/ /\ slot[i].seen > timeout /\ ~slot'[i].present
            /\ tick' = [at |-> i, phase |-> "out"]
  BY <1>a, <1>s, <1>t, RestRows DEF OutDue
\* A swallowed IN is that of the last row, or one of the host task.
<1>c. waits = "none" => rows'[p].last = "in" \/ append.host = p
  <2>1. waits = "none" => Last(p) = "in" \/ since[p]["in"] = Debounce \/ Coming(p)
    BY <1>t DEF Alternating, Stamped
  <2> QED BY <1>b, <1>r, <1>t, <2>1 DEF Coming, Last
<1>g. waits = "none" => slot[i].seen <= since'[p]["in"] + 1
  <2> SUFFICES ASSUME waits = "none" PROVE slot[i].seen <= since'[p]["in"] + 1
    OBVIOUS
  <2>1. CASE ~slot[i].ack
    <3>1. Pending(i)
      BY <1>a, <1>t DEF Pending
    <3>2. slot[i].seen <= 1
      BY <1>b, <1>k, <2>1, <3>1 DEF Soon
    <3>3. since'[p]["in"] \in Nat
      BY <1>r, <1>t
    <3> QED BY <1>t, <3>2, <3>3
  <2>2. CASE slot[i].ack /\ rows' = rows /\ since' = since
    <3>1. since[p]["in"] # Debounce
      BY <1>r, <1>t, <2>2
    <3> QED BY <1>k, <1>t, <2>2, <3>1 DEF Since
  <2>3. CASE slot[i].ack /\ Last(p) # "in"
             /\ (append.tick # NoPeer \/ ~(since[p]["in"] < Debounce))
             /\ (append.tick # NoPeer => since' = since)
    <3>1. append.tick = p \/ append.host = p
      BY <1>k, <2>3 DEF Believes, Coming
    <3>2. append.tick # NoPeer
      BY <1>h, <1>t, <2>3, <3>1
    <3>3. since[p]["in"] = 0 /\ since' = since
      BY <1>b, <2>3, <3>2 DEF NoSecond
    <3> QED BY <1>k, <1>t, <2>3, <3>3 DEF Since
  <2> QED BY <1>r, <2>1, <2>2, <2>3
<1>1. Denies(i)' /\ Leaving(i)' /\ Left(i)' /\ Believes(i)' /\ Since(i)' /\ Soon(i)'
  <2>1. Denies(i)' /\ Soon(i)' /\ Leaving(i)'
    BY <1>e DEF Denies, Soon, Leaving
  <2>2. Left(i)'
    BY <1>b, <1>e, <1>k, <1>r DEF Left
  <2>3. Believes(i)'
    BY <1>c, <1>e, <1>r, <1>w DEF Believes, Coming, Last
  <2>4. Since(i)'
    BY <1>e, <1>g, <1>r DEF Since
  <2> QED BY <2>1, <2>2, <2>3, <2>4
<1>2. slot[i].seen > timeout => host.slot # i /\ since[p]["out"] = Debounce
  <2>1. ASSUME slot[i].seen > timeout, host.slot = i PROVE FALSE
    <3>1. append.host # NoPeer => since[p]["in"] < Debounce
      BY <1>h, <2>1 DEF NoSecond
    <3> QED BY <1>h, <1>t, <2>1, <3>1
  <2> QED BY <1>b, <1>k, <1>t, <2>1 DEF Left
<1>3. TickRecords'
  <2>1. CASE NextSlot
    <3>1. tick'.phase = "eval"
      BY <1>a, <1>t, <2>1, NextSlotType
    <3> QED BY <1>w, <3>1 DEF TickRecords
  <2>2. CASE /\ slot[i].seen > timeout /\ ~slot'[i].present
             /\ tick' = [at |-> i, phase |-> "out"]
    <3>1. tick'.at = i /\ tick'.phase = "out"
      BY <2>2
    <3>2. waits = "none" => since'[p]["in"] = Debounce
      <4>1. since'[p]["in"] \in Nat
        BY <1>t DEF Typed, TypeOK, EventTypes
      <4> QED BY <1>g, <1>r, <1>t, <2>2, <4>1
    <3> QED BY <1>a, <1>b, <1>e, <1>r, <1>w, <1>2, <2>2, <3>1, <3>2 DEF TickRecords, Used
  <2> QED BY <1>e, <2>1, <2>2
<1>4. host.slot = i =>
        /\ slot'[i].present
        /\ NoSecond(rows'[p].last, since'[p]["in"], append.host # NoPeer, waits = "none")
        /\ append.host = NoPeer => slot'[i].seen = 0
        /\ append.host # NoPeer => slot'[i].seen <= since'[p]["in"]
  <2> SUFFICES ASSUME host.slot = i
               PROVE  /\ slot'[i].present
                      /\ NoSecond(rows'[p].last, since'[p]["in"], append.host # NoPeer, waits = "none")
                      /\ append.host = NoPeer => slot'[i].seen = 0
                      /\ append.host # NoPeer => slot'[i].seen <= since'[p]["in"]
    OBVIOUS
  <2>1. slot'[i].present
    BY <1>e, <1>2
  <2>2. CASE append.host = NoPeer
    BY <1>e, <1>h, <1>r, <2>1, <2>2 DEF NoSecond
  <2>3. CASE append.host = p
    <3>1. append.tick = NoPeer /\ since[p]["in"] < Debounce
      BY <1>b, <1>h, <2>3
    <3>2. rows' = rows /\ since' = since
      BY <1>r, <3>1
    <3> QED BY <1>b, <1>e, <1>h, <2>1, <2>3, <3>2 DEF Last
  <2> QED BY <1>h, <2>2, <2>3
<1>5. tick'.at = i \/ NextSlot
  BY <1>e
<1> QED BY <1>a, <1>b, <1>c, <1>e, <1>r, <1>w, <1>1, <1>3, <1>4, <1>5, TickRows

\* The OUT.  The debounce never swallows it, for the last one is older than the visit.
LEMMA OutRows ==
  ASSUME Typed, Typed', OneSlotPerPeer, Undisturbed, Alternating, NEW i \in Slots, TickOut(i)
  PROVE  Alternating'
<1> DEFINE p == slot[i].addr
<1>a. /\ tick.at = i /\ tick.phase = "out"
      /\ UNCHANGED <<host, http, synced>>
      /\ RecordEvent("tick", "out", p) /\ NextSlot
      /\ slot' = [slot EXCEPT ![i].ack = FALSE]
  BY DEF TickOut
<1>b. /\ p # NoPeer /\ slot[i].ack /\ host.slot # i /\ append.tick \in {NoPeer, p}
      /\ append.tick = NoPeer => since[p]["out"] = Debounce
      /\ append.tick = NoPeer \/ waits = "none" => (slot[i].present => slot[i].seen = 0)
      /\ waits = "none" => since[p]["in"] = Debounce
  BY <1>a DEF Alternating, TickRecords, Used
<1>t. /\ rows \in [Peers -> RowsRec]
      /\ p \in Peers
      /\ since[p]["in"] \in 0 .. Debounce /\ since[p]["out"] \in 0 .. Debounce
      /\ Debounce \in Nat /\ append \in AppendRec
      /\ "appendfail" \notin Features
      /\ slot \in [Slots -> SlotRec] /\ slot[i] \in SlotRec
  BY <1>b, RowTypes DEF Undisturbed
<1>x. "in" \in EventTypes /\ "out" \in EventTypes /\ "out" # "in"
  BY DEF EventTypes
<1>k. Left(i) /\ Believes(i)
  BY <1>b DEF Alternating, SlotsKnow, Knows, Used
\* The IN before it is in the log, and not still to come from the host task.
<1>c. waits = "none" => rows[p].last = "in"
  <2>1. append.host # p
    <3> SUFFICES ASSUME append.host = p PROVE FALSE
      OBVIOUS
    <3>1. host.slot # 0 /\ host.slot \in Slots
      BY <1>b, RowTypes DEF Alternating, HostRecords
    <3>2. slot[host.slot].addr = p
      BY <1>b, <3>1 DEF Alternating, HostRecords
    <3> QED BY <1>b, <3>1, <3>2 DEF OneSlotPerPeer, Used
  <2> QED BY <1>a, <1>b, <1>k, <2>1 DEF Believes, Last, Coming
<1>d. ASSUME Appended("out", p)
      PROVE  /\ rows'[p].last = "out" /\ rows'[p].prior = rows[p].last
             /\ \A q \in Peers : q # p => rows'[q] = rows[q]
  BY <1>d, <1>t DEF Appended
<1>r. /\ waits' = waits /\ append'.host = append.host /\ append'.tick = NoPeer
      /\ rows'[p].last = "out" /\ rows'[p].prior = rows[p].last
      /\ since'[p]["in"] = since[p]["in"]
      /\ append.tick = NoPeer \/ since' = since
      /\ since'[p]["out"] \in Nat
      /\ \A q \in Peers : q # p => since'[q] = since[q] /\ rows'[q] = rows[q]
  <2>1. CASE /\ append["tick"] # NoPeer
             /\ Appended("out", append["tick"])
             /\ append' = [append EXCEPT !["tick"] = NoPeer]
             /\ UNCHANGED <<since, waits>>
    <3>1. append.tick = p
      BY <1>b, <2>1
    <3> QED BY <1>d, <1>t, <2>1, <3>1 DEF AppendRec
  <2>2. CASE /\ append["tick"] = NoPeer
             /\ Stamp("out", p) /\ Appended("out", p)
             /\ UNCHANGED stalls
    <3>1. /\ since'[p]["out"] = 0 /\ since'[p]["in"] = since[p]["in"]
          /\ \A q \in Peers : q # p => since'[q] = since[q]
      BY <1>t, <1>x, <2>2, StampFacts
    <3> QED BY <1>d, <2>2, <3>1 DEF stalls
  <2>3. ~(append["tick"] = NoPeer /\ Debounced("out", p))
    BY <1>b, <1>t DEF Debounced
  <2> QED BY <1>a, <1>b, <2>1, <2>2, <2>3 DEF RecordEvent
<1>g. /\ \A j \in Slots : j # i => slot'[j] = slot[j]
      /\ slot'[i].addr = p /\ ~slot'[i].ack /\ slot'[i].seen = slot[i].seen
      /\ slot'[i].present = slot[i].present
  BY <1>a, <1>t DEF SlotRec
<1>1. NoOrphanOut' /\ NoDoubleIn'
  BY <1>c, <1>r DEF Alternating, NoOrphanOut, NoDoubleIn
<1>2. Denies(i)' /\ Leaving(i)' /\ Left(i)' /\ Believes(i)' /\ Since(i)' /\ Soon(i)'
  <2>1. Denies(i)' /\ Leaving(i)' /\ Believes(i)' /\ Since(i)'
    BY <1>g, <1>r DEF Denies, Leaving, Believes, Since, Last
  <2>2. Soon(i)'
    BY <1>b, <1>g, <1>r DEF Soon
  <2>3. Left(i)'
    BY <1>b, <1>g, <1>k, <1>r DEF Left
  <2> QED BY <2>1, <2>2, <2>3
<1>3. TickRecords'
  <2>1. tick'.phase = "eval"
    BY <1>a, NextSlotType DEF Typed
  <2> QED BY <1>r, <2>1 DEF TickRecords
<1>4. waits = "none" => since'[p]["in"] = Debounce
  BY <1>b, <1>r
<1> QED BY <1>a, <1>b, <1>g, <1>r, <1>1, <1>2, <1>3, <1>4, TickRows

\* The IN that the host task was blocked in.  The tick may have recorded it meanwhile.
LEMMA HostRows ==
  ASSUME Typed, Typed', OneSlotPerPeer, Undisturbed, Alternating, HostRecord
  PROVE  Alternating'
<1> DEFINE i == host.slot
           p == host.peer
           f == [slot EXCEPT ![i].ack = TRUE]
<1>t. /\ i \in Slots /\ i # 0 /\ slot \in [Slots -> SlotRec]
      /\ \A j \in Slots : /\ slot[j] \in SlotRec /\ slot[j].addr \in Peers \cup {NoPeer}
      /\ Debounce \in Nat /\ NoPeer \notin Peers /\ append \in AppendRec
      /\ append.tick \in Peers \cup {NoPeer} /\ tick.phase \in {"eval", "in", "out"}
      /\ \A q \in Peers : since[q]["in"] \in 0 .. Debounce /\ since[q]["out"] \in 0 .. Debounce
  BY RowTypes DEF HostRecord
<1>b. /\ slot[i].addr = p /\ p # NoPeer /\ p \in Peers /\ slot[i].present
      /\ append.host \in {NoPeer, p}
      /\ NoSecond(Last(p), since[p]["in"], append.host # NoPeer, waits = "none")
      /\ append.host = NoPeer => slot[i].seen = 0
      /\ append.host # NoPeer => slot[i].seen <= since[p]["in"]
      /\ HostPeer = p
  BY <1>t DEF Alternating, HostRecords, Used, HostPeer
<1>a. /\ RecordEvent("host", "in", p)
      /\ slot' = f \/ slot' = MarkConnected(f, p)
      /\ host'.slot = 0 /\ UNCHANGED <<tick, http, synced>>
  BY <1>b DEF HostRecord, AfterSeen, HostIdle
<1>r. /\ waits' = waits /\ append' = [append EXCEPT !["host"] = NoPeer]
      /\ since'[p]["in"] < Debounce /\ since'[p]["out"] = since[p]["out"]
      /\ \/ /\ Last(p) # "in" /\ rows'[p].last = "in"
            /\ waits = "none" => since'[p]["in"] = 0
            /\ append.host # NoPeer \/ ~(since[p]["in"] < Debounce)
            /\ append.host # NoPeer => since' = since
         \/ /\ append.host = NoPeer /\ rows' = rows /\ since' = since
            /\ since[p]["in"] < Debounce
      /\ \A q \in Peers : q # p => since'[q] = since[q] /\ rows'[q] = rows[q]
      /\ NoOrphanOut' /\ NoDoubleIn'
  BY <1>a, <1>b, RecordIn
<1>w. append'.host = NoPeer /\ append'.tick = append.tick
  BY <1>r, <1>t DEF AppendRec
<1>f. /\ f[i].addr = p /\ f[i].ack /\ f[i].present /\ f[i].seen = slot[i].seen
      /\ \A j \in Slots : j # i => f[j] = slot[j]
      /\ \A j \in Slots : f[j] \in SlotRec
  <2>1. f = [j \in Slots |-> IF j = i THEN [slot[i] EXCEPT !.ack = TRUE] ELSE slot[j]]
    BY <1>t, Zenon
  <2>2. ASSUME NEW s \in SlotRec
        PROVE  LET r == [s EXCEPT !.ack = TRUE] IN
               r \in SlotRec /\ r.ack /\ r.addr = s.addr /\ r.present = s.present /\ r.seen = s.seen
    BY DEF SlotRec
  <2> DEFINE r == [slot[i] EXCEPT !.ack = TRUE]
  <2>3. /\ r \in SlotRec /\ r.ack /\ r.addr = slot[i].addr /\ r.present = slot[i].present
        /\ r.seen = slot[i].seen
    BY <1>t, <2>2, Zenon
  <2> HIDE DEF f, r
  <2>4. i \in Slots /\ \A j \in Slots : slot[j] \in SlotRec
    BY <1>t
  <2>5. f[i] = r /\ \A j \in Slots : j # i => f[j] = slot[j]
    BY <2>1, <2>4 DEF r
  <2>6. \A j \in Slots : f[j] \in SlotRec
    BY <2>3, <2>4, <2>5
  <2>7. slot[i].addr = p /\ slot[i].present
    BY <1>b
  <2> QED BY <2>3, <2>5, <2>6, <2>7, Zenon
<1> HIDE DEF f
<1>s. \A j \in Slots : SameRow(slot'[j], f[j])
  <2>1. ASSUME NEW s \in SlotRec PROVE SameRow([s EXCEPT !.connected = TRUE], s)
    BY DEF SameRow, SlotRec
  <2>2. \A s : SameRow(s, s)
    BY DEF SameRow
  <2>3. \A j \in Slots : MarkConnected(f, p)[j] = IF f[j].addr = p /\ p # NoPeer
                                 THEN [f[j] EXCEPT !.connected = TRUE] ELSE f[j]
    BY DEF MarkConnected
  <2> QED BY <1>a, <1>f, <2>1, <2>2, <2>3
<1>d. \A j \in Slots : slot[j].addr # NoPeer /\ j # i => slot[j].addr # p
  BY <1>b, <1>t DEF OneSlotPerPeer, Used
<1>g. /\ slot'[i].addr = p /\ slot'[i].ack /\ slot'[i].present /\ slot'[i].seen = slot[i].seen
      /\ \A j \in Slots : j # i => SameRow(slot'[j], slot[j])
  BY <1>f, <1>s, <1>t DEF SameRow
<1>k. Left(i)
  BY <1>b, <1>t DEF Alternating, SlotsKnow, Knows, Used
\* A swallowed IN is that of the last row, or one of the tick.
<1>c. waits = "none" => rows'[p].last = "in" \/ (append.tick = p /\ tick.phase = "in")
  <2>1. waits = "none" => Last(p) = "in" \/ since[p]["in"] = Debounce \/ Coming(p)
    BY <1>b DEF Alternating, Stamped
  <2> QED BY <1>b, <1>r, <1>t, <2>1 DEF Coming, Last
<1>o. \A q \in Peers : q # p => (Coming(q)' <=> Coming(q))
  BY <1>a, <1>b, <1>t, <1>w DEF Coming
<1> HIDE DEF i, p
<1>1. waits' # "long" /\ synced' /\ http'.op = "none" /\ HostRecords'
  BY <1>a, <1>r, <1>w DEF Alternating, HostRecords
<1>2. UnheldClosed'
  <2> SUFFICES ASSUME NEW q \in Peers, \A j \in Slots : slot'[j].addr # q
               PROVE  rows'[q].last # "in"
    BY DEF UnheldClosed, Last
  <2>1. q # p /\ \A j \in Slots : slot[j].addr # q
    BY <1>b, <1>g, <1>t DEF SameRow
  <2> QED BY <1>r, <2>1 DEF Alternating, UnheldClosed, Last
<1>3. Stamped'
  <2> SUFFICES ASSUME waits = "none", NEW q \in Peers, rows'[q].last # "in"
               PROVE  since'[q]["in"] = Debounce \/ Coming(q)'
    BY <1>r DEF Stamped, Last
  <2>1. CASE q = p
    BY <1>a, <1>c, <1>w, <2>1 DEF Coming
  <2>2. CASE q # p
    BY <1>o, <1>r, <2>2 DEF Alternating, Stamped, Last
  <2> QED BY <2>1, <2>2
<1>4. SlotsKnow'
  <2> SUFFICES ASSUME NEW j \in Slots, slot'[j].addr # NoPeer
               PROVE  Knows(j)'
    BY DEF SlotsKnow, Used
  <2>1. CASE j = i
    <3>1. Denies(j)' /\ Soon(j)' /\ Leaving(j)'
      BY <1>g, <2>1 DEF Denies, Soon, Leaving
    <3>2. Left(j)'
      BY <1>b, <1>g, <1>k, <1>r, <2>1 DEF Left
    <3>3. Believes(j)'
      BY <1>a, <1>c, <1>g, <1>r, <1>w, <2>1 DEF Believes, Coming, Last
    <3>4. Since(j)'
      <4>1. waits = "none" => slot[i].seen <= since'[p]["in"] + 1
        <5>1. since[p]["in"] \in Nat /\ slot[i].seen \in Nat
          BY <1>b, <1>t, RowTypes
        <5>2. CASE append.host = NoPeer
          BY <1>b, <1>r, <5>1, <5>2
        <5>3. CASE append.host # NoPeer
          <6>1. since' = since
            BY <1>r, <5>3
          <6> QED BY <1>b, <5>1, <5>3, <6>1
        <5> QED BY <5>2, <5>3
      <4> QED BY <1>g, <1>r, <2>1, <4>1 DEF Since
    <3> QED BY <3>1, <3>2, <3>3, <3>4 DEF Knows
  <2>2. CASE j # i
    <3>1. /\ SameRow(slot'[j], slot[j]) /\ slot[j].addr \in Peers /\ slot[j].addr # p
          /\ Denies(j) /\ Leaving(j) /\ Left(j) /\ Believes(j) /\ Since(j) /\ Soon(j)
      BY <1>d, <1>g, <1>t, <2>2 DEF Alternating, SlotsKnow, Knows, Used, SameRow
    <3>2. /\ since'[slot[j].addr] = since[slot[j].addr]
          /\ rows'[slot[j].addr] = rows[slot[j].addr]
      BY <1>r, <3>1
    <3>3. Denies(j)' /\ Left(j)' /\ Since(j)'
      BY <1>r, <3>1, <3>2 DEF Denies, Left, Since, Last, SameRow
    <3>4. Leaving(j)' /\ Soon(j)'
      BY <1>a, <1>r, <3>1 DEF Leaving, Soon, SameRow, Pending
    <3>5. Believes(j)'
      BY <1>o, <1>r, <3>1, <3>2 DEF Believes, Last, SameRow
    <3> QED BY <3>3, <3>4, <3>5 DEF Knows
  <2> QED BY <2>1, <2>2
<1>5. TickRecords'
  <2> DEFINE k == tick.at
             q == slot[k].addr
  <2>1. CASE tick.phase = "eval"
    BY <1>a, <1>w, <2>1 DEF Alternating, TickRecords
  <2>2. CASE tick.phase = "in"
    <3>1. /\ k \in Slots /\ q # NoPeer /\ append.tick \in {NoPeer, q} /\ slot[k].present
          /\ NoSecond(Last(q), since[q]["in"], append.tick # NoPeer, waits = "none")
          /\ append.tick # NoPeer => append.host # q
          /\ q \in Peers
      BY <1>t, <2>2 DEF Alternating, TickRecords, Used
    <3>2. slot'[k].addr = q /\ slot'[k].present
      BY <1>b, <1>d, <1>g, <3>1 DEF SameRow
    <3>3. NoSecond(rows'[q].last, since'[q]["in"], append'.tick # NoPeer, waits' = "none")
      <4>1. CASE q # p
        BY <1>r, <1>w, <3>1, <4>1 DEF Last
      <4>2. CASE q = p /\ append.tick = NoPeer
        BY <1>r, <1>w, <4>2 DEF NoSecond
      <4>3. CASE q = p /\ append.tick # NoPeer
        <5>1. append.host = NoPeer /\ since[p]["in"] < Debounce
          BY <1>b, <3>1, <4>3 DEF NoSecond
        <5>2. rows' = rows /\ since' = since
          BY <1>r, <5>1
        <5> QED BY <1>r, <1>w, <3>1, <5>2 DEF Last
      <4> QED BY <4>1, <4>2, <4>3
    <3> QED BY <1>a, <1>w, <2>2, <3>1, <3>2, <3>3 DEF TickRecords, Used, Last
  <2>3. CASE tick.phase = "out"
    <3>1. /\ k \in Slots /\ q # NoPeer /\ append.tick \in {NoPeer, q} /\ q \in Peers
          /\ slot[k].ack /\ host.slot # k
          /\ append.tick = NoPeer => since[q]["out"] = Debounce
          /\ append.tick = NoPeer \/ waits = "none" => (slot[k].present => slot[k].seen = 0)
          /\ waits = "none" => since[q]["in"] = Debounce
      BY <1>t, <2>3 DEF Alternating, TickRecords, Used
    <3>2. q # p /\ k # i
      BY <1>d, <3>1 DEF i
    <3>3. since'[q] = since[q] /\ SameRow(slot'[k], slot[k])
      BY <1>g, <1>r, <3>1, <3>2
    <3>4. k # 0
      BY <3>1, RowTypes
    <3> QED BY <1>a, <1>r, <1>w, <2>3, <3>1, <3>3, <3>4 DEF TickRecords, Used, SameRow
  <2> QED BY <1>t, <2>1, <2>2, <2>3
<1> QED BY <1>1, <1>2, <1>3, <1>4, <1>5, <1>r DEF Alternating

\* Slots given out by pre-allocation go to phones without one, and are acknowledged only
\* if the last row of their phone is an IN.
LEMMA GivenRows ==
  ASSUME NEW f, NEW bonded, NEW log, NEW g \in Preallocations(f, bonded, log)
  PROVE  \A i \in Slots :
           \/ g[i] = f[i]
           \/ /\ f[i].addr = NoPeer /\ \A j \in Slots : f[j].addr # g[i].addr
              /\ g[i].ack => g[i].addr \in bonded /\ log[g[i].addr].last = "in"
              /\ g[i].present => g[i].seen = 0
<1> DEFINE free == {i \in Slots : f[i].addr = NoPeer}
           missing == Untracked(f, bonded)
<1>1. PICK m \in [free -> missing \cup {NoPeer}] :
        g = [i \in Slots |-> IF i \in free /\ m[i] # NoPeer
                             THEN ResumedSlot(m[i], log) ELSE f[i]]
  BY DEF Preallocations
<1>2. \A p \in missing : p \in bonded /\ \A j \in Slots : f[j].addr # p
  BY DEF Untracked
<1>3. ASSUME NEW p
      PROVE  /\ ResumedSlot(p, log).addr = p
             /\ ResumedSlot(p, log).ack => log[p].last = "in"
             /\ ResumedSlot(p, log).present => ResumedSlot(p, log).seen = 0
  BY DEF ResumedSlot
<1> HIDE DEF missing
<1>4. ASSUME NEW i \in Slots, i \in free, m[i] # NoPeer
      PROVE  g[i] = ResumedSlot(m[i], log) /\ m[i] \in missing
  BY <1>1, <1>4
<1> QED BY <1>1, <1>2, <1>3, <1>4

\* The wall clock stays known and the httpd task idle; a row that waited too long did so.
LEMMA CalmKept ==
  ASSUME Undisturbed, synced, http.op = "none", [Next]_vars
  PROVE  synced' /\ http'.op = "none" /\ (waits = "long" => waits' = "long")
<1>f. /\ "revoke" \notin Features /\ "wipe" \notin Features /\ "ntp" \notin Features
      /\ "reboot" \notin Features
  BY DEF Undisturbed
<1>s. \A task, type, p : RecordEvent(task, type, p) => waits' = waits
  BY DEF RecordEvent, stalls
<1>1. CASE ClockTick \/ Tick \/ ScanRestart
  BY <1>1, <1>s DEF ClockTick, Tick, TickEval, TickIn, TickOut, ScanRestart, stalls
<1>2. CASE Radio
  BY <1>2, <1>s DEF Radio, Advertised, ProbeConnected, ProbeFailed, ProbeLinkDown, HidConnected,
    HidDisconnected, EncChanged, RepeatPairing, HostRecord, HostAllocate, codeVars, stalls
<1>3. CASE Admin
  BY <1>3, <1>f DEF Admin, RevokeSlot, ResetEvents, PairingStart, PairingEnd, SetTimeout, stalls
<1>4. CASE World
  BY <1>4, <1>f DEF World, ClockSynced, Moves, codeVars, stalls
<1>5. CASE Stall
  BY <1>5 DEF Stall, HostWaits, TickWaits, Stalled, codeVars
<1>6. CASE UNCHANGED vars
  BY <1>6 DEF vars
<1> QED BY <1>1, <1>2, <1>3, <1>4, <1>5, <1>6 DEF Next

\* Every step keeps the rows alternating, until a row has waited for too long.
LEMMA NextRows ==
  ASSUME Undisturbed, Typed, Typed', OneSlotPerPeer, Alternating, [Next]_vars, waits' # "long"
  PROVE  Alternating'
<1>f. /\ "revoke" \notin Features /\ "wipe" \notin Features /\ "ntp" \notin Features
      /\ "reboot" \notin Features
  BY DEF Undisturbed
<1>s. synced /\ http.op = "none"
  BY DEF Alternating
<1>t. /\ TypeOK /\ slot \in [Slots -> SlotRec]
      /\ \A j \in Slots : slot[j] \in SlotRec /\ slot[j].addr \in Peers \cup {NoPeer}
      /\ rows \in [Peers -> RowsRec]
  BY RowTypes
<1>i. HostIdle.slot = 0
  BY DEF HostIdle
<1>k. \A s : Kept(s, s)
  BY DEF Kept
\* Nothing is recorded and every slot is kept.
<1>a. ASSUME UNCHANGED <<rows, since, tick, synced, append, waits>>, http'.op = "none",
             \A j \in Slots : Kept(slot[j], slot'[j]),
             host' = host \/ (host.slot = 0 /\ host'.slot = 0)
      PROVE  Alternating'
  BY <1>a, RowsFrame
\* Steps of presence_seen_addr.
<1>b. ASSUME UNCHANGED <<rows, since, tick, synced, http, append, waits>>, host = HostIdle,
             NEW g \in [Slots -> SlotRec], \A j \in Slots : SameRow(g[j], slot[j]),
             NEW p \in Peers \cup {NoPeer}, NEW then \in {"none", "hid", "probe"},
             SeenThen(g, p, then)
      PROVE  Alternating'
  <2>1. /\ \A j \in Slots :
              \/ Kept(g[j], slot'[j])
              \/ /\ g[j].addr = NoPeer /\ slot'[j].addr = p
                 /\ \A k \in Slots : g[k].addr # p
                 /\ ~slot'[j].ack /\ slot'[j].seen = 0
        /\ \/ host' = host
           \/ /\ host'.slot \in Slots /\ host'.peer = p /\ p # NoPeer
              /\ slot'[host'.slot].addr = p /\ slot'[host'.slot].present
              /\ slot'[host'.slot].seen = 0 /\ ~slot'[host'.slot].ack
              /\ host'.then # "alloc"
    BY <1>b, <1>s, SeenRows
  <2>2. \A j \in Slots :
           \/ Kept(slot[j], slot'[j])
           \/ /\ slot[j].addr = NoPeer
              /\ \A k \in Slots : slot[k].addr # slot'[j].addr
              /\ ~slot'[j].ack
              /\ slot'[j].present => slot'[j].seen = 0
    BY <1>b, <2>1 DEF Kept, SameRow
  <2>3. http'.op = "none" /\ host.slot = 0
    BY <1>b, <1>i, <1>s
  <2> QED BY <1>b, <2>1, <2>2, <2>3, RowsFrame
<1>c. \A j \in Slots : SameRow(slot[j], slot[j])
  BY DEF SameRow
<1>1. CASE ClockTick \/ Stalled
  BY <1>1, AgeRows
<1>2. ASSUME NEW i \in Slots, TickEval(i) PROVE Alternating'
  BY <1>2, EvalRows
<1>3. ASSUME NEW i \in Slots, TickIn(i) PROVE Alternating'
  BY <1>3, InRows
<1>4. ASSUME NEW i \in Slots, TickOut(i) PROVE Alternating'
  BY <1>4, OutRows
<1>5. ASSUME NEW p \in Peers, Advertised(p) PROVE Alternating'
  BY <1>5, <1>b, <1>c, <1>t DEF Advertised, stalls
<1>6. ASSUME NEW h \in Handles, ProbeConnected(h) PROVE Alternating'
  <2>1. conn.slot \in Slots
    BY <1>6, RowTypes DEF ProbeConnected, Typed, TypeOK, ConnRec
  <2> DEFINE g == Answered(conn.slot, h)
             s == [slot[conn.slot] EXCEPT !.handle = h, !.connected = TRUE, !.probing = FALSE]
  <2>2. g \in [Slots -> SlotRec] /\ \A j \in Slots : SameRow(g[j], slot[j])
    <3>1. SameRow(s, slot[conn.slot])
      BY <1>t, <2>1 DEF SameRow, SlotRec
    <3>2. g = [slot EXCEPT ![conn.slot] = s]
      BY DEF Answered
    <3>3. g \in [Slots -> SlotRec]
      BY <1>t, <2>1, AnsweredFacts
    <3> HIDE DEF g, s
    <3> QED BY <1>c, <1>t, <2>1, <3>1, <3>2, <3>3
  <2>3. SeenThen(g, slot[conn.slot].addr, "probe") /\ host = HostIdle
        /\ UNCHANGED <<rows, since, tick, synced, http, append, waits>>
    BY <1>6 DEF ProbeConnected, stalls
  <2> HIDE DEF g
  <2> QED BY <1>b, <1>t, <2>1, <2>2, <2>3
<1>7. ASSUME NEW h \in Handles, NEW p \in Peers, HidConnected(p, h) PROVE Alternating'
  BY <1>7, <1>b, <1>c, <1>t DEF HidConnected, stalls
<1>8. CASE ProbeFailed
  <2>1. ASSUME NEW s \in SlotRec PROVE Kept(s, ProbeEnded(s))
    BY DEF Kept, ProbeEnded, SlotRec
  <2>2. slot' = [slot EXCEPT ![conn.slot] = ProbeEnded(slot[conn.slot])]
    BY <1>8 DEF ProbeFailed
  <2>3. \A j \in Slots : slot'[j] = slot[j] \/ slot'[j] = ProbeEnded(slot[j])
    BY <1>t, <2>2
  <2>4. \A j \in Slots : Kept(slot[j], slot'[j])
    BY <1>k, <1>t, <2>1, <2>3
  <2> QED BY <1>8, <1>a, <1>s, <2>4 DEF ProbeFailed, stalls
<1>9. ASSUME NEW h \in Handles, ProbeLinkDown(h) PROVE Alternating'
  <2>1. ASSUME NEW s \in SlotRec PROVE Kept(s, LinkDropped(s))
    BY DEF Kept, LinkDropped, SlotRec
  <2>2. \A j \in Slots : slot'[j] = slot[j] \/ slot'[j] = LinkDropped(slot[j])
    BY <1>9, <1>t DEF ProbeLinkDown
  <2>3. \A j \in Slots : Kept(slot[j], slot'[j])
    BY <1>k, <1>t, <2>1, <2>2
  <2> QED BY <1>9, <1>a, <1>s, <2>3 DEF ProbeLinkDown, stalls
<1>10. ASSUME NEW h \in Handles, HidDisconnected(h) PROVE Alternating'
  <2>1. ASSUME NEW s \in SlotRec PROVE Kept(s, Unlinked(s))
    BY DEF Kept, Unlinked, SlotRec
  <2>2. \A j \in Slots : slot'[j] = slot[j] \/ slot'[j] = Unlinked(slot[j])
    BY <1>10 DEF HidDisconnected
  <2>3. \A j \in Slots : Kept(slot[j], slot'[j])
    BY <1>k, <1>t, <2>1, <2>2
  <2> QED BY <1>10, <1>a, <1>s, <2>3 DEF HidDisconnected, stalls
<1>11. ASSUME NEW h \in Handles, EncChanged(h) PROVE Alternating'
  <2>1. /\ host.slot = 0 /\ host'.slot = 0
        /\ UNCHANGED <<slot, rows, since, tick, synced, http, append, waits>>
    BY <1>11, <1>i DEF EncChanged, HostIdle, logVars, stalls
  <2> QED BY <1>a, <1>k, <1>s, <2>1
<1>12. CASE HostAllocate
  <2>1. /\ slot' \in Preallocations(slot, host.bonded, rows)
        /\ host.then = "alloc"
        /\ host'.slot = 0 /\ UNCHANGED <<rows, since, tick, synced, http, append, waits>>
    BY <1>12, <1>i DEF HostAllocate, logVars, stalls
  <2>0. host.bonded \in SUBSET Peers /\ host.slot = 0
    BY <2>1, RowTypes DEF Alternating, HostRecords
  <2>2. \A j \in Slots :
          \/ slot'[j] = slot[j]
          \/ /\ slot[j].addr = NoPeer
             /\ \A k \in Slots : slot[k].addr # slot'[j].addr
             /\ ~slot'[j].ack
             /\ slot'[j].present => slot'[j].seen = 0
    <3>1. ASSUME NEW B \in SUBSET Peers, slot' \in Preallocations(slot, B, rows)
          PROVE \A j \in Slots :
                  \/ slot'[j] = slot[j]
                  \/ /\ slot[j].addr = NoPeer
                     /\ \A k \in Slots : slot[k].addr # slot'[j].addr
                     /\ slot'[j].ack => slot'[j].addr \in B /\ rows[slot'[j].addr].last = "in"
                     /\ slot'[j].present => slot'[j].seen = 0
      BY <3>1, GivenRows
    <3> QED BY <2>0, <2>1, <3>1 DEF Alternating, UnheldClosed, Last
  <2> QED BY <1>k, <1>s, <2>0, <2>1, <2>2, RowsFrame
<1>13. CASE HostRecord
  BY <1>13, HostRows
<1>14. CASE \/ ScanRestart \/ PairingStart \/ PairingEnd
            \/ \E t \in TimeoutMin .. TimeoutMax : SetTimeout(t)
            \/ \E p \in Peers : Moves(p)
            \/ \E h \in Handles : RepeatPairing(h)
            \/ UNCHANGED vars
  <2>1. UNCHANGED <<slot, host, rows, since, tick, synced, http, append, waits>>
    BY <1>14, Zenon DEF ScanRestart, PairingStart, PairingEnd, SetTimeout, Moves, RepeatPairing,
      codeVars, logVars, stalls, vars
  <2> QED BY <1>a, <1>k, <1>s, <2>1
<1>15. ~RevokeSlot /\ ~ResetEvents /\ ~ClockSynced
  BY <1>s DEF RevokeSlot, ResetEvents, ClockSynced
<1>16. CASE HostWaits
  BY <1>16, HostWaitsRows
<1>17. ASSUME NEW i \in Slots, TickWaits(i) PROVE Alternating'
  BY <1>17, TickWaitsRows
<1>w. Stall => HostWaits \/ (\E i \in Slots : TickWaits(i)) \/ ClockTick \/ Stalled
  BY DEF Stall
<1> QED
  BY <1>1, <1>2, <1>3, <1>4, <1>5, <1>6, <1>7, <1>8, <1>9, <1>10, <1>11, <1>12, <1>13, <1>14,
    <1>15, <1>16, <1>17, <1>w, <1>f
  DEF Next, Tick, Radio, Admin, World

\* The rows alternate from the start, until a row has waited for too long.
LEMMA AlwaysAlternating ==
  ASSUME Undisturbed
  PROVE  Spec => []UntilLong
<1>1. Init => UntilLong
  <2> SUFFICES ASSUME Init PROVE Alternating
    BY DEF UntilLong, Alternating
  <2> DEFINE f == [i \in Slots |-> FreeSlot]
  <2>1. \A i \in Slots : f[i].addr = NoPeer /\ ~f[i].ack /\ ~f[i].present
    BY DEF FreeSlot
  <2>2. /\ slot \in Preallocations(f, bonds, rows) /\ host.slot = 0
        /\ http.op = "none" /\ tick.phase = "eval" /\ synced /\ waits = "none"
        /\ append.host = NoPeer /\ append.tick = NoPeer
        /\ \A p \in Peers : rows[p].last = "none"
        /\ \A p \in Peers : since[p]["in"] = Debounce
        /\ bonds \in SUBSET Peers
    BY DEF Init, HostIdle, HttpIdle, TickIdle, NoRows, NoAppend, Undisturbed, EventTypes
  <2> HIDE DEF f
  <2>3. ASSUME NEW i \in Slots, Used(i)
        PROVE  ~slot[i].ack /\ ~slot[i].present /\ slot[i].addr \in Peers
    <3>1. /\ \/ slot[i] = f[i]
             \/ slot[i].addr \in bonds /\ (slot[i].present => rows[slot[i].addr].last = "in")
          /\ \/ slot[i] = f[i]
             \/ slot[i].ack => slot[i].addr \in bonds /\ rows[slot[i].addr].last = "in"
      BY <2>2, GivenOut, GivenRows
    <3> QED BY <2>1, <2>2, <2>3, <3>1 DEF Used
  <2>4. SlotsKnow
    BY <2>2, <2>3 DEF SlotsKnow, Knows, Denies, Left, Believes, Since, Soon, Leaving, Last
  <2> QED BY <2>2, <2>4 DEF Alternating, UnheldClosed, Stamped, TickRecords, HostRecords,
    NoOrphanOut, NoDoubleIn, Last
<1>2. Typed /\ Typed' /\ OneSlotPerPeer /\ UntilLong /\ [Next]_vars => UntilLong'
  <2> SUFFICES ASSUME Typed, Typed', OneSlotPerPeer, UntilLong, [Next]_vars PROVE UntilLong'
    OBVIOUS
  <2>1. synced' /\ http'.op = "none" /\ (waits = "long" => waits' = "long")
    BY CalmKept DEF UntilLong
  <2>2. ASSUME waits' # "long" PROVE Alternating'
    <3>1. Alternating
      BY <2>1, <2>2 DEF UntilLong
    <3> QED BY <2>2, <3>1, NextRows
  <2> QED BY <2>1, <2>2 DEF UntilLong
<1>3. Typed /\ [Next]_vars => Typed'
  BY NextTyped
<1> QED BY <1>1, <1>2, <1>3, AlwaysTyped, SlotsDistinct, PTL DEF Spec

(***************************************************************************)
(* NoOrphanOut (dd_ble.c:429): an OUT row directly follows an IN row of    *)
(* the same phone, if nothing disturbs the recording and as long as no row *)
(* has had to wait for the log.                                            *)
(***************************************************************************)
THEOREM OutFollowsIn ==
  ASSUME Undisturbed
  PROVE  Spec => []NoOrphanOut
<1>1. UntilLong => NoOrphanOut
  BY DEF UntilLong, Alternating, NoOrphanOut
<1> QED BY <1>1, AlwaysAlternating, PTL

(***************************************************************************)
(* NoDoubleIn: the debounce keeps the host task and the tick, which may    *)
(* both find one IN due, from recording it twice, even if one of them has  *)
(* to wait for the log, as long as that takes less than the debounce.      *)
(***************************************************************************)
THEOREM InFollowsNoIn ==
  ASSUME Undisturbed
  PROVE  Spec => []NoDoubleIn
<1>1. UntilLong => NoDoubleIn
  BY DEF UntilLong, Alternating, NoDoubleIn
<1> QED BY <1>1, AlwaysAlternating, PTL

(***************************************************************************)
(* AbsentMeansClosed: a phone that is shown absent has its attendance      *)
(* closed in the log, even if rows had to wait for it, as long as none did *)
(* for as long as the debounce.                                            *)
(***************************************************************************)
THEOREM AbsentIsClosed ==
  ASSUME Undisturbed
  PROVE  Spec => []AbsentMeansClosed
<1>1. UntilLong => AbsentMeansClosed
  BY DEF UntilLong, Alternating, SlotsKnow, Knows, Denies, Leaving, AbsentMeansClosed, Quiet, Last
<1> QED BY <1>1, AlwaysAlternating, PTL

=============================================================================
