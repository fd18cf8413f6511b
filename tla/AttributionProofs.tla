--------------------------- MODULE AttributionProofs ---------------------------
(***************************************************************************)
(* For any number of phones, workers and ids: worker ids are never given   *)
(* out twice, and the registry in RAM is the one a restart would find.     *)
(*                                                                         *)
(* The ids handed out lie below the number NVS holds.  That number lags    *)
(* behind the one in RAM by the one worker that is just being stored, so a *)
(* restart, which takes the stored number over, forgets at most an id that *)
(* nobody has seen (Numbered).                                             *)
(***************************************************************************)
EXTENDS Attribution, TLAPS, FiniteSetTheorems, FunctionTheorems

Storing == {t \in Tasks : rec[t].at = "store"}

Shaped ==
    /\ DOMAIN slots = 1..MaxWorkers
    /\ count \in Nat /\ next \in Nat /\ nvsNext \in Nat
    /\ DOMAIN rec = Tasks /\ rec = [t \in Tasks |-> rec[t]]
    /\ \A t \in Tasks : {"at", "peer", "slot", "id"} \subseteq DOMAIN rec[t]
    /\ \A t \in Tasks : rec[t].slot \in 1..MaxWorkers
    /\ \A t, u \in Storing : t = u

Numbers ==
    /\ \A w \in issued : w.id \in Nat /\ w.id < nvsNext
    /\ \A v, w \in issued : v.id = w.id => v = w
    /\ Storing = {} => next = nvsNext
    /\ \A t \in Storing : next = nvsNext + 1 /\ slots[rec[t].slot].id = nvsNext

Numbered == trusted => Numbers

IdInv == Shaped /\ Numbered

\* A fresh device has issued no id.
LEMMA InitIds == Init => IdInv
BY AttributionAssumption DEF Init, IdInv, Shaped, Numbered, Numbers, Storing, AtRest

\* What a task that is storing nothing may do to its own recording.
LEMMA OtherStep ==
    ASSUME Shaped, NEW t \in Tasks, NEW at \in {"idle", "find", "create", "read", "append"}, NEW r,
           {"at", "peer", "slot", "id"} \subseteq DOMAIN r, r.at = at, r.slot \in 1..MaxWorkers,
           rec' = [rec EXCEPT ![t] = r]
    PROVE  /\ Storing' = Storing \ {t}
           /\ \A u \in Storing' : rec'[u] = rec[u]
           /\ DOMAIN rec' = Tasks /\ rec' = [u \in Tasks |-> rec'[u]]
           /\ \A u \in Tasks : {"at", "peer", "slot", "id"} \subseteq DOMAIN rec'[u]
           /\ \A u \in Tasks : rec'[u].slot \in 1..MaxWorkers
<1>1. \A u \in Tasks : rec'[u] = IF u = t THEN r ELSE rec[u]
  BY DEF Shaped
<1>2. DOMAIN rec' = Tasks /\ rec' = [u \in Tasks |-> rec'[u]]
  BY DEF Shaped
<1>3. Storing' = Storing \ {t} /\ \A u \in Storing' : rec'[u] = rec[u]
  BY <1>1 DEF Storing
<1>4. \A u \in Tasks : {"at", "peer", "slot", "id"} \subseteq DOMAIN rec'[u]
  BY <1>1 DEF Shaped
<1>5. \A u \in Tasks : rec'[u].slot \in 1..MaxWorkers
  BY <1>1 DEF Shaped
<1> QED BY <1>2, <1>3, <1>4, <1>5

\* Trust, once lost, is not regained.
LEMMA TrustFades == [Next]_vars /\ trusted' => trusted
BY Zenon DEF Next, vars, Find, TableFull, SaveWorker, SaveFails, StoreNext, ReadId, AppendRow, Pair,
      Revoke, Forget, AutoRecord, ManualRecord, Start, DeleteBegin, DeleteRows, DeleteWorker,
      NothingToDelete, WipeRows, Restart

\* The registry's lock is free exactly when no task is between its two NVS writes.
LEMMA NobodyStores == Unlocked <=> Storing = {}
BY DEF Unlocked, Storing

\* A step that neither stores nor issues nor touches the numbers.
LEMMA QuietStep ==
    ASSUME IdInv, trusted' => trusted,
           Storing' = Storing, \A u \in Storing : rec'[u] = rec[u],
           slots' = slots \/ Storing = {},
           next' = next, nvsNext' = nvsNext, issued' = issued
    PROVE  Numbered'
<1>1. Numbers => Numbers'
  BY DEF Numbers
<1>2. Numbered
  BY DEF IdInv
<1> QED BY <1>1, <1>2, Zenon DEF Numbered

\* A task that is not storing goes on with its recording, and nothing else happens.
LEMMA RecordingStep ==
    ASSUME IdInv, trusted' => trusted, NEW t \in Tasks, NEW r, rec[t].at # "store",
           {"at", "peer", "slot", "id"} \subseteq DOMAIN r,
           r.at \in {"idle", "find", "create", "read", "append"}, r.slot \in 1..MaxWorkers,
           rec' = [rec EXCEPT ![t] = r],
           DOMAIN slots' = 1..MaxWorkers, slots' = slots \/ Storing = {},
           count' = count, next' = next, nvsNext' = nvsNext, issued' = issued
    PROVE  IdInv'
<1>1. Shaped
  BY DEF IdInv
<1>2. t \notin Storing
  BY DEF Storing
<1>3. /\ Storing' = Storing /\ \A u \in Storing : rec'[u] = rec[u]
      /\ DOMAIN rec' = Tasks /\ rec' = [u \in Tasks |-> rec'[u]]
      /\ \A u \in Tasks : {"at", "peer", "slot", "id"} \subseteq DOMAIN rec'[u]
      /\ \A u \in Tasks : rec'[u].slot \in 1..MaxWorkers
  <2>1. Storing \ {t} = Storing
    BY <1>2
  <2> QED BY <1>1, <2>1, OtherStep, Zenon
<1>4. Shaped'
  BY <1>1, <1>3 DEF Shaped
<1>5. Numbered'
  BY <1>3, QuietStep
<1> QED BY <1>4, <1>5 DEF IdInv

\* Nothing happens to the recordings or to the numbers.
LEMMA ElsewhereStep ==
    ASSUME IdInv, trusted' => trusted, rec' = rec,
           DOMAIN slots' = 1..MaxWorkers, slots' = slots \/ Storing = {},
           count' \in Nat, next' = next, nvsNext' = nvsNext, issued' = issued
    PROVE  IdInv'
<1>1. Storing' = Storing /\ \A u \in Storing : rec'[u] = rec[u]
  BY DEF Storing
<1>2. Shaped'
  BY <1>1 DEF IdInv, Shaped
<1>3. Numbered'
  BY <1>1, QuietStep
<1> QED BY <1>2, <1>3 DEF IdInv

\* Every step keeps the ids handed out below the number stored in NVS.
LEMMA NextIds == IdInv /\ [Next]_vars => IdInv'
<1> SUFFICES ASSUME IdInv, [Next]_vars PROVE IdInv'
  OBVIOUS
<1>t. trusted' => trusted
  BY TrustFades, Zenon
<1>s. Shaped
  BY DEF IdInv
<1>r. \A t \in Tasks : /\ rec[t].slot \in 1..MaxWorkers
                      /\ {"at", "peer", "slot", "id"} \subseteq DOMAIN rec[t]
  BY <1>s DEF Shaped
<1>m. 1 \in 1..MaxWorkers /\ MaxWorkers \in Nat
  BY AttributionAssumption
<1>1. ASSUME NEW t \in Tasks, NEW p, Start(t, p) PROVE IdInv'
  <2> DEFINE r == [AtRest EXCEPT !.at = "find", !.peer = p]
  <2>1. r.at = "find" /\ r.slot = 1 /\ {"at", "peer", "slot", "id"} \subseteq DOMAIN r
    BY DEF AtRest
  <2>2. /\ rec[t].at # "store" /\ rec' = [rec EXCEPT ![t] = r]
        /\ slots' = slots /\ count' = count /\ next' = next /\ nvsNext' = nvsNext /\ issued' = issued
    BY <1>1 DEF Start, registry
  <2>3. DOMAIN slots' = 1..MaxWorkers
    BY <1>s, <2>2 DEF Shaped
  <2> QED BY <1>t, <1>m, <2>1, <2>2, <2>3, RecordingStep
<1>2. ASSUME NEW t \in Tasks, rec[t].at # "store", NEW r, rec' = [rec EXCEPT ![t] = r],
             {"at", "peer", "slot", "id"} \subseteq DOMAIN r, r.slot \in 1..MaxWorkers,
             r.at \in {"idle", "find", "create", "read", "append"},
             UNCHANGED <<registry, issued>>
      PROVE  IdInv'
  <2>1. slots' = slots /\ count' = count /\ next' = next /\ nvsNext' = nvsNext /\ issued' = issued
    BY <1>2 DEF registry
  <2>2. DOMAIN slots' = 1..MaxWorkers
    BY <1>s, <2>1 DEF Shaped
  <2> QED BY <1>t, <1>2, <2>1, <2>2, RecordingStep
<1>3. ASSUME NEW t \in Tasks, Find(t) PROVE IdInv'
  <2> DEFINE r(n) == [rec[t] EXCEPT !.at = "append", !.id = slots[n].id]
             c == [rec[t] EXCEPT !.at = "create"]
  <2>1. CASE rec' = [rec EXCEPT ![t] = c]
    <3>1. {"at", "peer", "slot", "id"} \subseteq DOMAIN c /\ c.slot \in 1..MaxWorkers /\ c.at = "create"
      BY <1>r
    <3>2. rec[t].at # "store" /\ UNCHANGED <<registry, issued>>
      BY <1>3 DEF Find
    <3> HIDE DEF c
    <3> QED BY <1>2, <2>1, <3>1, <3>2
  <2>2. ASSUME NEW n, rec' = [rec EXCEPT ![t] = r(n)] PROVE IdInv'
    <3>1. {"at", "peer", "slot", "id"} \subseteq DOMAIN r(n) /\ r(n).slot \in 1..MaxWorkers
          /\ r(n).at = "append"
      BY <1>r
    <3>2. rec[t].at # "store" /\ UNCHANGED <<registry, issued>>
      BY <1>3 DEF Find
    <3> HIDE DEF r
    <3> QED BY <1>2, <2>2, <3>1, <3>2
  <2> QED BY <1>3, <2>1, <2>2 DEF Find
<1>4. ASSUME NEW t \in Tasks, TableFull(t) PROVE IdInv'
  <2> DEFINE r == [rec[t] EXCEPT !.at = "append"]
  <2>1. {"at", "peer", "slot", "id"} \subseteq DOMAIN r /\ r.slot \in 1..MaxWorkers /\ r.at = "append"
    BY <1>r
  <2>2. rec[t].at # "store" /\ UNCHANGED <<registry, issued>> /\ rec' = [rec EXCEPT ![t] = r]
    BY <1>4 DEF TableFull
  <2> HIDE DEF r
  <2> QED BY <1>2, <2>1, <2>2
<1>5. ASSUME NEW t \in Tasks, ReadId(t) PROVE IdInv'
  <2> DEFINE r == [rec[t] EXCEPT !.at = "append", !.id = slots[rec[t].slot].id]
  <2>1. {"at", "peer", "slot", "id"} \subseteq DOMAIN r /\ r.slot \in 1..MaxWorkers /\ r.at = "append"
    BY <1>r
  <2>2. rec[t].at # "store" /\ UNCHANGED <<registry, issued>> /\ rec' = [rec EXCEPT ![t] = r]
    BY <1>5 DEF ReadId
  <2> HIDE DEF r
  <2> QED BY <1>2, <2>1, <2>2
<1>6. ASSUME NEW t \in Tasks, AppendRow(t) PROVE IdInv'
  <2>1. /\ {"at", "peer", "slot", "id"} \subseteq DOMAIN AtRest /\ AtRest.slot = 1
        /\ AtRest.at = "idle"
    BY DEF AtRest
  <2>2. rec[t].at # "store" /\ UNCHANGED <<registry, issued>> /\ rec' = [rec EXCEPT ![t] = AtRest]
    BY <1>6 DEF AppendRow
  <2> QED BY <1>2, <1>m, <2>1, <2>2
<1>7. ASSUME NEW t \in Tasks, SaveFails(t) PROVE IdInv'
  <2> DEFINE r == [rec[t] EXCEPT !.at = "append"]
  <2>1. {"at", "peer", "slot", "id"} \subseteq DOMAIN r /\ r.slot \in 1..MaxWorkers /\ r.at = "append"
    BY <1>r
  <2>2. /\ rec[t].at # "store" /\ rec' = [rec EXCEPT ![t] = r] /\ Storing = {}
        /\ count' = count /\ next' = next /\ nvsNext' = nvsNext /\ issued' = issued
        /\ DOMAIN slots' = DOMAIN slots
    BY <1>7, NobodyStores DEF SaveFails
  <2>3. DOMAIN slots' = 1..MaxWorkers
    BY <1>s, <2>2 DEF Shaped
  <2> HIDE DEF r
  <2> QED BY <1>t, <2>1, <2>2, <2>3, RecordingStep
<1>8. ASSUME NEW t \in Tasks, SaveWorker(t) PROVE IdInv'
  <2>1. /\ Storing = {} /\ count + 1 \in 1..MaxWorkers /\ count \in Nat /\ next \in Nat
        /\ DOMAIN slots = 1..MaxWorkers /\ DOMAIN rec = Tasks
    BY <1>8, <1>s, <1>m, NobodyStores DEF SaveWorker, Shaped
  <2>2. /\ rec' = [rec EXCEPT ![t] = [rec[t] EXCEPT !.at = "store", !.slot = count + 1]]
        /\ slots' = [slots EXCEPT ![count + 1] = Created(t)]
        /\ count' = count + 1 /\ next' = next + 1 /\ nvsNext' = nvsNext /\ issued' = issued
    BY <1>8 DEF SaveWorker
  <2> DEFINE r == [rec[t] EXCEPT !.at = "store", !.slot = count + 1]
  <2>3. {"at", "peer", "slot", "id"} \subseteq DOMAIN r /\ r.slot = count + 1 /\ r.at = "store"
    BY <1>r
  <2>4. \A u \in Tasks : rec'[u] = IF u = t THEN r ELSE rec[u]
    BY <2>1, <2>2
  <2>5. DOMAIN rec' = Tasks /\ rec' = [u \in Tasks |-> rec'[u]]
    BY <2>1, <2>2
  <2> HIDE DEF r
  <2>6. Storing' = {t}
    BY <2>1, <2>3, <2>4 DEF Storing
  <2>7. slots'[rec'[t].slot].id = next /\ DOMAIN slots' = 1..MaxWorkers
    BY <2>1, <2>2, <2>3, <2>4 DEF Created
  <2>8. Shaped'
    <3>1. \A u \in Tasks : {"at", "peer", "slot", "id"} \subseteq DOMAIN rec'[u]
      BY <1>r, <2>3, <2>4
    <3>2. \A u \in Tasks : rec'[u].slot \in 1..MaxWorkers
      BY <1>r, <2>1, <2>3, <2>4
    <3>3. count' \in Nat /\ next' \in Nat /\ nvsNext' \in Nat
      BY <1>s, <2>1, <2>2 DEF Shaped
    <3>4. \A u, v \in Storing' : u = v
      BY <2>6
    <3> QED BY <2>5, <2>7, <3>1, <3>2, <3>3, <3>4 DEF Shaped
  <2>9. Numbers => Numbers'
    BY <2>1, <2>2, <2>6, <2>7 DEF Numbers
  <2> QED BY <1>t, <2>8, <2>9, Zenon DEF IdInv, Numbered
<1>9. ASSUME NEW t \in Tasks, StoreNext(t) PROVE IdInv'
  <2>1. t \in Storing /\ Storing = {t} /\ rec[t].slot \in 1..MaxWorkers
    BY <1>9, <1>s DEF StoreNext, Shaped, Storing
  <2>2. /\ slots' = slots /\ count' = count /\ next' = next
        /\ issued' = issued \cup {slots[rec[t].slot]}
        /\ rec' = [rec EXCEPT ![t] = [rec[t] EXCEPT !.at = "read"]]
        /\ nvsNext' = next \/ nvsNext' = nvsNext
    BY <1>9 DEF StoreNext, StoredNext
  <2> DEFINE r == [rec[t] EXCEPT !.at = "read"]
  <2>3. {"at", "peer", "slot", "id"} \subseteq DOMAIN r /\ r.slot \in 1..MaxWorkers /\ r.at = "read"
    BY <1>r
  <2>4. Storing' = {} /\ DOMAIN rec' = Tasks /\ rec' = [u \in Tasks |-> rec'[u]]
        /\ (\A u \in Tasks : {"at", "peer", "slot", "id"} \subseteq DOMAIN rec'[u])
        /\ (\A u \in Tasks : rec'[u].slot \in 1..MaxWorkers)
    <3> HIDE DEF r
    <3>1. Storing' = Storing \ {t}
      BY <1>s, <2>2, <2>3, OtherStep DEF r
    <3>2. DOMAIN rec' = Tasks /\ rec' = [u \in Tasks |-> rec'[u]]
        /\ (\A u \in Tasks : {"at", "peer", "slot", "id"} \subseteq DOMAIN rec'[u])
        /\ (\A u \in Tasks : rec'[u].slot \in 1..MaxWorkers)
      BY <1>s, <2>2, <2>3, OtherStep DEF r
    <3> QED BY <2>1, <3>1, <3>2
  <2>5. Shaped'
    BY <1>s, <2>2, <2>4 DEF Shaped
  <2>6. trusted' => nvsNext' = next
    BY <1>9, Zenon DEF StoreNext, StoredNext
  <2>7. Numbers /\ nvsNext' = next => Numbers'
    <3> SUFFICES ASSUME Numbers, nvsNext' = next PROVE Numbers'
      OBVIOUS
    <3>1. next = nvsNext + 1 /\ slots[rec[t].slot].id = nvsNext /\ nvsNext \in Nat
      BY <1>s, <2>1 DEF Numbers, Shaped
    <3>2. \A w \in issued : w.id \in Nat /\ w.id < nvsNext
      BY DEF Numbers
    <3>3. \A w \in issued' : w.id \in Nat /\ w.id < next
      BY <2>2, <3>1, <3>2
    <3>4. \A v, w \in issued' : v.id = w.id => v = w
      BY <2>2, <3>1, <3>2 DEF Numbers
    <3> QED BY <2>2, <2>4, <3>3, <3>4 DEF Numbers
  <2> QED BY <1>t, <2>5, <2>6, <2>7, Zenon DEF IdInv, Numbered
<1>10. CASE DeleteWorker
  <2>1. PICK n \in 1..count : slots' = [slots EXCEPT ![n] = slots[count], ![count] = EmptySlot]
    BY <1>10 DEF DeleteWorker
  <2>2. Storing = {} /\ count' = count - 1 /\ next' = next /\ nvsNext' = nvsNext
        /\ issued' = issued /\ rec' = rec
    BY <1>10, NobodyStores DEF DeleteWorker, NextAfterDeletion
  <2>3. DOMAIN slots' = 1..MaxWorkers /\ count' \in Nat
    BY <1>s, <2>1, <2>2 DEF Shaped
  <2> QED BY <1>t, <2>2, <2>3, ElsewhereStep
<1>11. ASSUME UNCHANGED <<registry, rec, issued>> PROVE IdInv'
  <2>1. /\ slots' = slots /\ count' = count /\ next' = next /\ nvsNext' = nvsNext
        /\ issued' = issued /\ rec' = rec
    BY <1>11 DEF registry
  <2>2. DOMAIN slots' = 1..MaxWorkers /\ count' \in Nat
    BY <1>s, <2>1 DEF Shaped
  <2> QED BY <1>t, <2>1, <2>2, ElsewhereStep
<1>12. CASE Restart
  <2>1. /\ DOMAIN slots' = 1..MaxWorkers /\ next' = nvsNext /\ nvsNext' = nvsNext
        /\ issued' = issued /\ rec' = [t \in Tasks |-> AtRest]
    BY <1>12 DEF Restart, Loadable
  <2>2. count' \in Nat
    <3> DEFINE S == {n \in 1..MaxWorkers : Loadable[n] # EmptySlot}
    <3>1. S \in SUBSET (1..MaxWorkers) /\ 1 \in Int /\ MaxWorkers \in Int
      BY <1>m
    <3> HIDE DEF S
    <3>2. IsFiniteSet(S)
      BY <3>1, FS_Interval, FS_Subset
    <3>3. Cardinality(S) \in Nat
      BY <3>2, FS_CardinalityType
    <3> QED BY <1>12, <3>3, Zenon DEF Restart, S
  <2>3. Storing' = {}
    BY <2>1 DEF Storing, AtRest
  <2>4. Shaped'
    BY <1>s, <1>m, <2>1, <2>2, <2>3 DEF Shaped, AtRest
  <2>5. Numbers => Numbers'
    BY <2>1, <2>3 DEF Numbers
  <2> QED BY <1>t, <2>4, <2>5, Zenon DEF IdInv, Numbered
<1>13. ASSUME NEW p \in Peers, Pair(p) \/ Revoke(p) \/ Forget(p)
                         \/ \E t \in AutoTasks : AutoRecord(t, p)
       PROVE  IdInv'
  BY <1>1, <1>11, <1>13 DEF Pair, Revoke, Forget, AutoRecord, Tasks
<1>14. ASSUME NEW w \in Workers, ManualRecord(w) PROVE IdInv'
  BY <1>1, <1>14 DEF ManualRecord, Tasks
<1>15. CASE (\E id \in Ids : DeleteBegin(id)) \/ DeleteRows \/ NothingToDelete \/ WipeRows
            \/ UNCHANGED vars
  BY <1>11, <1>15 DEF DeleteBegin, DeleteRows, NothingToDelete, WipeRows, vars, registry
<1> QED BY <1>3, <1>4, <1>5, <1>6, <1>7, <1>8, <1>9, <1>10, <1>12, <1>13, <1>14, <1>15 DEF Next

(***************************************************************************)
(* IdsAreNotReused: dd_worker_lookup_or_create never gives an id to a      *)
(* second worker, whatever is deleted and whenever the power goes between  *)
(* its two NVS writes.                                                     *)
(***************************************************************************)
THEOREM IdsStandForOnePhone == Spec => []IdsAreNotReused
<1>1. IdInv => IdsAreNotReused
  BY Zenon DEF IdInv, Numbered, Numbers, IdsAreNotReused
<1> QED BY <1>1, InitIds, NextIds, PTL DEF Spec

-----------------------------------------------------------------------------
(***************************************************************************)
(* The registry in RAM and in NVS, and whose workers it holds.             *)
(*                                                                         *)
(* A task between the look-up and the creation relies on what it has found *)
(* not changing.  Nobody else creates a worker for its phone as long as    *)
(* the phone is stamped (Apart, NotFound): who loses the stamp before is   *)
(* in outrun.  Between the two NVS writes the worker is in RAM already and *)
(* its id is the one that the stored number still hides from a restart     *)
(* (Behind).                                                               *)
(***************************************************************************)
Kept == {i \in Ids : i < nvsNext /\ blobs[i] # NoPeer}

Recordings ==
    [at : {"idle", "find", "create", "store", "read", "append"},
     peer : Peers \cup {NoPeer}, slot : 1..MaxWorkers, id : Nat]

RegTyped ==
    /\ slots \in [1..MaxWorkers -> [id : Nat, peer : Peers \cup {NoPeer}]]
    /\ count \in 0..MaxWorkers
    /\ next \in Nat \ {0} /\ nvsNext \in Nat \ {0}
    /\ blobs \in [Ids -> Peers \cup {NoPeer}]
    /\ rec \in [Tasks -> Recordings]
    /\ bonded \subseteq Peers

Looking(t) == rec[t].at \in {"find", "create"}

\* The phone of a task that looks for its worker is stamped, and nobody else's.
Apart ==
    /\ \A t \in AutoTasks : rec[t].at # "idle" => rec[t].peer \in Peers
    /\ \A t \in AutoTasks : Looking(t) => rec[t].peer \in stamped \cup outrun
    /\ \A t, u \in AutoTasks :
        Looking(t) /\ Looking(u) /\ rec[t].peer = rec[u].peer => t = u \/ rec[t].peer \in outrun

\* The HTTP task finds the worker whose row it records.
ByHand ==
    /\ rec["http"].at \in {"idle", "find", "append"}
    /\ rec["http"].at # "idle" => del.at = "idle"
    /\ rec["http"].at = "find" => \E n \in 1..count : slots[n].peer = rec["http"].peer

NotFound ==
    \A t \in Tasks, n \in 1..count :
        rec[t].at = "create" => slots[n].peer # rec[t].peer \/ rec[t].peer \in outrun

Recording == Apart /\ ByHand /\ NotFound

\* What is in RAM is in NVS, and the other way round.
Stored ==
    \A n \in 1..count : /\ slots[n].peer \in Peers
                        /\ slots[n].id \in Ids /\ slots[n].id < next
                        /\ blobs[slots[n].id] = slots[n].peer
Unique ==
    /\ \A m, n \in 1..count : slots[m].id = slots[n].id => m = n
    /\ \A m, n \in 1..count : slots[m].peer = slots[n].peer => m = n \/ slots[m].peer \in outrun
Known == \A i \in Kept : \E n \in 1..count : slots[n].id = i

Behind ==
    /\ Storing = {} => next = nvsNext
    /\ \A t \in Storing : /\ next = nvsNext + 1 /\ count > 0
                          /\ rec[t].slot = count /\ slots[count].id = nvsNext
    /\ \A t, u \in Storing : t = u

Agrees == Stored /\ Unique /\ Known /\ Behind

RegInv == RegTyped /\ Recording /\ (trusted => Agrees)

Rank(S, i) == Cardinality({j \in S : j <= i})

\* Ranks count the members of a finite set of numbers through.
LEMMA Ranking ==
    ASSUME NEW S, S \subseteq Nat, IsFiniteSet(S)
    PROVE  /\ Cardinality(S) \in Nat
           /\ \A i \in S : Rank(S, i) \in 1..Cardinality(S)
           /\ \A i, j \in S : Rank(S, i) = Rank(S, j) => i = j
           /\ \A n \in 1..Cardinality(S) : \E i \in S : Rank(S, i) = n
<1> DEFINE UpTo(i) == {j \in S : j <= i}
<1>1. Cardinality(S) \in Nat
  BY FS_CardinalityType
<1>2. ASSUME NEW i \in S
      PROVE  IsFiniteSet(UpTo(i)) /\ Cardinality(UpTo(i)) \in Nat /\ Cardinality(UpTo(i)) <= Cardinality(S)
  <2>1. UpTo(i) \in SUBSET S
    OBVIOUS
  <2>2. IsFiniteSet(UpTo(i)) /\ Cardinality(UpTo(i)) <= Cardinality(S)
    BY <2>1, FS_Subset
  <2> QED BY <2>2, FS_CardinalityType
<1>3. ASSUME NEW i \in S PROVE Rank(S, i) \in 1..Cardinality(S)
  <2>1. i \in UpTo(i)
    OBVIOUS
  <2>2. Cardinality(UpTo(i)) # 0
    BY <1>2, <2>1, FS_EmptySet
  <2> QED BY <1>1, <1>2, <2>2 DEF Rank
<1>4. ASSUME NEW i \in S, NEW j \in S, i < j, Rank(S, i) = Rank(S, j) PROVE FALSE
  <2>1. UpTo(i) \in SUBSET UpTo(j)
    <3> SUFFICES ASSUME NEW k \in UpTo(i) PROVE k \in UpTo(j)
      OBVIOUS
    <3>1. i \in Nat /\ j \in Nat /\ k \in Nat /\ k <= i
      OBVIOUS
    <3> QED BY <1>4, <3>1
  <2>2. Cardinality(UpTo(i)) = Cardinality(UpTo(j))
    BY <1>4 DEF Rank
  <2>3. UpTo(j) = UpTo(i)
    BY <1>2, <2>1, <2>2, FS_Subset
  <2>4. j \in UpTo(j) /\ j \notin UpTo(i)
    BY <1>4
  <2> QED BY <2>3, <2>4
<1>5. \A i, j \in S : Rank(S, i) = Rank(S, j) => i = j
  BY <1>4
<1>6. \A n \in 1..Cardinality(S) : \E i \in S : Rank(S, i) = n
  <2> DEFINE N == 1..Cardinality(S)
             f == [i \in S |-> Rank(S, i)]
  <2>1. f \in [S -> N] /\ \A i, j \in S : f[i] = f[j] => i = j
    BY <1>3, <1>5
  <2>2. f \in Injection(S, N)
    BY <2>1, Fun_IsInj
  <2>3. IsFiniteSet(N) /\ Cardinality(N) = Cardinality(S)
    BY <1>1, FS_Interval
  <2>4. f \in Surjection(S, N)
    BY <2>2, <2>3, FS_Injection
  <2>5. \A n \in N : \E i \in S : f[i] = n
    BY <2>4 DEF Surjection
  <2> QED BY <2>5
<1> QED BY <1>1, <1>3, <1>5, <1>6

\* What dd_worker_init finds.
LEMMA Loads ==
    ASSUME RegTyped
    PROVE  LET C == Cardinality(Kept) IN
           /\ C \in Nat
           /\ Loadable \in [1..MaxWorkers -> [id : Nat, peer : Peers \cup {NoPeer}]]
           /\ \A n \in 1..MaxWorkers : n > C => Loadable[n] = EmptySlot
           /\ \A n \in 1..MaxWorkers : n <= C =>
                /\ Loadable[n].id \in Kept /\ Loadable[n] # EmptySlot
                /\ Loadable[n].peer = blobs[Loadable[n].id]
           /\ \A m, n \in 1..MaxWorkers :
                m <= C /\ n <= C /\ Loadable[m].id = Loadable[n].id => m = n
           /\ C <= MaxWorkers => \A i \in Kept : \E n \in 1..C : Loadable[n].id = i
<1> DEFINE C == Cardinality(Kept)
<1>1. MaxId \in Nat /\ MaxWorkers \in Nat
  BY AttributionAssumption
<1>2. Kept \in SUBSET Ids /\ Kept \subseteq Nat /\ IsFiniteSet(Kept)
  <2>1. Kept \in SUBSET (1..MaxId)
    BY DEF Kept, Ids
  <2>2. IsFiniteSet(1..MaxId)
    BY <1>1, FS_Interval
  <2>3. IsFiniteSet(Kept)
    BY <2>1, <2>2, FS_Subset
  <2> QED BY <2>1, <2>3, <1>1 DEF Ids
<1>3. /\ C \in Nat
      /\ \A i \in Kept : Rank(Kept, i) \in 1..C
      /\ \A i, j \in Kept : Rank(Kept, i) = Rank(Kept, j) => i = j
      /\ \A n \in 1..C : \E i \in Kept : Rank(Kept, i) = n
  BY <1>2, Ranking
<1> DEFINE at(n) == CHOOSE j \in Kept : Rank(Kept, j) = n
<1>4. Loadable = [n \in 1..MaxWorkers |->
                    IF n > C THEN EmptySlot ELSE [id |-> at(n), peer |-> blobs[at(n)]]]
  BY DEF Loadable, Kept, Rank
<1>5. \A n \in 1..C : at(n) \in Kept /\ Rank(Kept, at(n)) = n
  BY <1>3
<1>6. ASSUME NEW n \in 1..MaxWorkers, n <= C
      PROVE  /\ n \in 1..C /\ Loadable[n] = [id |-> at(n), peer |-> blobs[at(n)]]
             /\ at(n) \in Kept /\ Rank(Kept, at(n)) = n
  BY <1>1, <1>3, <1>4, <1>5, <1>6
<1> HIDE DEF at
<1>7. ASSUME NEW n \in 1..MaxWorkers, n > C PROVE Loadable[n] = EmptySlot
  BY <1>4, <1>7
<1>8. ASSUME NEW n \in 1..MaxWorkers, n <= C
      PROVE  /\ Loadable[n].id = at(n) /\ Loadable[n].peer = blobs[at(n)]
             /\ Loadable[n] # EmptySlot
  <2>1. Loadable[n] = [id |-> at(n), peer |-> blobs[at(n)]] /\ at(n) \in Kept
    BY <1>6, <1>8
  <2>2. at(n) # 0
    BY <1>1, <1>2, <2>1 DEF Ids
  <2> QED BY <2>1, <2>2 DEF EmptySlot
<1>9. Loadable \in [1..MaxWorkers -> [id : Nat, peer : Peers \cup {NoPeer}]]
  <2> SUFFICES ASSUME NEW n \in 1..MaxWorkers
               PROVE  Loadable[n] \in [id : Nat, peer : Peers \cup {NoPeer}]
    BY <1>4
  <2>1. CASE n > C
    BY <1>7, <2>1 DEF EmptySlot
  <2>2. CASE n <= C
    <3>1. Loadable[n] = [id |-> at(n), peer |-> blobs[at(n)]] /\ at(n) \in Kept
      BY <1>6, <2>2
    <3>2. at(n) \in Nat /\ blobs[at(n)] \in Peers \cup {NoPeer}
      BY <1>2, <3>1 DEF RegTyped
    <3> QED BY <3>1, <3>2
  <2> QED BY <1>1, <1>3, <2>1, <2>2
<1>10. ASSUME C <= MaxWorkers, NEW i \in Kept PROVE \E n \in 1..C : Loadable[n].id = i
  <2> DEFINE n == Rank(Kept, i)
  <2>1. n \in 1..C /\ n \in 1..MaxWorkers /\ n <= C
    BY <1>1, <1>3, <1>10
  <2>2. Loadable[n].id = at(n) /\ at(n) \in Kept /\ Rank(Kept, at(n)) = n
    BY <1>6, <1>8, <2>1
  <2>3. at(n) = i
    BY <1>3, <2>2
  <2> QED BY <2>1, <2>2, <2>3
<1>11. ASSUME NEW m \in 1..MaxWorkers, NEW n \in 1..MaxWorkers, m <= C, n <= C,
              Loadable[m].id = Loadable[n].id
       PROVE  m = n
  <2>1. Rank(Kept, at(m)) = m /\ Rank(Kept, at(n)) = n
    BY <1>6, <1>11
  <2>2. at(m) = at(n)
    BY <1>8, <1>11
  <2> QED BY <2>1, <2>2
<1> QED BY <1>3, <1>6, <1>7, <1>8, <1>9, <1>10, <1>11

\* There is room for all that a restart would find.
LEMMA RoomForAll == RegTyped /\ Known => Cardinality(Kept) <= MaxWorkers
<1> SUFFICES ASSUME RegTyped, Known PROVE Cardinality(Kept) <= MaxWorkers
  OBVIOUS
<1> DEFINE f == [i \in Kept |-> CHOOSE n \in 1..count : slots[n].id = i]
<1>1. \A i \in Kept : f[i] \in 1..count /\ slots[f[i]].id = i
  BY DEF Known
<1> HIDE DEF f
<1>2. DOMAIN f = Kept /\ f = [i \in Kept |-> f[i]]
  BY DEF f
<1>3. f \in [Kept -> 1..count] /\ \A i, j \in Kept : f[i] = f[j] => i = j
  BY <1>1, <1>2
<1>4. f \in Injection(Kept, 1..count)
  BY <1>3, Fun_IsInj
<1>5a. count <= MaxWorkers /\ count \in Nat /\ MaxWorkers \in Nat
  BY AttributionAssumption DEF RegTyped
<1>5. IsFiniteSet(1..count) /\ Cardinality(1..count) = count
  BY <1>5a, FS_Interval
<1>6. Cardinality(Kept) <= count /\ IsFiniteSet(Kept)
  BY <1>4, <1>5, FS_Injection
<1>7. Cardinality(Kept) \in Nat
  BY <1>6, FS_CardinalityType
<1> QED BY <1>5a, <1>5, <1>6, <1>7

\* One task's recording changes.
LEMMA OneRecording ==
    ASSUME RegTyped, NEW t \in Tasks, NEW r \in Recordings, rec' = [rec EXCEPT ![t] = r]
    PROVE  /\ rec' \in [Tasks -> Recordings]
           /\ \A u \in Tasks : rec'[u] = IF u = t THEN r ELSE rec[u]
BY DEF RegTyped

\* The registry is left as it is, and nobody stores or ceases to store a worker.
LEMMA SameRegistry ==
    ASSUME Agrees, \A n \in 1..count : slots'[n] = slots[n], count \in Nat,
           UNCHANGED <<count, next, blobs, nvsNext>>, outrun \subseteq outrun',
           Storing' = Storing, \A u \in Storing : rec'[u] = rec[u]
    PROVE  Agrees'
<1>1. Stored'
  BY DEF Agrees, Stored
<1>2. Unique'
  BY DEF Agrees, Unique
<1>3. Known'
  BY DEF Agrees, Known, Kept
<1>4. Behind'
  <2>1. count > 0 => count \in 1..count
    OBVIOUS
  <2>2. count > 0 => slots'[count'] = slots[count]
    BY <2>1
  <2> QED BY <2>2 DEF Agrees, Behind
<1> QED BY <1>1, <1>2, <1>3, <1>4 DEF Agrees

\* Nobody begins to look, and nobody turns to another phone.
LEMMA StillApart ==
    ASSUME Apart, UNCHANGED <<stamped, outrun>>,
           \A u \in Tasks : rec'[u].at # "idle" => rec[u].at # "idle" /\ rec'[u].peer = rec[u].peer,
           \A u \in Tasks : Looking(u)' => Looking(u)
    PROVE  Apart'
<1>1. \A u \in AutoTasks : u \in Tasks
  BY DEF Tasks
<1>2. \A u \in AutoTasks : Looking(u)' => rec'[u].peer = rec[u].peer
  BY <1>1 DEF Looking
<1>3. \A u \in AutoTasks : rec'[u].at # "idle" => rec'[u].peer \in Peers
  BY <1>1 DEF Apart
<1>4. \A u \in AutoTasks : Looking(u)' => rec'[u].peer \in stamped' \cup outrun'
  BY <1>1, <1>2 DEF Apart
<1>5. \A u, v \in AutoTasks : Looking(u)' /\ Looking(v)' /\ rec'[u].peer = rec'[v].peer =>
        u = v \/ rec'[u].peer \in outrun'
  BY <1>1, <1>2 DEF Apart
<1> QED BY <1>3, <1>4, <1>5 DEF Apart

\* A task goes on with the row it records, and leaves the registry as it is.
LEMMA GoesOn ==
    ASSUME RegInv, trusted' => trusted, NEW t \in Tasks, NEW r \in Recordings,
           rec' = [rec EXCEPT ![t] = r],
           rec[t].at \notin {"idle", "store"}, r.at \in {"create", "append", "idle"},
           r.at # "idle" => r.peer = rec[t].peer,
           t = "http" => r.at # "create",
           r.at = "create" => rec[t].at = "find" /\ \A n \in 1..count : slots[n].peer # r.peer,
           slots' \in [1..MaxWorkers -> [id : Nat, peer : Peers \cup {NoPeer}]],
           \A n \in 1..count : slots'[n] = slots[n],
           UNCHANGED <<count, next, blobs, nvsNext, bonded, del, stamped, outrun>>
    PROVE  RegInv'
<1>1. /\ rec' \in [Tasks -> Recordings]
      /\ \A u \in Tasks : rec'[u] = IF u = t THEN r ELSE rec[u]
  BY OneRecording DEF RegInv
<1>2. RegTyped'
  BY <1>1 DEF RegInv, RegTyped
<1>3. /\ \A u \in Tasks : rec'[u].at # "idle" => rec[u].at # "idle" /\ rec'[u].peer = rec[u].peer
      /\ \A u \in Tasks : Looking(u)' => Looking(u)
  BY <1>1 DEF Looking
<1>4. Apart'
  BY <1>3, StillApart DEF RegInv, Recording
<1>5. ByHand'
  <2>1. "http" \in Tasks
    BY DEF Tasks
  <2>2. CASE t = "http"
    <3>1. rec'["http"] = r /\ r.at \in {"append", "idle"} /\ rec["http"].at # "idle"
      BY <1>1, <2>1, <2>2
    <3> QED BY <3>1 DEF RegInv, Recording, ByHand
  <2>3. CASE t # "http"
    <3>1. rec'["http"] = rec["http"]
      BY <1>1, <2>1, <2>3
    <3> QED BY <3>1 DEF RegInv, Recording, ByHand
  <2> QED BY <2>2, <2>3
<1>6. NotFound'
  <2> SUFFICES ASSUME NEW u \in Tasks, NEW n \in 1..count, rec'[u].at = "create"
               PROVE  slots'[n].peer # rec'[u].peer \/ rec'[u].peer \in outrun'
    BY DEF NotFound
  <2> QED BY <1>1 DEF RegInv, Recording, NotFound
<1>7. trusted' => Agrees'
  <2>1. Storing' = Storing /\ \A u \in Storing : rec'[u] = rec[u]
    BY <1>1 DEF Storing
  <2>2. count \in Nat
    BY AttributionAssumption DEF RegInv, RegTyped
  <2> QED BY <2>1, <2>2, SameRegistry DEF RegInv
<1> QED BY <1>2, <1>4, <1>5, <1>6, <1>7 DEF RegInv, Recording

\* Between the two writes: the worker is in RAM and in NVS, its id still hidden.
LEMMA SavesWorker ==
    ASSUME RegInv, trusted' => trusted, NEW t \in Tasks, SaveWorker(t) PROVE RegInv'
<1> DEFINE r == [rec[t] EXCEPT !.at = "store", !.slot = count + 1]
<1>1. /\ count \in Nat /\ count + 1 \in 1..MaxWorkers /\ MaxWorkers \in Nat
      /\ next \in Nat \ {0} /\ nvsNext \in Nat \ {0} /\ next \in Ids /\ MaxId \in Nat
  BY AttributionAssumption DEF RegInv, RegTyped, SaveWorker, Ids
<1>2. rec[t] \in Recordings /\ rec[t].at = "create" /\ Storing = {}
  BY NobodyStores DEF RegInv, RegTyped, SaveWorker
<1>3. t # "http" /\ t \in AutoTasks /\ rec[t].peer \in Peers
  BY <1>2 DEF RegInv, Recording, Apart, ByHand, Tasks
<1>4. r \in Recordings /\ r.at = "store" /\ r.peer = rec[t].peer /\ r.slot = count + 1
  BY <1>1, <1>2 DEF Recordings
<1>5. /\ rec' = [rec EXCEPT ![t] = r] /\ count' = count + 1 /\ next' = next + 1
      /\ slots' = [slots EXCEPT ![count + 1] = Created(t)]
      /\ blobs' = [blobs EXCEPT ![next] = rec[t].peer]
      /\ UNCHANGED <<nvsNext, bonded, del, stamped, outrun>>
  BY DEF SaveWorker, debounce
<1> HIDE DEF r
<1>6. /\ rec' \in [Tasks -> Recordings]
      /\ \A u \in Tasks : rec'[u] = IF u = t THEN r ELSE rec[u]
  BY <1>4, <1>5, OneRecording DEF RegInv
<1>7. Created(t) = [id |-> next, peer |-> rec[t].peer]
  BY DEF Created
<1>8. /\ \A n \in 1..count : slots'[n] = slots[n]
      /\ slots'[count + 1].id = next /\ slots'[count + 1].peer = rec[t].peer
  BY <1>1, <1>5, <1>7 DEF RegInv, RegTyped
<1>9. \A i \in Ids : blobs'[i] = IF i = next THEN rec[t].peer ELSE blobs[i]
  BY <1>5 DEF RegInv, RegTyped
<1>10. \A n \in 1..count' : n \in 1..count \/ n = count + 1
  BY <1>1, <1>5
<1>11. 1..count \subseteq 1..count'
  BY <1>1, <1>5
<1>12. RegTyped'
  <2>1. Created(t) \in [id : Nat, peer : Peers \cup {NoPeer}]
    BY <1>1, <1>3, <1>7
  <2>2. slots' \in [1..MaxWorkers -> [id : Nat, peer : Peers \cup {NoPeer}]]
    BY <1>5, <2>1 DEF RegInv, RegTyped
  <2>3. count' \in 0..MaxWorkers /\ next' \in Nat \ {0} /\ nvsNext' \in Nat \ {0}
    BY <1>1, <1>5
  <2>4. blobs' \in [Ids -> Peers \cup {NoPeer}]
    BY <1>3, <1>5 DEF RegInv, RegTyped
  <2> QED BY <1>5, <1>6, <2>2, <2>3, <2>4 DEF RegInv, RegTyped
<1>13. /\ \A u \in Tasks : rec'[u].at # "idle" => rec[u].at # "idle" /\ rec'[u].peer = rec[u].peer
       /\ \A u \in Tasks : Looking(u)' => Looking(u)
  BY <1>2, <1>4, <1>6 DEF Looking
<1>14. Apart'
  BY <1>5, <1>13, StillApart DEF RegInv, Recording
<1>15. ByHand'
  <2>1. rec'["http"] = rec["http"]
    BY <1>3, <1>6 DEF Tasks
  <2> QED BY <1>5, <1>8, <1>11, <2>1 DEF RegInv, Recording, ByHand
<1>16. NotFound'
  <2> SUFFICES ASSUME NEW u \in Tasks, NEW n \in 1..count', rec'[u].at = "create"
               PROVE  slots'[n].peer # rec'[u].peer \/ rec'[u].peer \in outrun'
    BY DEF NotFound
  <2>1. u # t /\ rec'[u] = rec[u] /\ rec[u].at = "create"
    BY <1>4, <1>6
  <2>2. CASE n \in 1..count
    BY <1>5, <1>8, <2>1, <2>2 DEF RegInv, Recording, NotFound
  <2>3. CASE n = count + 1
    <3>1. u \in AutoTasks
      BY <2>1 DEF RegInv, Recording, ByHand, Tasks
    <3>2. rec[u].peer # rec[t].peer \/ rec[u].peer \in outrun
      BY <1>2, <1>3, <2>1, <3>1 DEF RegInv, Recording, Apart, Looking
    <3> QED BY <1>5, <1>8, <2>1, <2>3, <3>2
  <2> QED BY <1>10, <2>2, <2>3
<1>17. ASSUME Agrees PROVE Agrees'
  <2>1. next = nvsNext
    BY <1>2, <1>17 DEF Agrees, Behind
  <2>2. Stored'
    <3> SUFFICES ASSUME NEW n \in 1..count'
                 PROVE  /\ slots'[n].peer \in Peers
                        /\ slots'[n].id \in Ids /\ slots'[n].id < next'
                        /\ blobs'[slots'[n].id] = slots'[n].peer
      BY DEF Stored
    <3>1. CASE n \in 1..count
      <4>1. /\ slots'[n] = slots[n] /\ slots[n].peer \in Peers
            /\ slots[n].id \in Ids /\ slots[n].id < next /\ blobs[slots[n].id] = slots[n].peer
        BY <1>8, <1>17, <3>1 DEF Agrees, Stored
      <4>2. slots[n].id \in Nat
        BY <1>1, <4>1 DEF Ids
      <4> QED BY <1>1, <1>5, <1>9, <4>1, <4>2
    <3>2. CASE n = count + 1
      <4>1. blobs'[next] = rec[t].peer
        BY <1>1, <1>9
      <4>2. next < next'
        BY <1>1, <1>5
      <4> QED BY <1>1, <1>3, <1>8, <3>2, <4>1, <4>2
    <3> QED BY <1>10, <3>1, <3>2
  <2>3. \A n \in 1..count : /\ slots'[n].id # next
                            /\ slots'[n].peer # rec[t].peer \/ rec[t].peer \in outrun
    <3> SUFFICES ASSUME NEW n \in 1..count
                 PROVE  /\ slots'[n].id # next
                        /\ slots'[n].peer # rec[t].peer \/ rec[t].peer \in outrun
      OBVIOUS
    <3>1. slots[n].id \in Ids /\ slots[n].id < next
      BY <1>17 DEF Agrees, Stored
    <3>2. slots[n].id # next
      BY <1>1, <3>1 DEF Ids
    <3>3. slots[n].peer # rec[t].peer \/ rec[t].peer \in outrun
      BY <1>2 DEF RegInv, Recording, NotFound
    <3> QED BY <1>8, <3>2, <3>3
  <2>4. Unique'
    <3> SUFFICES ASSUME NEW m \in 1..count', NEW n \in 1..count'
                 PROVE  /\ slots'[m].id = slots'[n].id => m = n
                        /\ slots'[m].peer = slots'[n].peer =>
                             m = n \/ slots'[m].peer \in outrun'
      BY DEF Unique
    <3>1. CASE m \in 1..count /\ n \in 1..count
      BY <1>5, <1>8, <1>17, <3>1 DEF Agrees, Unique
    <3>2. CASE m = count + 1 /\ n \in 1..count
      <4>1. slots'[m].id = next /\ slots'[m].peer = rec[t].peer
        BY <1>8, <3>2
      <4>2. slots'[n].id # next /\ (slots'[n].peer # rec[t].peer \/ rec[t].peer \in outrun)
        BY <2>3, <3>2
      <4>3. outrun' = outrun
        BY <1>5
      <4> QED BY <4>1, <4>2, <4>3, Zenon
    <3>3. CASE m \in 1..count /\ n = count + 1
      <4>1. slots'[n].id = next /\ slots'[n].peer = rec[t].peer
        BY <1>8, <3>3
      <4>2. slots'[m].id # next /\ (slots'[m].peer # rec[t].peer \/ rec[t].peer \in outrun)
        BY <2>3, <3>3
      <4>3. outrun' = outrun
        BY <1>5
      <4> QED BY <4>1, <4>2, <4>3, Zenon
    <3> QED BY <1>10, <3>1, <3>2, <3>3
  <2>5. Known'
    <3>1. Kept' \subseteq Kept
      <4> SUFFICES ASSUME NEW i \in Kept' PROVE i \in Kept
        OBVIOUS
      <4>1. i \in Ids /\ i < nvsNext /\ blobs'[i] # NoPeer
        BY <1>5 DEF Kept
      <4>2. i # next
        BY <1>1, <2>1, <4>1 DEF Ids
      <4> QED BY <1>9, <4>1, <4>2 DEF Kept
    <3>2. ASSUME NEW i \in Kept' PROVE \E n \in 1..count' : slots'[n].id = i
      <4>1. PICK n \in 1..count : slots[n].id = i
        BY <1>17, <3>1 DEF Agrees, Known
      <4> QED BY <1>8, <1>11, <4>1
    <3> QED BY <3>2 DEF Known
  <2>6. Behind'
    <3>1. Storing' = {t}
      BY <1>2, <1>4, <1>6 DEF Storing
    <3>2. rec'[t].slot = count' /\ slots'[count'].id = nvsNext' /\ next' = nvsNext' + 1 /\ count' > 0
      BY <1>1, <1>4, <1>5, <1>6, <1>8, <2>1
    <3> QED BY <3>1, <3>2 DEF Behind
  <2> QED BY <2>2, <2>4, <2>5, <2>6 DEF Agrees
<1> QED BY <1>12, <1>14, <1>15, <1>16, <1>17 DEF RegInv, Recording

\* The second write: the id is hidden no longer.
LEMMA StoresNext ==
    ASSUME RegInv, trusted' => trusted, NEW t \in Tasks, StoreNext(t) PROVE RegInv'
<1> DEFINE r == [rec[t] EXCEPT !.at = "read"]
<1>1. /\ count \in Nat /\ next \in Nat \ {0} /\ nvsNext \in Nat \ {0}
      /\ rec[t] \in Recordings /\ rec[t].at = "store" /\ t \in Storing
  BY AttributionAssumption DEF RegInv, RegTyped, StoreNext, Storing
<1>2. t # "http"
  BY <1>1 DEF RegInv, Recording, ByHand
<1>3. r \in Recordings /\ r.at = "read" /\ r.peer = rec[t].peer
  BY <1>1 DEF Recordings
<1>4. rec' = [rec EXCEPT ![t] = r] /\ UNCHANGED <<slots, count, next, blobs, bonded, del, stamped, outrun>>
  BY DEF StoreNext, debounce
<1>5. nvsNext' \in {next, nvsNext}
  BY DEF StoreNext, StoredNext
<1>6. trusted' => nvsNext' = next
  BY Zenon DEF StoreNext, StoredNext
<1> HIDE DEF r
<1>7. /\ rec' \in [Tasks -> Recordings]
      /\ \A u \in Tasks : rec'[u] = IF u = t THEN r ELSE rec[u]
  BY <1>3, <1>4, OneRecording DEF RegInv
<1>8. RegTyped'
  BY <1>1, <1>4, <1>5, <1>7 DEF RegInv, RegTyped
<1>9. /\ \A u \in Tasks : rec'[u].at # "idle" => rec[u].at # "idle" /\ rec'[u].peer = rec[u].peer
      /\ \A u \in Tasks : Looking(u)' => Looking(u)
  BY <1>1, <1>3, <1>7 DEF Looking
<1>10. Apart'
  BY <1>4, <1>9, StillApart DEF RegInv, Recording
<1>11. ByHand'
  <2>1. rec'["http"] = rec["http"]
    BY <1>2, <1>7 DEF Tasks
  <2> QED BY <1>4, <2>1 DEF RegInv, Recording, ByHand
<1>12. NotFound'
  BY <1>3, <1>4, <1>7 DEF RegInv, Recording, NotFound
<1>13. ASSUME Agrees, nvsNext' = next PROVE Agrees'
  <2>1. /\ next = nvsNext + 1 /\ count > 0 /\ slots[count].id = nvsNext
        /\ \A u \in Storing : u = t
    BY <1>1, <1>13 DEF Agrees, Behind
  <2>2. Stored' /\ Unique'
    BY <1>4, <1>13 DEF Agrees, Stored, Unique
  <2>3. Known'
    <3> SUFFICES ASSUME NEW i \in Kept' PROVE \E n \in 1..count : slots[n].id = i
      BY <1>4 DEF Known
    <3>1. i \in Ids /\ i < next /\ blobs[i] # NoPeer /\ i \in Nat
      BY <1>4, <1>13, AttributionAssumption DEF Kept, Ids
    <3>2. CASE i = nvsNext
      BY <1>1, <2>1, <3>2
    <3>3. CASE i < nvsNext
      BY <1>13, <3>1, <3>3 DEF Kept, Agrees, Known
    <3> QED BY <1>1, <2>1, <3>1, <3>2, <3>3
  <2>4. Storing' = {}
    BY <1>3, <1>7, <2>1 DEF Storing
  <2>5. Behind'
    BY <1>4, <1>13, <2>4 DEF Behind
  <2> QED BY <2>2, <2>3, <2>5 DEF Agrees
<1> QED BY <1>6, <1>8, <1>10, <1>11, <1>12, <1>13 DEF RegInv, Recording

\* The last worker takes the place of the deleted one.
LEMMA DeletesWorker ==
    ASSUME RegInv, trusted' => trusted, DeleteWorker PROVE RegInv'
<1>1. PICK n \in 1..count :
        /\ slots[n].id = del.id
        /\ slots' = [slots EXCEPT ![n] = slots[count], ![count] = EmptySlot]
        /\ count' = count - 1 /\ next' = next
        /\ blobs' = [blobs EXCEPT ![del.id] = NoPeer] \/ blobs' = blobs
        /\ trusted' => blobs' = [blobs EXCEPT ![del.id] = NoPeer]
  <2>1. ASSUME NEW n \in 1..count,
               \/ blobs' = [blobs EXCEPT ![del.id] = NoPeer] /\ gone' = gone \cup {del.id}
                  /\ UNCHANGED trusted
               \/ "erase" \in Faults /\ trusted' = FALSE
                  /\ gone' \in {gone, gone \cup {del.id}} /\ UNCHANGED blobs
        PROVE  /\ blobs' = [blobs EXCEPT ![del.id] = NoPeer] \/ blobs' = blobs
               /\ trusted' => blobs' = [blobs EXCEPT ![del.id] = NoPeer]
    BY <2>1, Zenon
  <2> QED BY <2>1, Zenon DEF DeleteWorker, NextAfterDeletion
<1>2. /\ count \in Nat /\ MaxWorkers \in Nat /\ count <= MaxWorkers /\ count \in 1..MaxWorkers
      /\ n \in Nat /\ 1 <= n /\ n <= count /\ n \in 1..MaxWorkers /\ count' \in 0..MaxWorkers
  BY <1>1, AttributionAssumption DEF RegInv, RegTyped
<1>3. Storing = {} /\ del.at = "worker" /\ UNCHANGED <<nvsNext, bonded, rec, stamped, outrun>>
  BY NobodyStores DEF DeleteWorker, debounce
<1>4. rec["http"].at = "idle"
  BY <1>3 DEF RegInv, Recording, ByHand
<1> DEFINE src(m) == IF m = n THEN count ELSE m
<1>5. ASSUME NEW m \in 1..count'
      PROVE  m \in 1..count /\ src(m) \in 1..count /\ src(m) # n /\ slots'[m] = slots[src(m)]
  <2>1. m \in Nat /\ 1 <= m /\ m < count
    BY <1>1, <1>2
  <2>2. src(m) \in 1..count /\ src(m) # n /\ m \in 1..MaxWorkers
    BY <1>2, <2>1
  <2>3. slots'[m] = slots[src(m)]
    BY <1>1, <1>2, <2>1, <2>2 DEF RegInv, RegTyped
  <2> QED BY <1>2, <2>1, <2>2, <2>3
<1>6. \A l, m \in 1..count' : src(l) = src(m) => l = m
  BY <1>1, <1>2
<1>7. \A k \in 1..count : k # n => \E m \in 1..count' : src(m) = k
  <2> SUFFICES ASSUME NEW k \in 1..count, k # n PROVE \E m \in 1..count' : src(m) = k
    OBVIOUS
  <2>1. CASE k = count
    <3>1. n \in 1..count' /\ src(n) = k
      BY <1>1, <1>2, <2>1
    <3> QED BY <3>1
  <2>2. CASE k # count
    <3>1. k \in 1..count' /\ src(k) = k
      BY <1>1, <1>2, <2>2
    <3> QED BY <3>1
  <2> QED BY <2>1, <2>2
<1> HIDE DEF src
<1>8. RegTyped'
  <2>1. EmptySlot \in [id : Nat, peer : Peers \cup {NoPeer}]
    BY DEF EmptySlot
  <2>2. slots' \in [1..MaxWorkers -> [id : Nat, peer : Peers \cup {NoPeer}]]
    BY <1>1, <1>2, <2>1 DEF RegInv, RegTyped
  <2>3. blobs' \in [Ids -> Peers \cup {NoPeer}]
    BY <1>1 DEF RegInv, RegTyped
  <2> QED BY <1>1, <1>2, <1>3, <2>2, <2>3 DEF RegInv, RegTyped
<1>9. Apart' /\ ByHand'
  BY <1>3, <1>4 DEF RegInv, Recording, Apart, ByHand, Looking
<1>10. NotFound'
  BY <1>3, <1>5 DEF RegInv, Recording, NotFound
<1>11. ASSUME Agrees, blobs' = [blobs EXCEPT ![del.id] = NoPeer] PROVE Agrees'
  <2>1. \A i \in Ids : blobs'[i] = IF i = slots[n].id THEN NoPeer ELSE blobs[i]
    BY <1>1, <1>11 DEF RegInv, RegTyped
  <2>2. Stored'
    <3> SUFFICES ASSUME NEW m \in 1..count'
                 PROVE  /\ slots'[m].peer \in Peers
                        /\ slots'[m].id \in Ids /\ slots'[m].id < next'
                        /\ blobs'[slots'[m].id] = slots'[m].peer
      BY DEF Stored
    <3>1. src(m) \in 1..count /\ src(m) # n /\ slots'[m] = slots[src(m)]
      BY <1>5
    <3>2. slots[src(m)].id # slots[n].id
      BY <1>1, <1>11, <3>1 DEF Agrees, Unique
    <3> QED BY <1>1, <1>11, <2>1, <3>1, <3>2 DEF Agrees, Stored
  <2>3. Unique'
    BY <1>3, <1>5, <1>6, <1>11 DEF Agrees, Unique
  <2>4. Known'
    <3> SUFFICES ASSUME NEW i \in Kept' PROVE \E m \in 1..count' : slots'[m].id = i
      BY DEF Known
    <3>1. i \in Kept /\ i # slots[n].id
      BY <1>3, <2>1 DEF Kept
    <3>2. PICK k \in 1..count : slots[k].id = i
      BY <1>11, <3>1 DEF Agrees, Known
    <3> QED BY <1>5, <1>7, <3>1, <3>2
  <2>5. Behind'
    <3>1. Storing' = {}
      BY <1>3 DEF Storing
    <3> QED BY <1>1, <1>3, <1>11, <3>1 DEF Agrees, Behind
  <2> QED BY <2>2, <2>3, <2>4, <2>5 DEF Agrees
<1> QED BY <1>1, <1>8, <1>9, <1>10, <1>11 DEF RegInv, Recording

\* A restart reads back what NVS holds.
LEMMA ReadsBack ==
    ASSUME RegInv, trusted' => trusted, Restart PROVE RegInv'
<1> DEFINE C == Cardinality(Kept)
           S == {n \in 1..MaxWorkers : Loadable[n] # EmptySlot}
<1>1. /\ C \in Nat
      /\ Loadable \in [1..MaxWorkers -> [id : Nat, peer : Peers \cup {NoPeer}]]
      /\ \A n \in 1..MaxWorkers : n > C => Loadable[n] = EmptySlot
      /\ \A n \in 1..MaxWorkers : n <= C =>
           /\ Loadable[n].id \in Kept /\ Loadable[n] # EmptySlot
           /\ Loadable[n].peer = blobs[Loadable[n].id]
      /\ \A m, n \in 1..MaxWorkers :
           m <= C /\ n <= C /\ Loadable[m].id = Loadable[n].id => m = n
      /\ C <= MaxWorkers => \A i \in Kept : \E n \in 1..C : Loadable[n].id = i
  BY Loads DEF RegInv
<1>2. MaxWorkers \in Nat /\ nvsNext \in Nat \ {0}
  BY AttributionAssumption DEF RegInv, RegTyped
<1>3. /\ slots' = Loadable /\ count' = Cardinality(S) /\ next' = nvsNext
      /\ rec' = [t \in Tasks |-> AtRest] /\ del' = NoDeletion
      /\ UNCHANGED <<blobs, nvsNext, bonded, outrun>>
  BY DEF Restart
<1> HIDE DEF C
<1>4. \A n \in 1..MaxWorkers : n \in S <=> n <= C
  BY <1>1, <1>2
<1>5. ASSUME NEW k \in Nat, k <= MaxWorkers, S = 1..k PROVE count' = k
  <2>1. Cardinality(1..k) = IF 1 > k THEN 0 ELSE k - 1 + 1
    BY <1>5, FS_Interval
  <2>2. (IF 1 > k THEN 0 ELSE k - 1 + 1) = k
    BY <1>5
  <2> QED BY <1>3, <1>5, <2>1, <2>2
<1>6. count' \in 0..MaxWorkers /\ count' <= C /\ (C <= MaxWorkers => count' = C)
  <2>1. CASE C <= MaxWorkers
    <3>1. S = 1..C
      BY <1>1, <1>2, <1>4, <2>1
    <3>2. count' = C
      BY <1>1, <1>5, <2>1, <3>1
    <3> QED BY <1>1, <1>2, <2>1, <3>2
  <2>2. CASE C > MaxWorkers
    <3>1. S = 1..MaxWorkers
      BY <1>1, <1>2, <1>4, <2>2
    <3>2. count' = MaxWorkers
      BY <1>2, <1>5, <3>1
    <3> QED BY <1>1, <1>2, <2>2, <3>2
  <2> QED BY <1>1, <1>2, <2>1, <2>2
<1> HIDE DEF S
<1>7. \A n \in 1..count' : n \in 1..MaxWorkers /\ n <= C
  BY <1>1, <1>2, <1>6
<1>8. \A t \in Tasks : rec'[t].at = "idle"
  BY <1>3 DEF AtRest
<1>9. RegTyped'
  <2>1. AtRest \in Recordings
    BY <1>2, AttributionAssumption DEF AtRest, Recordings
  <2> QED BY <1>1, <1>2, <1>3, <1>6, <2>1 DEF RegInv, RegTyped
<1>10. Recording'
  BY <1>8 DEF Recording, Apart, ByHand, NotFound, Looking, Tasks
<1>11. ASSUME Agrees PROVE Agrees'
  <2>1. C <= MaxWorkers /\ count' = C
    BY <1>6, <1>11, RoomForAll DEF RegInv, Agrees, C
  <2>2. \A i \in Kept : i \in Ids /\ i < nvsNext /\ blobs[i] # NoPeer /\ blobs[i] \in Peers
    BY DEF Kept, RegInv, RegTyped
  <2>3. Stored'
    BY <1>1, <1>3, <1>7, <2>2 DEF Stored
  <2>4. Unique'
    <3> SUFFICES ASSUME NEW m \in 1..count', NEW n \in 1..count'
                 PROVE  /\ slots'[m].id = slots'[n].id => m = n
                        /\ slots'[m].peer = slots'[n].peer =>
                             m = n \/ slots'[m].peer \in outrun'
      BY DEF Unique
    <3>1. /\ m \in 1..MaxWorkers /\ m <= C /\ n \in 1..MaxWorkers /\ n <= C
          /\ Loadable[m].id \in Kept /\ Loadable[n].id \in Kept
          /\ Loadable[m].peer = blobs[Loadable[m].id] /\ Loadable[n].peer = blobs[Loadable[n].id]
      BY <1>1, <1>7
    <3>2. ASSUME NEW i \in Kept, NEW j \in Kept, blobs[i] = blobs[j]
          PROVE  i = j \/ blobs[i] \in outrun
      <4>1. PICK k \in 1..count : slots[k].id = i
        BY <1>11 DEF Agrees, Known
      <4>2. PICK l \in 1..count : slots[l].id = j
        BY <1>11 DEF Agrees, Known
      <4>3. slots[k].peer = slots[l].peer /\ slots[k].peer = blobs[i]
        BY <1>11, <3>2, <4>1, <4>2 DEF Agrees, Stored
      <4> QED BY <1>11, <4>1, <4>2, <4>3 DEF Agrees, Unique
    <3>3. Loadable[m].peer = Loadable[n].peer =>
            Loadable[m].id = Loadable[n].id \/ Loadable[m].peer \in outrun
      BY <3>1, <3>2
    <3> QED BY <1>1, <1>3, <3>1, <3>3
  <2>5. Known'
    BY <1>1, <1>3, <2>1 DEF Known, Kept
  <2>6. Behind'
    BY <1>3, <1>8 DEF Behind, Storing
  <2> QED BY <2>3, <2>4, <2>5, <2>6 DEF Agrees
<1> QED BY <1>9, <1>10, <1>11 DEF RegInv

\* A task begins to record a phone.
LEMMA Starts ==
    ASSUME RegInv, trusted' => trusted, NEW t \in Tasks, NEW p \in Peers \cup {NoPeer}, Start(t, p),
           t \in AutoTasks => p \in Peers \ stamped /\ stamped' = stamped \cup {p},
           t = "http" => stamped' = stamped,
           t = "http" => del.at = "idle" /\ \E n \in 1..count : slots[n].peer = p
    PROVE  RegInv'
<1> DEFINE r == [AtRest EXCEPT !.at = "find", !.peer = p]
<1>1. r \in Recordings /\ r.at = "find" /\ r.peer = p
  <2>1. AtRest \in Recordings
    BY AttributionAssumption DEF AtRest, Recordings
  <2> QED BY <2>1 DEF Recordings
<1>2. rec[t].at = "idle" /\ rec' = [rec EXCEPT ![t] = r]
  BY DEF Start
<1>3. slots' = slots /\ UNCHANGED <<count, next, blobs, nvsNext, bonded, del, outrun>>
  BY DEF Start, registry
<1> HIDE DEF r
<1>4. /\ rec' \in [Tasks -> Recordings]
      /\ \A u \in Tasks : rec'[u] = IF u = t THEN r ELSE rec[u]
  BY <1>1, <1>2, OneRecording DEF RegInv
<1>5. RegTyped'
  BY <1>3, <1>4 DEF RegInv, RegTyped
<1>6. Apart'
  <2>1. CASE t = "http"
    <3>1. \A u \in AutoTasks : rec'[u] = rec[u]
      BY <1>4, <2>1 DEF AutoTasks, Tasks
    <3> QED BY <1>3, <2>1, <3>1 DEF RegInv, Recording, Apart, Looking
  <2>2. CASE t \in AutoTasks
    <3>1. \A u \in AutoTasks : u \in Tasks /\ (u # t => rec'[u] = rec[u])
      BY <1>4 DEF Tasks
    <3>2. rec'[t].peer = p /\ rec'[t].at = "find" /\ p \in Peers \ stamped
          /\ stamped' = stamped \cup {p}
      BY <1>1, <1>4, <2>2
    <3>3. \A u \in AutoTasks : u # t /\ Looking(u)' => Looking(u) /\ rec[u].peer \in stamped \cup outrun
      BY <3>1 DEF RegInv, Recording, Apart, Looking
    <3>4. \A u \in AutoTasks : rec'[u].at # "idle" => rec'[u].peer \in Peers
      BY <3>1, <3>2 DEF RegInv, Recording, Apart
    <3>5. \A u \in AutoTasks : Looking(u)' => rec'[u].peer \in stamped' \cup outrun'
      BY <1>3, <3>1, <3>2, <3>3
    <3>6. \A u, v \in AutoTasks : Looking(u)' /\ Looking(v)' /\ rec'[u].peer = rec'[v].peer =>
            u = v \/ rec'[u].peer \in outrun'
      BY <1>3, <3>1, <3>2, <3>3 DEF RegInv, Recording, Apart
    <3> QED BY <3>4, <3>5, <3>6 DEF Apart
  <2> QED BY <2>1, <2>2 DEF Tasks
<1>7. ByHand'
  <2>1. CASE t = "http"
    BY <1>1, <1>3, <1>4, <2>1 DEF ByHand
  <2>2. CASE t # "http"
    <3>1. rec'["http"] = rec["http"]
      BY <1>4, <2>2 DEF Tasks
    <3> QED BY <1>3, <3>1 DEF RegInv, Recording, ByHand
  <2> QED BY <2>1, <2>2
<1>8. NotFound'
  BY <1>1, <1>3, <1>4 DEF RegInv, Recording, NotFound
<1>9. ASSUME Agrees PROVE Agrees'
  <2>1. Storing' = Storing /\ \A u \in Storing : rec'[u] = rec[u]
    BY <1>1, <1>2, <1>4 DEF Storing
  <2>2. count \in Nat
    BY AttributionAssumption DEF RegInv, RegTyped
  <2> QED BY <1>3, <1>9, <2>1, <2>2, SameRegistry
<1> QED BY <1>5, <1>6, <1>7, <1>8, <1>9 DEF RegInv, Recording

\* Nothing happens to the registry and to the recordings.
LEMMA Elsewhere ==
    ASSUME RegInv, trusted' => trusted, UNCHANGED <<registry, rec>>, bonded' \subseteq Peers,
           UNCHANGED <<stamped, outrun>>,
           rec["http"].at # "idle" => del' = del
    PROVE  RegInv'
<1>1. UNCHANGED <<slots, count, next, blobs, nvsNext, rec>>
  BY DEF registry
<1>2. RegTyped'
  BY <1>1 DEF RegInv, RegTyped
<1>3. Recording'
  BY <1>1 DEF RegInv, Recording, Apart, ByHand, NotFound, Looking
<1>4. Agrees => Agrees'
  <2>1. Storing' = Storing
    BY <1>1 DEF Storing
  <2>2. count \in Nat
    BY AttributionAssumption DEF RegInv, RegTyped
  <2> QED BY <1>1, <2>1, <2>2, SameRegistry
<1> QED BY <1>2, <1>3, <1>4 DEF RegInv

\* A phone's stamp goes; if somebody is still looking for its worker, it is outrun.
LEMMA Forgets ==
    ASSUME RegInv, NEW p \in Peers, Forget(p) PROVE RegInv'
<1>1. /\ UNCHANGED <<slots, count, next, blobs, nvsNext, rec, bonded, del, trusted>>
      /\ stamped' = stamped \ {p} /\ outrun \subseteq outrun'
      /\ Unlooked(p) => p \in outrun'
  BY DEF Forget, registry
<1>2. RegTyped'
  BY <1>1 DEF RegInv, RegTyped
<1>3. Apart'
  <2>1. \A t \in AutoTasks : Looking(t)' => Looking(t) /\ rec'[t] = rec[t]
    BY <1>1 DEF Looking
  <2>2. \A t \in AutoTasks : Looking(t) /\ rec[t].peer = p => p \in outrun'
    BY <1>1 DEF Unlooked, Looking
  <2> QED BY <1>1, <2>1, <2>2 DEF RegInv, Recording, Apart
<1>4. ByHand' /\ NotFound'
  BY <1>1 DEF RegInv, Recording, ByHand, NotFound
<1>5. Agrees => Agrees'
  <2>1. Storing' = Storing
    BY <1>1 DEF Storing
  <2>2. count \in Nat
    BY AttributionAssumption DEF RegInv, RegTyped
  <2> QED BY <1>1, <2>1, <2>2, SameRegistry
<1> QED BY <1>1, <1>2, <1>3, <1>4, <1>5 DEF RegInv, Recording

\* A fresh device has no workers.
LEMMA InitRegistry == Init => RegInv
<1> SUFFICES ASSUME Init PROVE RegInv
  OBVIOUS
<1>1. EmptySlot \in [id : Nat, peer : Peers \cup {NoPeer}] /\ AtRest \in Recordings
  BY AttributionAssumption DEF EmptySlot, AtRest, Recordings
<1>2. RegTyped
  BY <1>1, AttributionAssumption DEF Init, RegTyped
<1>3. \A t \in Tasks : rec[t].at = "idle"
  BY DEF Init, AtRest
<1>4. Recording
  BY <1>3 DEF Recording, Apart, ByHand, NotFound, Looking, Tasks
<1>5. 1..count = {} /\ Storing = {} /\ Kept = {} /\ next = nvsNext
  BY <1>3 DEF Init, Storing, Kept
<1>6. Agrees
  BY <1>5 DEF Agrees, Stored, Unique, Known, Behind
<1> QED BY <1>2, <1>4, <1>6 DEF RegInv

\* Every step keeps the registry in RAM and the one in NVS together.
LEMMA NextRegistry == RegInv /\ [Next]_vars => RegInv'
<1> SUFFICES ASSUME RegInv, [Next]_vars PROVE RegInv'
  OBVIOUS
<1>t. trusted' => trusted
  BY TrustFades, Zenon
<1>s. /\ slots \in [1..MaxWorkers -> [id : Nat, peer : Peers \cup {NoPeer}]]
      /\ \A t \in Tasks : rec[t] \in Recordings
      /\ count \in Nat /\ \A n \in 1..count : n \in 1..MaxWorkers
      /\ bonded \subseteq Peers
  BY AttributionAssumption DEF RegInv, RegTyped
<1>1. ASSUME NEW t \in Tasks, NEW r \in Recordings, rec' = [rec EXCEPT ![t] = r],
             rec[t].at \notin {"idle", "store"}, r.at \in {"create", "append", "idle"},
             r.at # "idle" => r.peer = rec[t].peer,
             t = "http" => r.at # "create",
             r.at = "create" => rec[t].at = "find" /\ \A n \in 1..count : slots[n].peer # r.peer,
             UNCHANGED <<registry, bonded, del, debounce>>
      PROVE  RegInv'
  BY <1>t, <1>s, <1>1, GoesOn DEF registry, debounce
<1>2. ASSUME NEW t \in Tasks, Find(t) PROVE RegInv'
  <2> DEFINE r(n) == [rec[t] EXCEPT !.at = "append", !.id = slots[n].id]
             c == [rec[t] EXCEPT !.at = "create"]
  <2>1. rec[t].at = "find" /\ UNCHANGED <<registry, bonded, del, debounce>>
    BY <1>2 DEF Find
  <2>2. ASSUME FindSlots(rec[t].peer) = {}, rec' = [rec EXCEPT ![t] = c] PROVE RegInv'
    <3>1. \A n \in 1..count : slots[n].peer # rec[t].peer
      BY <2>2 DEF FindSlots
    <3>2. t # "http"
      BY <2>1, <3>1 DEF RegInv, Recording, ByHand
    <3>3. c \in Recordings /\ c.at = "create" /\ c.peer = rec[t].peer
      BY <1>s DEF Recordings
    <3> HIDE DEF c
    <3> QED BY <1>1, <2>1, <2>2, <3>1, <3>2, <3>3
  <2>3. ASSUME NEW n \in FindSlots(rec[t].peer), rec' = [rec EXCEPT ![t] = r(n)] PROVE RegInv'
    <3>1. slots[n].id \in Nat
      BY <1>s DEF FindSlots
    <3>2. r(n) \in Recordings /\ r(n).at = "append" /\ r(n).peer = rec[t].peer
      BY <1>s, <3>1 DEF Recordings
    <3> HIDE DEF r
    <3> QED BY <1>1, <2>1, <2>3, <3>2
  <2> QED BY <1>2, <2>2, <2>3 DEF Find
<1>3. ASSUME NEW t \in Tasks, TableFull(t) PROVE RegInv'
  <2> DEFINE r == [rec[t] EXCEPT !.at = "append"]
  <2>1. r \in Recordings /\ r.at = "append" /\ r.peer = rec[t].peer
    BY <1>s DEF Recordings
  <2>2. rec[t].at = "create" /\ rec' = [rec EXCEPT ![t] = r] /\ UNCHANGED <<registry, bonded, del, debounce>>
    BY <1>3 DEF TableFull
  <2> HIDE DEF r
  <2> QED BY <1>1, <2>1, <2>2
<1>4. ASSUME NEW t \in Tasks, SaveFails(t) PROVE RegInv'
  <2> DEFINE r == [rec[t] EXCEPT !.at = "append"]
  <2>1. r \in Recordings /\ r.at = "append" /\ r.peer = rec[t].peer
    BY <1>s DEF Recordings
  <2>2. /\ rec[t].at = "create" /\ rec' = [rec EXCEPT ![t] = r]
        /\ UNCHANGED <<count, next, blobs, nvsNext, bonded, del, stamped, outrun>>
        /\ slots' = [slots EXCEPT ![count + 1] = Created(t)]
    BY <1>4 DEF SaveFails, debounce
  <2>3. Created(t) \in [id : Nat, peer : Peers \cup {NoPeer}]
    <3>1. next \in Nat /\ rec[t].peer \in Peers \cup {NoPeer}
      BY <1>s DEF RegInv, RegTyped, Recordings
    <3> QED BY <3>1 DEF Created
  <2>4. slots' \in [1..MaxWorkers -> [id : Nat, peer : Peers \cup {NoPeer}]]
    BY <1>s, <2>2, <2>3
  <2>5. \A n \in 1..count : slots'[n] = slots[n]
    <3>1. \A n \in 1..count : n # count + 1 /\ n \in DOMAIN slots
      BY <1>s
    <3> QED BY <2>2, <3>1
  <2> HIDE DEF r
  <2> QED BY <1>t, <2>1, <2>2, <2>4, <2>5, GoesOn
<1>5. ASSUME NEW t \in Tasks, ReadId(t) PROVE RegInv'
  <2> DEFINE r == [rec[t] EXCEPT !.at = "append", !.id = slots[rec[t].slot].id]
  <2>1. rec[t].slot \in 1..MaxWorkers /\ slots[rec[t].slot].id \in Nat
    BY <1>s DEF Recordings
  <2>2. r \in Recordings /\ r.at = "append" /\ r.peer = rec[t].peer
    BY <1>s, <2>1 DEF Recordings
  <2>3. rec[t].at = "read" /\ rec' = [rec EXCEPT ![t] = r] /\ UNCHANGED <<registry, bonded, del, debounce>>
    BY <1>5 DEF ReadId
  <2> HIDE DEF r
  <2> QED BY <1>1, <2>2, <2>3
<1>6. ASSUME NEW t \in Tasks, AppendRow(t) PROVE RegInv'
  <2>1. AtRest \in Recordings /\ AtRest.at = "idle"
    BY AttributionAssumption DEF AtRest, Recordings
  <2>2. rec[t].at = "append" /\ rec' = [rec EXCEPT ![t] = AtRest] /\ UNCHANGED <<registry, bonded, del, debounce>>
    BY <1>6 DEF AppendRow
  <2> QED BY <1>1, <2>1, <2>2
<1>7. ASSUME NEW t \in AutoTasks, NEW p \in Peers, AutoRecord(t, p) PROVE RegInv'
  BY <1>t, <1>7, Starts DEF AutoRecord, AutoTasks, Tasks
<1>8. ASSUME NEW w \in Workers, ManualRecord(w) PROVE RegInv'
  <2>1. PICK n \in 1..count : w = slots[n]
    BY DEF Workers
  <2>2. w.peer \in Peers \cup {NoPeer}
    BY <1>s, <2>1
  <2> QED BY <1>t, <1>8, <2>1, <2>2, Starts DEF ManualRecord, AutoTasks, Tasks
<1>9. ASSUME NEW p \in Peers, Pair(p) \/ Revoke(p) PROVE RegInv'
  <2>1. UNCHANGED <<registry, rec, del>> /\ bonded' \subseteq Peers
    BY <1>s, <1>9 DEF Pair, Revoke
  <2>2. UNCHANGED <<stamped, outrun>>
    BY <1>9 DEF Pair, Revoke, debounce
  <2> QED BY <1>t, <2>1, <2>2, Elsewhere
<1>10. ASSUME NEW id \in Ids, DeleteBegin(id) PROVE RegInv'
  <2>1. UNCHANGED <<registry, rec>> /\ bonded' \subseteq Peers /\ rec["http"].at = "idle"
    BY <1>s, <1>10 DEF DeleteBegin
  <2>2. UNCHANGED <<stamped, outrun>>
    BY <1>10 DEF DeleteBegin, debounce
  <2> QED BY <1>t, <2>1, <2>2, Elsewhere
<1>11. CASE DeleteRows \/ NothingToDelete
  <2>1. UNCHANGED <<registry, rec>> /\ bonded' \subseteq Peers /\ del.at # "idle"
    BY <1>s, <1>11 DEF DeleteRows, NothingToDelete
  <2>2. rec["http"].at = "idle"
    BY <2>1 DEF RegInv, Recording, ByHand
  <2>3. UNCHANGED <<stamped, outrun>>
    BY <1>11 DEF DeleteRows, NothingToDelete, debounce
  <2> QED BY <1>t, <2>1, <2>2, <2>3, Elsewhere
<1>12. CASE WipeRows \/ UNCHANGED vars
  <2>1. UNCHANGED <<registry, rec, del>> /\ bonded' \subseteq Peers
    BY <1>s, <1>12 DEF WipeRows, vars, registry
  <2>2. UNCHANGED <<stamped, outrun>>
    BY <1>12 DEF WipeRows, vars, debounce
  <2> QED BY <1>t, <2>1, <2>2, Elsewhere
<1>13. ASSUME NEW t \in Tasks, SaveWorker(t) \/ StoreNext(t) PROVE RegInv'
  BY <1>t, <1>13, SavesWorker, StoresNext
<1>14. CASE DeleteWorker \/ Restart
  BY <1>t, <1>14, DeletesWorker, ReadsBack
<1>15. ASSUME NEW p \in Peers, Forget(p) PROVE RegInv'
  BY <1>15, Forgets
<1> QED BY <1>2, <1>3, <1>4, <1>5, <1>6, <1>7, <1>8, <1>9, <1>10, <1>11, <1>12, <1>13, <1>14, <1>15
    DEF Next

\* When no worker is half stored, a restart would find those in RAM and no others.
LEMMA FindsTheSame == RegInv => WritesThrough
<1> SUFFICES ASSUME RegInv, trusted, Unlocked
             PROVE  Workers = {Loadable[n] : n \in 1..MaxWorkers} \ {EmptySlot} /\ next = nvsNext
  BY Zenon DEF WritesThrough
<1> DEFINE C == Cardinality(Kept)
<1>1. Agrees /\ Storing = {} /\ next = nvsNext
  BY NobodyStores DEF RegInv, Agrees, Behind
<1>2. /\ slots \in [1..MaxWorkers -> [id : Nat, peer : Peers \cup {NoPeer}]]
      /\ \A n \in 1..count : n \in 1..MaxWorkers
      /\ MaxWorkers \in Nat
  BY AttributionAssumption DEF RegInv, RegTyped
<1>3. /\ C \in Nat /\ C <= MaxWorkers
      /\ Loadable \in [1..MaxWorkers -> [id : Nat, peer : Peers \cup {NoPeer}]]
      /\ \A n \in 1..MaxWorkers : n > C => Loadable[n] = EmptySlot
      /\ \A n \in 1..MaxWorkers : n <= C =>
           /\ Loadable[n].id \in Kept /\ Loadable[n] # EmptySlot
           /\ Loadable[n].peer = blobs[Loadable[n].id]
      /\ \A i \in Kept : \E n \in 1..C : Loadable[n].id = i
  BY <1>1, Loads, RoomForAll DEF RegInv, Agrees
<1> HIDE DEF C
<1>4. \A n \in 1..C : n \in 1..MaxWorkers /\ n <= C
  BY <1>2, <1>3
<1>5. \A v, w \in [id : Nat, peer : Peers \cup {NoPeer}] : v.id = w.id /\ v.peer = w.peer => v = w
  OBVIOUS
<1>6. ASSUME NEW n \in 1..count
      PROVE  \E m \in 1..MaxWorkers : Loadable[m] = slots[n] /\ Loadable[m] # EmptySlot
  <2>1. slots[n].id \in Kept /\ blobs[slots[n].id] = slots[n].peer
    BY <1>1, AttributionAssumption DEF Agrees, Stored, Kept
  <2>2. PICK m \in 1..C : Loadable[m].id = slots[n].id
    BY <1>3, <2>1
  <2>3. m \in 1..MaxWorkers /\ Loadable[m].peer = slots[n].peer /\ Loadable[m] # EmptySlot
    BY <1>3, <1>4, <2>1, <2>2
  <2> QED BY <1>2, <1>3, <1>5, <2>2, <2>3
<1>7. ASSUME NEW m \in 1..MaxWorkers, Loadable[m] # EmptySlot
      PROVE  \E n \in 1..count : slots[n] = Loadable[m]
  <2>1. Loadable[m].id \in Kept /\ Loadable[m].peer = blobs[Loadable[m].id]
    BY <1>2, <1>3, <1>7
  <2>2. PICK n \in 1..count : slots[n].id = Loadable[m].id
    BY <1>1, <2>1 DEF Agrees, Known
  <2>3. slots[n].peer = Loadable[m].peer
    BY <1>1, <2>1, <2>2 DEF Agrees, Stored
  <2> QED BY <1>2, <1>3, <1>5, <2>2, <2>3
<1> QED BY <1>1, <1>6, <1>7 DEF Workers

(***************************************************************************)
(* WritesThrough: whenever no creation of dd_worker_lookup_or_create is    *)
(* between its two NVS writes, dd_worker_init would find exactly the       *)
(* workers that are in RAM.                                                *)
(***************************************************************************)
THEOREM WritesThroughAlways == Spec => []WritesThrough
<1> QED BY FindsTheSame, InitRegistry, NextRegistry, PTL DEF Spec

(***************************************************************************)
(* OneWorkerPerPeer: although dd_event_record looks a phone up and creates *)
(* its worker under two acquisitions of s_lock, a phone gets two only if   *)
(* its stamp went while a recording of it was still looking.               *)
(***************************************************************************)
THEOREM OneWorkerPerPeerAlways == Spec => []OneWorkerPerPeer
<1>1. RegInv => OneWorkerPerPeer
  BY Zenon DEF RegInv, Agrees, Unique, OneWorkerPerPeer
<1> QED BY <1>1, InitRegistry, NextRegistry, PTL DEF Spec

=============================================================================
