----------------------------- MODULE Attribution -----------------------------
(***************************************************************************)
(* Whose row is it?  components/workers/dd_worker.c keeps a registry of    *)
(* the phones' workers in RAM and in NVS; dd_event_record looks a phone up *)
(* there, or creates its worker, and appends a row with the worker's id;   *)
(* workers_delete_post takes a worker, its bond and its rows away again.   *)
(*                                                                         *)
(* The recorders are the NimBLE host task and the esp_timer task (rows of  *)
(* bonded phones) and the HTTP task (rows entered by hand), which also     *)
(* deletes.  s_lock of the registry is held by a creation between its two  *)
(* NVS writes, the only place where an operation that holds it can be cut  *)
(* in two by a restart; every other operation on the registry is one step. *)
(* The event log is a set here: each of its operations takes effect as a   *)
(* whole or not at all (EventFile).                                        *)
(***************************************************************************)
EXTENDS Naturals, FiniteSets

CONSTANTS
    Peers,          \* phones, by their identity address
    NoPeer,
    MaxWorkers,     \* DD_WORKER_MAX
    MaxId,          \* bound of the model: ids issued; uint16_t in the code
    MaxRows,        \* bound of the model: rows in the log at one time
    Faults          \* what may fail: subset of {"save", "next", "erase", "rows"}

ASSUME AttributionAssumption ==
    /\ NoPeer \notin Peers
    /\ MaxWorkers \in Nat \ {0} /\ MaxId \in Nat \ {0} /\ MaxRows \in Nat

VARIABLES
    slots,      \* s_workers
    count,      \* s_count
    next,       \* s_next_id
    blobs,      \* NVS: the peer stored under each id, or NoPeer
    nvsNext,    \* NVS: KEY_NEXT_ID
    bonded,     \* phones whose rows are recorded
    rows,       \* the log: [id, peer]; id 0 is a row without a worker
    rec,        \* the recording each task is in
    del,        \* the deletion the HTTP task is in
    stamped,    \* phones whose next automatic row would be swallowed: s_debounce, ack_event
    outrun,     \* history: phones whose stamp a recording has outlived (Forget)
    issued,     \* history: the workers ever created, as [id, peer]
    gone,       \* history: the ids whose deletion was answered "ok"
    trusted     \* history: no failing NVS write has been passed over

vars == <<slots, count, next, blobs, nvsNext, bonded, rows, rec, del,
          stamped, outrun, issued, gone, trusted>>
registry == <<slots, count, next, blobs, nvsNext>>
debounce == <<stamped, outrun>>

Ids == 1..MaxId
AutoTasks == {"host", "tick"}
Tasks == AutoTasks \cup {"http"}

\* A task in dd_event_record.  at: idle, find, create (between the two), store
\* (holding s_lock, between the two NVS writes), read (the id, after s_lock),
\* append.  slot: where `w' points.
AtRest == [at |-> "idle", peer |-> NoPeer, slot |-> 1, id |-> 0]
NoDeletion == [at |-> "idle", id |-> 0]
EmptySlot == [id |-> 0, peer |-> NoPeer]

Workers == {slots[n] : n \in 1..count}
Unlocked == \A t \in Tasks : rec[t].at # "store"

\* The workers dd_worker_init finds: of the ids below next_id, the first that fit.
Loadable ==
    LET stored == {i \in Ids : i < nvsNext /\ blobs[i] # NoPeer}
        rank(i) == Cardinality({j \in stored : j <= i})
    IN  [n \in 1..MaxWorkers |->
            IF n > Cardinality(stored) THEN EmptySlot
            ELSE LET i == CHOOSE j \in stored : rank(j) = n IN [id |-> i, peer |-> blobs[i]]]

Init ==
    /\ slots = [n \in 1..MaxWorkers |-> EmptySlot]
    /\ count = 0
    /\ next = 1
    /\ blobs = [i \in Ids |-> NoPeer]
    /\ nvsNext = 1
    /\ bonded = {}
    /\ rows = {}
    /\ rec = [t \in Tasks |-> AtRest]
    /\ del = NoDeletion
    /\ stamped = {} /\ outrun = {}
    /\ issued = {}
    /\ gone = {}
    /\ trusted = TRUE

(***************************************************************************)
(* dd_event_record and dd_worker_lookup_or_create.                         *)
(***************************************************************************)
Start(t, p) ==
    /\ rec[t].at = "idle"
    /\ rec' = [rec EXCEPT ![t] = [AtRest EXCEPT !.at = "find", !.peer = p]]
    /\ UNCHANGED <<registry, bonded, rows, del, outrun, issued, gone, trusted>>

\* The host task or the tick records a bonded phone whose last row has left no stamp:
\* neither the debounce of its kind of row nor ack_event swallows this one.
AutoRecord(t, p) ==
    /\ p \in bonded \ stamped
    /\ stamped' = stamped \cup {p}
    /\ Start(t, p)

\* events_post names a worker, and the row is recorded for its address.
ManualRecord(w) ==
    /\ del.at = "idle" /\ Unlocked
    /\ w \in Workers
    /\ Start("http", w.peer)
    /\ UNCHANGED stamped

\* The stamp is of no use any more, whatever the recording that set it has come to:
\* ten seconds have passed, or four other phones have taken the four entries, or the
\* phone is gone for its timeout, or the log was wiped and ack_event reset.
Unlooked(p) == \E t \in AutoTasks : rec[t].peer = p /\ rec[t].at \in {"find", "create"}

Forget(p) ==
    /\ p \in stamped
    /\ stamped' = stamped \ {p}
    /\ outrun' = outrun \cup {q \in {p} : Unlooked(q)}
    /\ UNCHANGED <<registry, bonded, rows, rec, del, issued, gone, trusted>>

FindSlotsButLast(p) == {n \in 1..(count - 1) : slots[n].peer = p}       \* mutant
FindSlots(p) == {n \in 1..count : slots[n].peer = p}

\* dd_worker_find_by_addr, under s_lock on its own.
Find(t) ==
    LET found == FindSlots(rec[t].peer) IN
    /\ rec[t].at = "find" /\ Unlocked
    /\ \/ found = {} /\ rec' = [rec EXCEPT ![t].at = "create"]
       \/ \E n \in found :
            /\ \A m \in found : n <= m
            /\ rec' = [rec EXCEPT ![t].at = "append", ![t].id = slots[n].id]
    /\ UNCHANGED <<registry, bonded, rows, del, debounce, issued, gone, trusted>>

\* The table is full: the row goes without a worker.
TableFull(t) ==
    /\ rec[t].at = "create" /\ Unlocked
    /\ count >= MaxWorkers
    /\ rec' = [rec EXCEPT ![t].at = "append"]
    /\ UNCHANGED <<registry, bonded, rows, del, debounce, issued, gone, trusted>>

\* The slot after the last is filled in, and save_one succeeds or fails.
Created(t) == [id |-> next, peer |-> rec[t].peer]

SaveWorker(t) ==
    /\ rec[t].at = "create" /\ Unlocked
    /\ count < MaxWorkers /\ next <= MaxId
    /\ slots' = [slots EXCEPT ![count + 1] = Created(t)]
    /\ blobs' = [blobs EXCEPT ![next] = rec[t].peer]
    /\ next' = next + 1
    /\ count' = count + 1
    /\ rec' = [rec EXCEPT ![t].at = "store", ![t].slot = count + 1]
    /\ UNCHANGED <<nvsNext, bonded, rows, del, debounce, issued, gone, trusted>>

SaveFails(t) ==
    /\ "save" \in Faults
    /\ rec[t].at = "create" /\ Unlocked
    /\ count < MaxWorkers /\ next <= MaxId
    /\ slots' = [slots EXCEPT ![count + 1] = Created(t)]
    /\ rec' = [rec EXCEPT ![t].at = "append"]
    /\ UNCHANGED <<count, next, blobs, nvsNext, bonded, rows, del, debounce, issued, gone, trusted>>

\* next_id is written; a failure is passed over.  s_lock is given back.
StoredNextTooEarly == next - 1                                          \* mutant
StoredNext == next

StoreNext(t) ==
    /\ rec[t].at = "store"
    /\ \/ nvsNext' = StoredNext /\ UNCHANGED trusted
       \/ "next" \in Faults /\ trusted' = FALSE /\ UNCHANGED nvsNext
    /\ issued' = issued \cup {slots[rec[t].slot]}
    /\ rec' = [rec EXCEPT ![t].at = "read"]
    /\ UNCHANGED <<slots, count, next, blobs, bonded, rows, del, debounce, gone>>

\* `return w->id' reads the slot after s_lock was given back.
ReadId(t) ==
    /\ rec[t].at = "read"
    /\ rec' = [rec EXCEPT ![t].at = "append", ![t].id = slots[rec[t].slot].id]
    /\ UNCHANGED <<registry, bonded, rows, del, debounce, issued, gone, trusted>>

\* dd_storage_event_append, which may fail.
AppendRow(t) ==
    /\ rec[t].at = "append"
    /\ \/ /\ Cardinality(rows) < MaxRows
          /\ rows' = rows \cup {[id |-> rec[t].id, peer |-> rec[t].peer]}
       \/ "rows" \in Faults /\ UNCHANGED rows
    /\ rec' = [rec EXCEPT ![t] = AtRest]
    /\ UNCHANGED <<registry, bonded, del, debounce, issued, gone, trusted>>

(***************************************************************************)
(* workers_delete_post: three calls, each of which locks for itself.       *)
(***************************************************************************)
\* If there is such a worker its bond is revoked, and with it the slot from which
\* rows are recorded.
DeleteBegin(id) ==
    /\ rec["http"].at = "idle" /\ del.at = "idle"
    /\ Unlocked
    /\ bonded' = bonded \ {w.peer : w \in {v \in Workers : v.id = id}}
    /\ del' = [at |-> "rows", id |-> id]
    /\ UNCHANGED <<registry, rows, rec, debounce, issued, gone, trusted>>

\* dd_storage_event_delete_by_worker; its result is not looked at.
DeleteRows ==
    /\ del.at = "rows"
    /\ \/ rows' = {r \in rows : r.id # del.id}
       \/ "rows" \in Faults /\ UNCHANGED rows
    /\ del' = [del EXCEPT !.at = "worker"]
    /\ UNCHANGED <<registry, bonded, rec, debounce, issued, gone, trusted>>

\* dd_worker_delete: erased from NVS, and the last slot moved to its place.  If the
\* erasure fails it is gone from RAM all the same.  The answer is an error when NVS
\* cannot be opened or committed, and "ok" when only nvs_erase_key has failed.
NextAfterDeletionFreed(id) == IF next = id + 1 THEN id ELSE next        \* mutant
NextAfterDeletion(id) == next

DeleteWorker ==
    /\ del.at = "worker" /\ Unlocked
    /\ \E n \in 1..count :
        /\ slots[n].id = del.id
        /\ \A m \in 1..count : slots[m].id = del.id => n <= m
        /\ slots' = [slots EXCEPT ![n] = slots[count], ![count] = EmptySlot]
        /\ count' = count - 1
        /\ next' = NextAfterDeletion(del.id)
        /\ \/ /\ blobs' = [blobs EXCEPT ![del.id] = NoPeer]
              /\ gone' = gone \cup {del.id}
              /\ UNCHANGED trusted
           \/ /\ "erase" \in Faults
              /\ trusted' = FALSE
              /\ gone' \in {gone, gone \cup {del.id}}
              /\ UNCHANGED blobs
    /\ del' = NoDeletion
    /\ UNCHANGED <<nvsNext, bonded, rows, rec, debounce, issued>>

NothingToDelete ==
    /\ del.at = "worker" /\ Unlocked
    /\ \A w \in Workers : w.id # del.id
    /\ del' = NoDeletion
    /\ UNCHANGED <<registry, bonded, rows, rec, debounce, issued, gone, trusted>>

(***************************************************************************)
(* The rest of the world.                                                  *)
(***************************************************************************)
Pair(p) ==
    /\ p \notin bonded
    /\ bonded' = bonded \cup {p}
    /\ UNCHANGED <<registry, rows, rec, del, debounce, issued, gone, trusted>>

\* bonds_revoke_post: the phone is no longer recorded; its worker stays.
Revoke(p) ==
    /\ p \in bonded /\ rec["http"].at = "idle" /\ del.at = "idle"
    /\ bonded' = bonded \ {p}
    /\ UNCHANGED <<registry, rows, rec, del, debounce, issued, gone, trusted>>

WipeRows ==
    /\ rec["http"].at = "idle" /\ del.at = "idle"
    /\ rows' = {}
    /\ UNCHANGED <<registry, bonded, rec, del, debounce, issued, gone, trusted>>

\* Power loss at any point, then dd_worker_init.
Restart ==
    /\ slots' = Loadable
    /\ count' = Cardinality({n \in 1..MaxWorkers : Loadable[n] # EmptySlot})
    /\ next' = nvsNext
    /\ rec' = [t \in Tasks |-> AtRest]
    /\ del' = NoDeletion
    /\ stamped' = {}
    /\ UNCHANGED <<blobs, nvsNext, bonded, rows, outrun, issued, gone, trusted>>

Next ==
    \/ \E t \in Tasks :
        \/ Find(t) \/ TableFull(t) \/ SaveWorker(t) \/ SaveFails(t)
        \/ StoreNext(t) \/ ReadId(t) \/ AppendRow(t)
    \/ \E p \in Peers : Pair(p) \/ Revoke(p) \/ Forget(p) \/ \E t \in AutoTasks : AutoRecord(t, p)
    \/ \E w \in Workers : ManualRecord(w)
    \/ \E id \in Ids : DeleteBegin(id)
    \/ DeleteRows \/ DeleteWorker \/ NothingToDelete
    \/ WipeRows \/ Restart

Spec == Init /\ [][Next]_vars
-----------------------------------------------------------------------------
(***************************************************************************)
(* Properties.                                                             *)
(***************************************************************************)
\* An id stands for one phone for ever: neither a deletion, nor a restart between
\* the two NVS writes of a creation, nor a failing save lets it be given out again,
\* so old rows never turn into another's.  (Unless a failing write of next_id was
\* passed over.)
IdsAreNotReused ==
    trusted => \A v, w \in issued : v.id = w.id => v = w

\* Whenever no creation is half done, a restart would find exactly the workers that
\* are in RAM.
WritesThrough ==
    trusted /\ Unlocked =>
        Workers = {Loadable[n] : n \in 1..MaxWorkers} \ {EmptySlot} /\ next = nvsNext

\* A phone gets two workers only if a recording of it stood between the start of
\* dd_event_record and the creation for longer than its stamp lasted: nothing but the
\* stamp keeps a second recording from looking the phone up before the first has
\* created its worker.  (An erasure that failed brings a worker back.)
OneWorkerPerPeer ==
    trusted => \A m, n \in 1..count :
        slots[m].peer = slots[n].peer => m = n \/ slots[m].peer \in outrun

\* A deleted worker is gone: no row of it is left or turns up later.
DeletedIsGone == \A r \in rows : r.id \notin gone

=============================================================================
