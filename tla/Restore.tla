-------------------------------- MODULE Restore --------------------------------
(***************************************************************************)
(* restore_post (components/http_app/dd_http_system.c) puts a backup in    *)
(* place of the registry of workers (components/workers/dd_worker.c): it   *)
(* wipes it and adds the workers of the backup one call after the other.   *)
(*                                                                         *)
(* Each call locks for itself.  In between, the presence engine records    *)
(* rows, for which it creates workers: bonds survive a factory reset, the  *)
(* only way to a device that takes a restore.  The device may lose power   *)
(* at any time.  Attribution has the registry without restores, and what   *)
(* becomes of the ids that are looked up in it.                            *)
(***************************************************************************)
EXTENDS Naturals, Sequences, FiniteSets

CONSTANTS
    Owners,         \* phones
    NoOwner,
    Backups,        \* the "workers" of the backups, each a sequence of [id, peer]
    MaxRegistry,    \* DD_WORKER_MAX
    MaxWorkerId     \* bound of the model: ids given out and ids in backups

ASSUME RestoreAssumption ==
    /\ NoOwner \notin Owners
    /\ MaxRegistry \in Nat \ {0} /\ MaxWorkerId \in Nat
    /\ Backups \subseteq Seq([id : 0..MaxWorkerId, peer : Owners])

VARIABLES
    workers,    \* s_workers, up to s_count
    nextId,     \* s_next_id
    nvsBlobs,   \* NVS: the peer stored under each id, or NoOwner
    nvsNextId,  \* NVS: KEY_NEXT_ID, 1 if there is none
    admin,      \* NVS: there is a password
    doing,      \* restore_post: none, wipe, or add; booting after it
    backup,     \* the workers that are still to be added
    given,      \* history: the backup as it came
    leftOut,    \* history: its workers that found the table full
    promised,   \* history: the workers of the restore that was answered last
    sound       \* history: since NVS was last wiped clean every write succeeded, and
                \* none was cut off its partner

restoreVars == <<workers, nextId, nvsBlobs, nvsNextId, admin, doing, backup, given,
                 leftOut, promised, sound>>
handler == <<admin, doing, backup, given, leftOut>>

WorkerIds == 1..MaxWorkerId
Registry(seq) == {seq[n] : n \in DOMAIN seq}

RestoreInit ==
    /\ workers = <<>> /\ nextId = 1
    /\ nvsBlobs = [i \in WorkerIds |-> NoOwner] /\ nvsNextId = 1
    /\ admin = FALSE
    /\ doing = "none" /\ backup = <<>> /\ given = <<>>
    /\ leftOut = {} /\ promised = {} /\ sound = TRUE

\* dd_worker_init: of the ids below next_id those that are stored, as many as fit.
InNvs(i) == i < nvsNextId /\ nvsBlobs[i] # NoOwner
InNvsUpTo(i) == Cardinality({j \in 1..i : InNvs(j)})
Loadable == {[id |-> i, peer |-> nvsBlobs[i]] :
                i \in {j \in WorkerIds : InNvs(j) /\ InNvsUpTo(j) <= MaxRegistry}}

(***************************************************************************)
(* The registry.                                                           *)
(***************************************************************************)
\* dd_worker_lookup_or_create for a phone that has no worker.
Creates(p) ==
    /\ \A w \in Registry(workers) : w.peer # p
    /\ Len(workers) < MaxRegistry /\ nextId <= MaxWorkerId
    /\ nvsBlobs' = [nvsBlobs EXCEPT ![nextId] = p]

CreateWorker(p) ==
    /\ doing # "booting"
    /\ Creates(p)
    /\ workers' = Append(workers, [id |-> nextId, peer |-> p])
    /\ nextId' = nextId + 1
    /\ \/ nvsNextId' = nextId + 1 /\ UNCHANGED sound
       \/ sound' = FALSE /\ UNCHANGED nvsNextId       \* nobody notices
    /\ UNCHANGED <<handler, promised>>

\* What a restart leaves of the handler and of the registry in RAM.
Boots ==
    /\ doing' = "booting"
    /\ workers' = <<>> /\ nextId' = 1
    /\ backup' = <<>> /\ given' = <<>> /\ leftOut' = {}

\* The power goes between the two writes.
CreateCut(p) ==
    /\ doing # "booting"
    /\ Creates(p)
    /\ Boots
    /\ sound' = FALSE
    /\ UNCHANGED <<nvsNextId, admin, promised>>

\* dd_worker_delete, by workers_delete_post.
DeletesWorker(n) ==
    /\ doing = "none"
    /\ n \in DOMAIN workers
    /\ workers' = [k \in 1..(Len(workers) - 1) |-> IF k = n THEN workers[Len(workers)] ELSE workers[k]]
    /\ \/ nvsBlobs' = [nvsBlobs EXCEPT ![workers[n].id] = NoOwner] /\ UNCHANGED sound
       \/ sound' = FALSE /\ UNCHANGED nvsBlobs
    /\ promised' = promised \ {workers[n]}
    /\ UNCHANGED <<nextId, nvsNextId, handler>>

\* dd_worker_update, by workers_update_post: the worker is stored anew, with its new
\* name (left out here).
UpdateWorker(n) ==
    /\ doing = "none"
    /\ n \in DOMAIN workers
    /\ nvsBlobs' = [nvsBlobs EXCEPT ![workers[n].id] = workers[n].peer]
    /\ UNCHANGED <<workers, nextId, nvsNextId, handler, promised, sound>>

(***************************************************************************)
(* restore_post.                                                           *)
(***************************************************************************)
\* Only a device without a password takes a restore; the password of the backup comes
\* first.
RestoreBegin(b) ==
    /\ doing = "none" /\ ~admin
    /\ admin' \in BOOLEAN
    /\ doing' = "wipe"
    /\ backup' = b /\ given' = b /\ leftOut' = {}
    /\ UNCHANGED <<workers, nextId, nvsBlobs, nvsNextId, promised, sound>>

Erased(upTo) == [i \in WorkerIds |-> IF i <= upTo THEN NoOwner ELSE nvsBlobs[i]]

\* dd_worker_wipe.  If NVS cannot be opened nothing is wiped, and the restore goes on.
WorkersWipe ==
    /\ doing = "wipe" /\ doing' = "add"
    /\ \/ /\ workers' = <<>> /\ nextId' = 1
          /\ nvsBlobs' = Erased(nextId - 1) /\ nvsNextId' = 1
          /\ promised' = {}
          /\ sound' = (\A i \in WorkerIds : i >= nextId => nvsBlobs[i] = NoOwner)
       \/ sound' = FALSE /\ UNCHANGED <<workers, nextId, nvsBlobs, nvsNextId, promised>>
    /\ UNCHANGED <<admin, backup, given, leftOut>>

\* The power goes when some of the keys have been erased.
WipeCut(upTo) ==
    /\ doing = "wipe" /\ upTo < nextId
    /\ nvsBlobs' = Erased(upTo)
    /\ Boots
    /\ promised' = {}
    /\ UNCHANGED <<nvsNextId, admin, sound>>

\* dd_worker_restore: into the slot of the id, or the next.
SlotOfId(i) == {n \in DOMAIN workers : workers[n].id = i}
Placed(e) ==
    IF SlotOfId(e.id) # {}
    THEN [n \in DOMAIN workers |-> IF workers[n].id = e.id THEN e ELSE workers[n]]
    ELSE Append(workers, e)

NextBeyondLarger(i) == IF i > nextId THEN i + 1 ELSE nextId             \* mutant
NextBeyond(i) == IF i >= nextId THEN i + 1 ELSE nextId

Adding == doing = "add" /\ backup # <<>> /\ backup' = Tail(backup)

WorkerRestore ==
    LET e == Head(backup) IN
    /\ Adding
    /\ e.id # 0 /\ (SlotOfId(e.id) # {} \/ Len(workers) < MaxRegistry)
    /\ workers' = Placed(e)
    /\ \/ /\ nvsBlobs' = [nvsBlobs EXCEPT ![e.id] = e.peer]
          /\ nextId' = NextBeyond(e.id)
          /\ \/ nvsNextId' = (IF NextBeyond(e.id) = nextId THEN nvsNextId ELSE nextId')
                /\ UNCHANGED sound
             \/ NextBeyond(e.id) # nextId /\ sound' = FALSE /\ UNCHANGED nvsNextId
       \/ /\ sound' = FALSE                           \* save_one fails
          /\ UNCHANGED <<nextId, nvsBlobs, nvsNextId>>
    /\ UNCHANGED <<admin, doing, given, leftOut, promised>>

\* One without an id, or for which there is no room, be it that a worker was created
\* meanwhile: restore_post does not look at the error and goes on.
WorkerNotRestored ==
    LET e == Head(backup) IN
    /\ Adding
    /\ \/ e.id = 0 /\ UNCHANGED leftOut
       \/ /\ e.id # 0 /\ SlotOfId(e.id) = {} /\ Len(workers) >= MaxRegistry
          /\ leftOut' = leftOut \cup {e}
    /\ UNCHANGED <<workers, nextId, nvsBlobs, nvsNextId, admin, doing, given, promised, sound>>

\* "restored, restarting".  Of several workers with one id the last one counts.
Listed(b) ==
    {b[k] : k \in {n \in DOMAIN b : b[n].id # 0 /\ \A m \in DOMAIN b : m > n => b[m].id # b[n].id}}

RestoreAnswer ==
    /\ doing = "add" /\ backup = <<>>
    /\ doing' = "none" /\ given' = <<>> /\ leftOut' = {}
    /\ promised' = Listed(given) \ leftOut
    /\ UNCHANGED <<workers, nextId, nvsBlobs, nvsNextId, admin, backup, sound>>

(***************************************************************************)
(* Power loss and scheduled restarts, boot, factory reset.                 *)
(***************************************************************************)
PowerLoss ==
    /\ doing # "booting"
    /\ Boots
    /\ UNCHANGED <<nvsBlobs, nvsNextId, admin, promised, sound>>

RegistryInit ==
    /\ doing = "booting" /\ doing' = "none"
    /\ nextId' = nvsNextId
    /\ \E seq \in [1..Cardinality(Loadable) -> Loadable] :
        /\ \A m, n \in DOMAIN seq : m < n => seq[m].id < seq[n].id
        /\ workers' = seq
    /\ UNCHANGED <<nvsBlobs, nvsNextId, admin, backup, given, leftOut, promised, sound>>

\* The workers stay.
SettingsErased ==
    /\ doing = "none" /\ admin' = FALSE
    /\ UNCHANGED <<workers, nextId, nvsBlobs, nvsNextId, doing, backup, given, leftOut, promised,
                   sound>>

RestoreNext ==
    \/ \E p \in Owners : CreateWorker(p) \/ CreateCut(p)
    \/ \E n \in 1..MaxRegistry : DeletesWorker(n) \/ UpdateWorker(n)
    \/ \E b \in Backups : RestoreBegin(b)
    \/ \E i \in 0..MaxWorkerId : WipeCut(i)
    \/ WorkersWipe \/ WorkerRestore \/ WorkerNotRestored \/ RestoreAnswer
    \/ PowerLoss \/ RegistryInit \/ SettingsErased

RestoreSpec == RestoreInit /\ [][RestoreNext]_restoreVars
-----------------------------------------------------------------------------
(***************************************************************************)
(* Properties.                                                             *)
(***************************************************************************)
\* A restore that was answered has put every worker of the backup for which there was
\* room in its place, under its own id, for the workers now in RAM and for those the next
\* boot finds; no worker created meanwhile or since takes the id of one of them, until it
\* is deleted or the next restore begins.  A worker of the backup is left out, and the
\* restore is answered all the same, only if the backup has more ids than the table has
\* slots or a worker that is not in it was created since the wipe and has one of them.
\* (Unless a write failed that nobody looked at.)
Ids(seq) == {seq[n].id : n \in DOMAIN seq} \ {0}

RestoredIsKept ==
    sound =>
        /\ doing \in {"none", "booting"} =>
            /\ promised \subseteq Loadable
            /\ doing = "none" => promised \subseteq Registry(workers)
            /\ \A e \in promised, w \in Loadable \cup Registry(workers) : w.id = e.id => w = e
        /\ leftOut # {} => \/ Cardinality(Ids(given)) > MaxRegistry
                          \/ ~(Ids(workers) \subseteq Ids(given))

\* However a restore ends, what is in RAM is what the next boot finds
\* (dd_worker_restore, dd_worker_wipe).
RestoredInNvs ==
    sound /\ doing # "booting" => Registry(workers) = Loadable /\ nextId = nvsNextId
=============================================================================
