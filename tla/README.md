# Dingdong in TLA+

Dingdong (`src/`) is an ESP32-C6 that notices which phones are in the room. It
pairs with phones over BLE, tracks each bonded phone with a *presence slot*,
records IN and OUT rows in a log on flash, and offers the attendance in a small
web application. This directory models the parts whose correctness depends on
the order of things: several tasks, radio events, failing flash writes, loss of
power. It says what they promise, model-checks it with TLC, and proves the
promises that matter most with TLAPS.

- [The system](#the-system)
- [Modules](#modules)
- [Presence](#presence), [Pairing](#pairing),
  [EventLog and EventFile](#eventlog-and-eventfile),
  [Debounce and LatestRow](#debounce-and-latestrow),
  [EventsPage and Timesheet](#eventspage-and-timesheet),
  [Attribution](#attribution), [Restore](#restore), [Session](#session),
  [LogTail and LogRing](#logtail-and-logring), [Device](#device)
- [Runs](#runs)
- [What is proved](#what-is-proved)
- [Disagreements found](#disagreements-found)
- [Not modelled](#not-modelled)
- [Plan](#plan)

To repeat it: `tlc -workers 2 -config <run>.cfg <MCmodule>` and
`tlapm <Module>Proofs.tla`. `PROJECT.json` says which module and configuration
belong together.

## The system

The firmware is C on a single core under FreeRTOS. These tasks run:

| task | runs |
|---|---|
| NimBLE host | all GAP callbacks: advertisements, connections, encryption, pairing |
| esp_timer | the 1 Hz presence tick, scan and advertisement restarts, pairing deadline, OTA validation (60 s), heap watchdog, retention, WiFi give-up |
| httpd | all HTTP handlers, one at a time |
| WiFi event loop | station and SoftAP events |
| main, boot button, captive DNS, delayed restart | one small loop each |

The components, the state each keeps, what it does, what is hard about it, and
what makes it correct:

| component | state | operations | hard because | correct when |
|---|---|---|---|---|
| `ble` | `s_presence[8]` **without a lock**, scanner, connect procedure, pairing window; bonds in NVS | tick, probe, GAP callbacks, pair, revoke, reset of events | three tasks change a slot, and each blocks in the middle (a row is being stored) | one slot per bonded phone; IN and OUT alternate; a departure is noticed, and promptly; the scanner is never forgotten |
| `events` | debounce table, 4 entries | `dd_event_record` | called by three tasks, blocks on locks and flash | a row gets to the worker of its phone |
| `storage` | `events.jsonl`, its `.tmp`, cached line count, one lock | append with rotation, retention, deletion, wipe | every file operation may fail, power may go | the old or the new log, never a part |
| `workers` | 32 workers in RAM, blobs and `next_id` in NVS, one lock | look up or create, rename, delete, restore | look-up and creation lock separately; two NVS writes | ids are not reused; one worker per phone |
| `http_app` | none of its own | pairing, workers, rows, timesheets, set-up, backup, OTA | several calls with several locks per request | a request takes effect as a whole |
| `config` | NVS: password, WiFi, boot-loop counter, restart cause | set-up, factory reset, counting of boots | writes may be cut short | the device can always be set up |
| `wifi_mgr` | state, retry count, give-up timer | choice of mode, retries, giving up | a callback and a timer share stamps | reconnects; gives up when it should, and only then |
| `main` | none | boot order, OTA validation, heap watchdog, boot button, retention | crashes, images that do not run | never bricked |
| `time_sync` | synced, offset | SNTP, conversion of monotonic stamps | rows before the clock is known | no row has a wrong time |
| `session` | 4 tokens with a lifetime, one lock | create, check, end | eviction | only whoever logged in is let in |
| `log_buf` | ring of text, one lock | append, read | wrap-around | what is read is what was written |
| `captive_portal`, `led`, `util`, web page | none that matters | | | |

They interact by direct calls. A GAP callback or the tick calls
`dd_event_record` (`events`), which calls `workers` and then `storage`, with a
lock of its own in each; `http_app` calls into all of them; `wifi_mgr` and
`main` share the boot-loop counter of `config`. Every hazard, with the line
where it bites and the properties that cover it, is in `PROJECT.json`.

## Modules

| module | models | |
|---|---|---|
| `Presence` | the presence engine of `dd_ble.c` with its callers | detailed specification |
| `Pairing` | the HID advertisement and the pairing window of `dd_ble.c`, with the handlers of `dd_http_devices.c` | detailed specification |
| `EventLog` | what an event log promises | abstract specification |
| `EventFile` | `dd_storage.c` | implements `EventLog` |
| `Debounce` | the debounce table of `dd_event.c` | detailed specification |
| `LatestRow` | the stamps of a row and the search for the latest one, `dd_event.c` | algorithm, with the tasks that feed it |
| `EventsPage` | `GET /api/events`, `dd_http_attendance.c` | handler over `EventLog` |
| `Timesheet` | the paired view, the paired export, today and the calendar, `dd_http_attendance.c` | algorithms, line by line |
| `Attribution` | `dd_worker.c`, `dd_event_record`'s path to a worker, `workers_delete_post` | detailed specification |
| `Restore` | `restore_post` of `dd_http_system.c` on the registry of `dd_worker.c` | detailed specification |
| `Session` | `dd_session.c`, the password of `dd_config.c`, the handlers that use either | detailed specification |
| `LogTail` | what a log buffer promises | abstract specification |
| `LogRing` | `dd_log.c`, `logs_get` | implements `LogTail` |
| `Device` | `dd_wifi.c`, `dd_config.c`, `main.c`, the handlers that set up, reset, restart and update | detailed specification |
| `MCPresence`, `MCComponents`, `MCAttribution`, `MCDevice` | small instances, symmetry, views | |
| `PresenceProofs`, `PairingProofs`, `EventFileProofs`, `RowsProofs`, `AttributionProofs`, `SystemProofs`, `LogRingProofs`, `DeviceProofs` | theorems | |

Each definition carries the name of the function it models, or a comment that
gives it. `PROJECT.json` maps each to its lines. A definition marked `mutant` in
a comment is a deliberately wrong variant: put in place of the right one it
makes one of the properties fail, which shows that the property is not empty.

The modules compose through what one assumes of the other: `Attribution` treats
each log operation as one step, which `EventFile` shows of the file;
`Presence` treats a row as stored or not stored, which is what `EventFile` shows
of an append; `Attribution` lets any bonded phone be recorded at any time by
either BLE task, as soon as the debounce and the acknowledgement of `Presence` no
longer swallow it, even while the other task still has a row of it in hand.
`EventsPage` takes the log of `EventLog` as a whole, and from `EventFile` that the cached
count may differ from it; `Timesheet` takes any file line by line, as a walk holds the lock of
`EventFile` from the first line to the last. `Restore` has the registry of
`Attribution` without the paths that look up ids, and in its place the handler that
replaces all of it. `Pairing` decides which phones connect, `Presence` starts from
phones that do; the password and the sessions that `Device` reduces to "somebody is
logged in" are in `Session`.

### Presence

A slot is a record with the fields of `presence_slot_t`; time stamps are ages in
ticks, capped where no comparison tells them apart. `tick`, `host` and `http`
are the places where a task blocks inside `dd_event_record` or between two calls:
what the blocked task still has to do when it resumes. So the model has exactly
the interleavings the code has: a GAP callback is one step up to the row it
records, and the tick handles one slot at a time (`TickEval`, `TickIn`,
`TickOut`).

| code | actions |
|---|---|
| `presence_tick_cb` | `ClockTick`, `TickEval`, `TickIn`, `TickOut` |
| `probe_event_cb` | `ProbeConnected`, `ProbeFailed`, `ProbeLinkDown`, `HostRecord` |
| `disc_event_cb` | `Advertised` |
| `gap_event_cb` | `HidConnected`, `HidDisconnected`, `EncChanged`, `HostAllocate`, `RepeatPairing` |
| `scan_restart_cb` | `ScanRestart` |
| `dd_ble_bond_revoke`, `events_wipe_post` | `RevokeBond`/`RevokeSlot`, `WipeRows`/`ResetEvents` |
| pairing window, timeout, SNTP | `PairingStart`, `PairingEnd`, `SetTimeout`, `ClockSynced`, `NtpServerChanged` |
| `on_sync` | `Boot` |

`Features` selects the events of the environment a run includes, so that each
question is asked with as much of the world as fits.

**Waiting for the log.** Between two ticks the tasks come to rest (`ClockTick`), with
one exception. `dd_storage_event_iter` holds the lock of the log while it sends the rows
to a client, for 30 s a chunk if the client is slow. With the feature `"stall"` a task that
has stamped its row may wait for that lock (`HostWaits`, `TickWaits`), `append` says for
which phone, and time goes on for everybody else (`Stalled`): stamps and probes age,
links go, and the other task may come to the same slot. `waits` is history and says
whether a row has had to wait at all, and ever for as long as the debounce. The properties
about rows and about time depend on it:

| | no wait | waits shorter than the debounce | longer |
|---|---|---|---|
| `NoDoubleIn`, `AbsentMeansClosed` | hold | hold | an IN can be doubled |
| `NoOrphanOut`, `PresenceIsTrue`, `PromptOut` | hold | an IN taken late may leave an OUT alone; a blocked tick sees nobody off | the same |
| slots, link marks, probes, scanner | hold | hold | hold |

**The scanner** is `"on"`, `"off"` or `"refused"`: `start_scanning` only logs what
`ble_gap_ext_disc` returns, and nothing tries again before the next probe has ended.
`ScannerKept` names that as the one way to be left without a scanner.

Abstractions: a row is recorded when the blocked task resumes. The periods of the 1 Hz timer
that a waiting tick misses are taken as one with the rest of that tick. Tasks wait for no
other lock for long. The debounce is kept per phone, which is the same as the
code's table of four entries for up to four phones; the table, and what happens to
a fifth phone, is in `Debounce`. Rows entered by hand,
retention and deletion of rows do not occur here. A revoke and a pairing of the
same phone do not overlap, because a pairing takes a human seconds.

### Pairing

`start_advertising` runs on three tasks (`httpd`, `timer`, `host`) without a lock:
it chooses the filter from what `s_filter_strict` says when it gets there, removes
the instance, configures it, starts it. `run` is where a task is in it, `call` what
it still has to do of the handler or callback that led there, so runs overlap at
every call into NimBLE.

| code | actions |
|---|---|
| `start_advertising`, `should_be_strict`, `refresh_whitelist` | `RestartFires`/`Continues` (which refresh the list), `RunRemoves`, `RunConfigures`, `RunStarts`, `RunFails` |
| `on_pairing_expire`, `adv_restart_cb` | `WindowEnds`, `ExpiryFires`, `RestartFires` |
| `dd_ble_pairing_start`, `_cancel`, `_confirm` and their handlers | `WindowOpens`, `WindowTimed`, `PairingCancel`, `Cancelled`, `PairingConfirm` |
| `dd_ble_bond_revoke`, `dd_ble_set_device_name` | `Revoke`, `SetName` |
| `gap_event_cb` | `Connect`, `Disconnect`, `AdvComplete`, `AsksToPair` (REPEAT_PAIRING), `Passkey`, `EncChange` |
| `on_reset`, `on_sync` | `HostReset`, the `sync` of `Continues` |

The advertising instance and the filter list are the controller's, modelled from how
the code uses them: an instance that is on can be neither removed nor configured, and
the list cannot change while it is in use. `failed` and `calm` are history, and say
what a property excludes: a call that failed for a reason of its own is never tried
again, and if two tasks were at it at once, or a bond came or went outside the window,
the filter is right only after the next fresh start.

### EventLog and EventFile

`EventLog` says what the log promises: rows are appended, or removed as a whole
set for a reason (too many, too old, a worker's, a single one, all). `EventFile`
does it as the code does: under one lock, a rewrite copies line after line to
`events.jsonl.tmp` and renames it. Every open, write, close, remove and rename
may fail, and the power may go between any two steps. `KeepsLog` says that
`EventFile` implements `EventLog`, with the file as the log.

LittleFS commits a file at close, so an appended row is stored whole or not at
all, and rename is atomic. `Recount` is `scan_event_count`, which counts none when the log
cannot be opened and fewer when it cannot be read to its end. `trusted` is a history
variable: some results are ignored by the code (`fclose` at line 146, `remove` at 244, a
failed `Recount`), and the line count is exact only as long as none of those has failed
since the count was last set.

Abstractions: all lines are equally long, so that the rotation keeps the newest
half by count; the copy loop of the rotation, which copies blocks, is modelled by
lines; the rename and the new count are one step (they are under one lock).

### Debounce and LatestRow

`Debounce`: the two tasks that record take their time stamp first and come to
`s_debounce_lock` later (`Stamped`, then `Passes` or `Dropped`), so the table may see
times that run backwards. `Chosen` is `get_slot`, with its eviction of the phone that
was quiet for longest. `passed` and `since` are history: what a debounce without any
limit would know, and which other phones could have pushed a phone out.

`LatestRow`: rows are stamped (`Stamp`) and stored (`Store`) apart, three tasks
overtake each other, the wall clock is unknown until NTP has answered and again after
its server was changed, each boot starts the monotone clock anew, rows disappear. On
all files that come about, `Best` is `bulk_iter_cb`'s choice, and `born`, the true order
of the stamps, says which row it should have been.

Abstractions: the rows of `LatestRow` are those of one phone (the code keeps one best row
per phone and compares only rows of the same); the wall clock, when known, is right.

### EventsPage and Timesheet

`EventsPage`: the handler counts the rows that match (`Count`) and walks the file a
second time (`Walk`), with the lock free in between, when the log grows and shrinks
by any action of `EventLog`. Rows of all workers it does not count but takes `cached`,
which the failures of `EventFile` (`Miscounts`) part from the file; either walk may find
that the file cannot be opened. `sure` is history: neither has happened to this request.

`Timesheet`: one line of the file goes to `paired_iter_cb`, `today_iter_cb` and
`cal_iter_cb` at once (`ReadLine`), each with its table: 16 open INs, 16 workers, one
bucket per day. So their answers can be compared with each other, and with the
declarative definition of a stay (`Stays`: an IN, and the next row of the same person),
at the end of every file. "The same person" is `Whose`; the code's `Matches` compares
ids or addresses.

Abstractions: midnights are multiples of `DayLen`; formatting of durations, names and
pages of HTML or JSON is left out.

### Attribution

The host task, the tick and the HTTP task each go through `find`, `create`,
`store` (between the two NVS writes, holding the lock), `read` (of `w->id`, after
the lock was given back) and `append`. `DeleteBegin`, `DeleteRows` and
`DeleteWorker` are the three calls of `workers_delete_post`. NVS writes, erasures
and appends may fail (`Faults`), and the device may restart anywhere. `issued` and
`gone` are history: every worker ever created, and the ids whose deletion was
answered with "ok", which a deletion is even if `nvs_erase_key` has failed.

Two tasks can be after the worker of one phone at once. `stamped` are the phones whose
next automatic row the debounce or `ack_event` would swallow; `Forget` ends that whenever
it may, as ten seconds pass, four other phones are recorded, or `ack_event` is cleared,
whether or not the recording that left the stamp has found its worker by then. If it has
not, the phone is in `outrun`, and may get two workers (`OneWorkerPerPeer`).

Abstractions: registry operations other than the creation are one step, as they
hold the lock throughout. Names are left out; restore and wipe of
workers are in `Restore`. `MaxId` bounds the ids; `uint16_t` overflow would take 65535 pairings.

### Restore

`restore_post` writes the password, wipes the registry (`WorkersWipe`), adds the workers of
the backup one by one (`WorkerRestore`, `WorkerNotRestored`) and answers
(`RestoreAnswer`). Each call locks for itself, so the presence engine can create a
worker between any two of them (`CreateWorker`). Every NVS write may fail and none of the
results is looked at; the power may go between any two writes and in the middle of
the wipe and of a creation (`PowerLoss`, `WipeCut`, `CreateCut`). `promised` is history:
the workers of the restore that was answered last. `leftOut` is history, too: the workers
of the backup that found the table full, of which the answer says nothing. `sound` says that since the registry was last wiped
clean no write failed and none was cut off from its partner, and becomes true again
with the next wipe only if no blob lies beyond `next_id`, where the wipe does not look.

### Session

`Login`, `Logout`, `Change`, `Setup`, `Restored`, `ResetPost` are the handlers,
`ResetButton` the boot button's task, which comes between any two of their steps.
`Candidates` is `find_slot_locked`. A password is two entries of NVS, salt and hash:
`WriteSalt`, `WriteHash`; either may fail (`WriteFails`), and `Reboot` may come between.
`cut` says that a hash was left without its salt, after which nobody can log in
and no set-up is possible until a factory reset: the code's only way out. A factory reset
erases entry by entry and looks at no result (`FactoryReset`): it may erase either, both,
or none, and in the last case the old password stays in force (`wanted`).

Abstractions: tokens and salts never coincide.

### LogTail and LogRing

`LogTail` promises the last `LogSize` bytes of what was logged. `LogRing` is the buffer with
`s_head` and `s_used`, the copy in one or two pieces (`Copied`), a line that is larger than
the buffer, readers that give up when the lock is busy. `KeepsTail` is the refinement.

### Device

NVS (`admin`, `wifi`, `loop`), flash (`image`, `other`, `trial`), and the RAM of the
WiFi manager. `Selected` is the bootloader with rollback; `Count` increments the boot-loop
counter, five seconds and two initialisations after `Boot`, and a crash before it is not
counted; `Validate` the 60 s timer, which
marks the image and clears the counter; `StaDisconnected` and `GotIp` the WiFi
events; `GiveUp` the timer that restarts into recovery. A SoftAP has a station, too
(APSTA, for its scans), which connects with the credentials that esp_wifi has kept in its
own flash area since the last `start_sta` (`driver`): they outlive a factory reset, and the
give-up timer may fire on a SoftAP. A set-up is two steps
(password, then credentials), and may be cut short between them, as may
everything else by `Crash`; the credentials may fail at either of their two writes, and an
SSID that is left closes the set-up to the next attempt (`botched`). A factory reset may
leave anything it could not erase.

`failed` and `outage` are history: the crashes of counted boots since a boot last lasted,
and for how long the station has had no network. `proven` says of an image that it has run for
the validation time once.

Abstractions: a tick is a few seconds; a scheduled restart comes before the next
one. A connection attempt takes one to `AttemptMax` ticks. An image either
runs or always dies before the validation. ESP-IDF accepts no upload while the
running image is pending. Salt and hash of the password are written as one, and
sessions are reduced to whether somebody is logged in (`Session` has both); failures of the
NVS calls around the counter are left out.

## Runs

| run | instance | question |
|---|---|---|
| `presence_rows` | 2 bonded phones, 2 slots, 2 links, HID, a log that may be locked; 3.6 M states | do IN and OUT alternate, are presence and link marks true? |
| `presence_slots` | 2 phones, 1 bond at a time, revoke and re-pairing under probes; 4.8 M states | are slots neither lost nor doubled, does no slot probe for ever? |
| `presence_world` | 1 phone, every event of the environment; 1.6 M states | is the scanner never forgotten, is an OUT never late? |
| `presence_live` | 2 phones that come and go; 94 K states | are departures and returns noticed? |
| `components` | EventFile, EventsPage, Timesheet, LatestRow, Debounce, Restore, Session, LogRing and Pairing side by side; 1.2 M states | does the file implement the log, is the count exact; are the answers made from it right and do they agree; is the latest row found; who is debounced; is a restore kept; who may log in; does the ring keep the tail; is the advertisement always on, does its filter follow the bonds? |
| `attribution` | 2 phones, 2 workers, ids up to 4, 3 tasks, all faults; 1.4 M states | are ids unique, RAM and NVS alike, workers not doubled? |
| `device` | threshold 2, short timers; 455 K states | does recovery open, is a set-up possible, is an unproven image tried once only, is giving up earned, does the station reconnect? |
| `orphan_out`, `out_while_linked`, `deleted_worker_row`, `recovery_closed`, `never_gives_up` | | [disagreements](#disagreements-found): each finds a counterexample |

**Why the bounds are enough.** Presence: what makes slots go wrong is one phone's
slot freed and taken by another while a probe, a row or an allocation for the first
is under way; two phones and two slots (or one bond, so that the second phone must
take the place of the first) reach it. Timers are one or two ticks (a tick stands
for about ten seconds there), in the order the code's constants have: probe,
cooldown, debounce, timeout; in `presence_rows` the debounce is two ticks, so that a row
can wait for less than the debounce. EventFile: four lines and a cap of three let rotation,
expiry and deletion keep nothing, something and everything. Attribution: with
two workers the table is full, and with four ids both can be deleted and two more
created, or one phone get two workers and then another. Device: `ValidAfter` of two ticks
separates crashes before and after the 60 s mark, and a threshold of two a second crash
from the first; the give-up time (4) is longer than a retry cycle and than the give-up
period. In `device` the give-up period is 2, so that the timer fires; in `never_gives_up`
it is 3, longer than a cycle of attempts that fail quickly (2 ticks), as the code's 60 s are.
The components that share a run follow.

- Pairing: two phones, so that one is bonded while the other pairs; one has a link at a
  time. Of the three tasks at most two are in the middle of something, and after a call
  has failed one, with no phone linked (`AtMostTwo`); the theorems have no such bound.
- EventsPage: a log of up to three rows of two workers, rotated beyond two; limits of one
  and two, so that a page is short, full, or must leave rows out; counts from none to three.
- Timesheet: files of four lines and two open INs: three INs crowd the table out and a
  fourth line closes one of those left. The lines stand before, at and after a
  midnight and on the next day; two ids have a bit in the calendar's mask, one has none. The
  list of today has room for two of the five that ask for it.
- LatestRow: three rows in the log suffice for a pair and one between them; a second
  is two ticks long, so that rows of one second exist; seven ticks hold a restart and
  rows on either side of it, with and without a time.
- Debounce: two slots and three phones (the code has four slots), a debounce of three
  in a boot of four ticks, so that what is dropped and what is forgotten both occur.
- Restore: room for two workers, ids up to three, and backups out of order, with an id
  twice, without an id and with one worker too many.
- Session: two slots and four logins, with which the oldest session is in either slot
  when it has to go; a lifetime of two in a boot of four ticks; two passwords.
- LogRing: a ring of three bytes and lines of up to four: shorter than the ring, as
  long, and longer; two byte values.

What small bounds cannot show is what the theorems are for.

**Side by side.** `MCComponents` holds components that share no state. `focus` is chosen in
the first state and says which of them moves; the others stay as they began. The states
are the sum of theirs, not the product, and an invariant of one says nothing of the
rest.

**Symmetry and views.** Phones are interchangeable in the safety runs of Presence
and Attribution; `presence_live` uses no symmetry. `SlotView` drops the history
variables and all of the rows but whether the last is an IN, the only thing a slot
depends on. `RowsView` keeps of the row before the last one only whether it is an IN.
`RegistryView` drops what decides about nothing the properties speak
of: the rows in the log, the ids on their way there, deleted ids, the phone of a recording
that has its worker, and which of the two BLE tasks does what. An append may always fail, so
the number of rows disables nothing that matters.

Two constraints end behaviours where the properties of the run promise nothing any more:
`StillTrusted` (`attribution`) when a failing write has been passed over, which is never
forgotten and on which all three properties are conditional; `NoLongWait` (`presence_rows`)
when a row has waited for as long as the debounce, which is not forgotten either. The marks
of links do not depend on rows and waits; what becomes of them after a long wait is left to
`MarksAreLinks`, which has no such bound.

**Fairness.** Presence: timers fire, blocked tasks resume, NimBLE ends a connect
procedure within its duration, and a link out of range is dropped by its supervision
timeout. Strong fairness stands where the host task takes events in order and a
callback in front only delays one. A phone that is in range and probed again and
again answers again and again; it may stay silent any number of times and never has
to advertise. Device: boots, timers and scheduled restarts happen; an attempt
ends; if the access point is in reach, an attempt succeeds now and then; an image
that does not run crashes. Nothing is assumed about users, crashes or the access
point. The safety runs use no fairness (`device` states it for
`StationReconnects` only).

**Deadlock** is checked in every run: a device can always do something.

## What is proved

All theorems hold for every value of the constants that satisfies the named
assumptions in the modules (sizes positive, times natural numbers, the probe
cooldown not longer than the re-probe interval, the debounce not longer than the
shortest timeout; all true of the code's constants). `BondedHaveSlots` assumes in
addition that there are slots for all phones, those no longer bonded included: a
slot is freed by a revoke only (`PRESENCE_MAX` is the number of bonds the code
lists). `PresenceTruthful` and `MarksAreLinks` assume in addition that nothing is
revoked (see `Known races` below), and `PresenceTruthful` that it is one boot: `Boot`
takes the presence of the phones from the log and hears nothing, so a phone that left
while the device was off is shown as present until the timeout. Where a property depends
on `waits`, the theorem says the same.

| theorem | says | inductive invariant |
|---|---|---|
| `PresenceProofs!TypeCorrect` | `TypeOK` | `Typed`: in addition, a link in use has a peer |
| `ScannerNeverLost` | `ScannerKept` | itself, with `Typed`: the callback that ends a probe arms the timer or is about to start the scanner; what remains is a start that was refused |
| `ProbingOwns` | `ProbingOwnsConn` | `Timed` (see next) |
| `OutIsPrompt` | `PromptOut` | `Timed`: a bound on `seen` per slot (`SeenBound`: whether it is probing, how old its probe is, where the tick stands), that a probing slot owns the procedure, that a free slot is absent |
| `SlotsDistinct` | `OneSlotPerPeer` | itself, from what the search for a slot returns |
| `BondedHaveSlots` | `BondedTracked`, if there are no more phones than slots (`EnoughSlots`) | `Tracked`: a list of bonds read by ENC_CHANGE still holds all bonds (only it adds any), and a phone whose slot a revoke will free has no bond. Slots that are all taken hold every phone, by counting (`FullHoldsAll`) |
| `PresenceTruthful` | `PresenceIsTrue`, if in addition nothing is revoked (`NoRevocation`) and there is no reboot | `Truthful`: a mark stands for a link (`Marks`), a linked phone is being heard, and the age of a present slot is no less than the time since its phone was heard (`Fresh`). A probe's slot index (`Aims`) and its link's handle (`ProbeLinks`) still lead to its phone, and what a blocked host task goes on to do still holds (`Holds`) |
| `MarksAreLinks` | `ConnectedMeansLinked`, under the same assumptions | `Truthful`; `Visited` keeps a tick that is recording an IN at a slot in use |
| `OutFollowsIn`, `InFollowsNoIn`, `AbsentIsClosed` | `NoOrphanOut`, `NoDoubleIn`, `AbsentMeansClosed`, if nothing cuts rows apart (`Undisturbed`) | `UntilLong`: until a row has waited for as long as the debounce, `Alternating`. For a slot (`SlotsKnow`): unless `ack_event` is set, the last row is no IN (`Denies`); if it is set on an absent slot, the tick has the OUT in hand (`Leaving`); the last OUT of a present phone was stamped before it was last seen, or no debounce remembers it (`Left`). While nobody has waited: if `ack_event` is set, the IN is in the log or on its way (`Believes`) and was stamped no more than a tick after the phone was last seen (`Since`), and an IN that is due comes within a tick (`Soon`). A phone without a slot has no IN open (`UnheldClosed`), what the debounce remembers fits the last row or one that waits (`Stamped`), and what the tick (`TickRecords`) or the host task (`HostRecords`) has left to record is no second IN when it comes to it (`NoSecond`) |
| `EventFileProofs!KeepsTheLog` | `KeepsLog` (refinement) | `Copying`: a rewrite keeps lines the log allows it to keep (`Reasoned`), and `tmp` holds those read so far (`Copied`) |
| `CountIsExact` | `CountIsLines` | itself, with `Copying` |
| `PairingProofs!AdvertisingKeptAlways` | `AdvertisingKept` | `PairInv`: `InHand`, while the advertisement is off some task is in `start_advertising` with an instance that fits (`Fits`), or is on its way there (`Leads`), or a restart or an ADV_COMPLETE is due, or a call has failed |
| `FilterFollowsAlways` | `FilterFollows` | `FilterInv`: while the tasks take turns at most one is at it (`Turns`); what is on is right unless a stop is to come (`Settled`), whoever has stopped it finds it off (`Stopping`), and a run carries the right filter from the moment it chose it (`Carries`) |
| `RowsProofs!ForgetsOnlyInACrowdAlways` | `ForgetsOnlyInACrowd` (of steps) | `DebounceInv`: `Held`, either the table still knows when a row of the phone last passed, or at least `DebounceSlots` others have passed since. The step that evicts is `Crowd`: the phones in the slots are distinct and were all heard later, an injection from slots to `since` |
| `NothingIsInventedAlways`, `PairedIsCompleteAlways` | `NothingIsInvented`, `PairedIsComplete` | `SheetInv`: each IN that was read is in exactly one place: open, shown, or lost (`Carried`); while it is not crowded what is shown and open are the stays and the INs that wait (`Complete`). There is room for one more IN because the open ones are an injection into those that are in (`RoomLeft`) |
| `TodayAgreesAlways` | `TodayAgrees` | `TodayInv`, on top of `SheetInv`: asked for the rows from today on, the list has everybody once while there is room (`EachOnce`, `AllListed`), and an entry has the IN that no row followed, the number of the stays that ended and the sum of their times (`AllRight`). Both sums are folds that take elements in an order of `CHOOSE`'s; that a sum over a finite set has a value and does not depend on the order is shown by the least set for which it would not (`SumsExist`, `SumsAny`) |
| `CalendarAgreesAlways` | `CalendarAgrees` | `CalendarInv`: every bucket holds what the rows read so far give its day (`Agreed`); the bucket that `cal_iter_cb` computes by division is the day whose window the row is in (`DayOf`) |
| `LatestRowsAlways` | `LatestRows` | `PageInv`: unless rows were dropped or the count was wrong (`sure`), the log as it was counted is the beginning of the one that is walked, and the offset is the surplus of its rows over the page (`Grown`); the rest is counting ranks (`Ranking`, `PageOfLatest`) |
| `LatestIsFoundAlways` | `LatestIsFound` | `LatestInv`: rows of one boot share a clock and boots are two seconds apart, so that rows of one second are of one boot (`Booted`); a row's time says when it was begun (`Dated`), and a row without one stands in its turn, unless it was stored late (`InOrder`). The walk's function is shown to exist and to be right by the least number of rows for which it would not (`WalkExists`, `WalkHolds`) |
| `LogRingProofs!KeepsTailAlways` | `KeepsTail` (refinement) | `RingOK`, the types; the work is in `PlaceAfter`, which says at which offset the k-th of the last n bytes lies after a line was copied, and what was there before |
| `SystemProofs!SessionsEarned` | `SessionsAreEarned` | `Sessioned`: every slot in use holds a login of this boot with its time (`Slotted`), no two the same one; logins are in the order of time (`Ordered`) and fit the password in force unless the device is leaving (`Fitting`) |
| `PasswordWorksAlways` | `PasswordWorks` | `Whole`, part of `Sessioned`: the hash in NVS is that of `wanted`, and stands with its own salt unless `cut` or while it is being written |
| `EvictsTheOldestAlways` | `EvictsTheOldest` (of steps) | `Sessioned`, and a bijection from the slots to the valid sessions when none is free |
| `RestoredInNvsAlways`, `RestoredIsKeptAlways` | `RestoredInNvs`, `RestoredIsKept` | `RestoreInv`: while NVS is sound the workers in RAM are those stored below `next_id` (`Agrees`), nothing is stored beyond it and all that is stored fits into the table (`Beyond`); of a backup, the workers the restore came past are in place unless a later one of the same id took it (`Added`), and what was promised is stored (`Promised`) |
| `AttributionProofs!IdsStandForOnePhone` | `IdsAreNotReused` | `IdInv`: ids issued are below the stored `nvsNext`, which is one behind `next` while a creation is between its writes (`Numbered`); only one is (`Shaped`) |
| `WritesThroughAlways` | `WritesThrough` | `RegInv`: `Agrees`, the workers in RAM and those below `nvsNext` in NVS are the same but for the one being stored (`Stored`, `Known`, `Behind`), in slots of their own (`Unique`). For a restart: the ranks of the ids in NVS are counted through (`Ranking`), and there is room for all (`RoomForAll`) |
| `OneWorkerPerPeerAlways` | `OneWorkerPerPeer` | `RegInv`: `Recording`, what a task found out before it took the lock again still holds; and `Apart`, a phone that a BLE task is looking up is stamped, so that no second task begins, or is in `outrun` (`StillApart`, `Forgets`) |
| `DeviceProofs!TypeCorrect` | `TypeOK` | itself |
| `RecoveryOpensInTime` | `RecoveryOpens` | `RecoveryInv`: the crashes of counted boots are at most one ahead of the counter, and not at all once a boot has counted itself |
| `ProvisionedStations` | `StationIsProvisioned` | itself |
| `SetupStaysReachable` | `SetupReachable` | `OpenInv`: on a SoftAP the password or the SSID is missing, or a set-up is between its writes, or a restart is scheduled, or a set-up has failed with the SSID written |
| `UnprovenStayOnTrial` | `UnprovenOnTrial` | `TrialInv`: what is not on trial is proven, and so is what a trial goes back to |
| `GivingUpIsEarned` | `GiveUpIsEarned` (of steps) | `EarnedInv`: a stamp is never older than the outage it stamps, and a device without credentials to connect with has none |

`NoOrphanOut`, `NoDoubleIn` and `AbsentMeansClosed` are proved where nothing cuts a
pair of rows apart by design: no revoke, wipe, change of the clock, reboot, failing
append or late clock (`Undisturbed`); the run `orphan_out` shows what a late clock
does. Waiting for the log is in both. `presence_rows` checks them in such a world; the
theorems allow in addition that phones pair again, that the controller refuses and that
the timeout is changed.

Only model-checked is liveness (`DepartureNoticed`, `ReturnNoticed`,
`StationReconnects`), since fairness is out of the prover's reach.

## Disagreements found

- `orphan_out`. `dd_ble.c:429` promises "no orphan OUTs". A phone is seen before the
  clock is known. Once it is, the tick backfills the IN and records the OUT in one
  visit; the phone returns within the debounce, its IN is swallowed, `ack_event` is set
  all the same, and the next OUT stands alone.
- `out_while_linked`. A phone that pairs keeps its HID link, but its slot is made
  only after CONNECT, so it is never marked connected (`dd_ble.c:863-865`). Once it has
  been seen by an advertisement it is present, its probe is refused because it is
  linked, and at the timeout the tick takes it for gone.
- `deleted_worker_row`. "Single click, fully gone" (`dd_http_devices.c:154-155`):
  a recorder that has already looked the worker up appends its row after the rows
  were deleted.
- `recovery_closed`. The recovery SoftAP is there "so the user can fix WiFi creds"
  (`dd_wifi.c:74-75`), but after 60 s the counter that means recovery is cleared and
  `/api/setup` answers 409, while the device stays a SoftAP. Related: a set-up
  within those 60 s restarts with the counter still at the threshold, so the next
  boot is a recovery again.
- `never_gives_up`. Each slow retry starts the 60 s give-up timer afresh. If six
  attempts take less than 60 s, as when the access point is gone, it never fires.

**Known races without a run of their own**, seen in the models or the code:

- A download that holds the lock of the log for ten seconds or more lets host task and
  tick record two INs of one phone: the stamp of the first is older than the debounce when
  the second comes (`waits`).
- A scanner that the controller refused to start stays off until a probe has ended
  (`dd_ble.c:504-511`). Without a bonded phone there is no probe.
- If the password of the network cannot be written after its SSID, `setup_post` answers
  500, does not restart, and answers 409 from then on, though the comment at
  `dd_http_devices.c:279-281` says the caller can retry.
- A boot that dies before it is counted (`main.c:201-221`) is not seen by the boot-loop
  counter.
- The station of a SoftAP, with credentials left in esp_wifi's flash, can give up and
  restart the device in the midst of a set-up.
- Two tasks can create two workers of one phone, if one of them stands before
  `s_lock` for longer than the phone's debounce lasts.
- A restore whose table was filled by a worker the tick has created leaves a worker of
  the backup out, and is answered "restored".
- A factory reset that cannot erase the password says "ok", and the password stays; one
  that erases the salt alone locks everybody out until the next.
- A wrong cached count makes the page of the latest rows of all workers begin too late or
  too early (`dd_http_attendance.c:135`).
- `probe_event_cb` finds its slot by index. If the bond was revoked and the slot
  taken by another phone meanwhile, that phone is marked connected:
  `ConnectedMeansLinked` fails as soon as `presence_rows` includes `"revoke"`.
- `dd_worker_lookup_or_create` returns `w->id` after giving the lock back
  (`dd_worker.c:193`). A deletion and a creation in between make it the id of
  another phone's worker, and the row goes there.
- `ENC_CHANGE` of a phone whose bond is being revoked can allocate a slot for it
  after the slot was freed.
- REPEAT_PAIRING deletes a bond and does not refresh the filter list (the comment at
  `dd_ble.c:995-996` counts on it), nor free the presence slot.
- `dd_ble_pairing_cancel` does not drop the connection of the phone that is pairing,
  though the comment at `dd_ble.c:946-948` reads as if it did; and `ENC_CHANGE` of *any*
  bonded phone closes the window and drops the number that another phone shows.
- `ENC_CHANGE` stops the window's timer (`dd_ble.c:1202`), which may be that of a window
  httpd has just opened: nothing then ends it, and the filter stays open until the
  advertisement is next restarted.
- `adv_restart_cb` clears `s_advertising` but does not stop an instance that is on, so
  the status can say "not advertising" while it is.
- The debounce forgets a phone when four others have been recorded since
  (`ForgetsOnlyInACrowd` is what is left of it).
- A row of a phone between two restarts of the clock can be taken for its latest, when it was
  stored late and one of the two has no time (`straddled` in `LatestRow`).
- A restore shares the registry with the presence engine: a worker the tick has created
  meanwhile can be overwritten by one of the backup, or stand beside another worker of
  the same phone. A blob that a cut creation left at `next_id` survives the wipe,
  and comes back as a worker nobody knows when `next_id` has passed it. A restore that is cut short
  after the password was written cannot be repeated: it answers 409.
- A factory reset does not wipe the workers, though `dd_config.c:272-273` says the caller
  does; and its sessions stay valid until the restart.
- A password whose salt is written and whose hash is not locks everybody out until
  a factory reset (`cut` in `Session`).
- `dd_metrics_reset` and the uptime saved by the main loop may overlap
  (`dd_config.c:365-394`), and the old numbers come back.
- A station that did give up comes up as a SoftAP and stays one after the access
  point returns, though `dd_wifi.c:33-34` speaks of a fresh attempt.
- An administrator's restart within 60 s of an update rolls the update back.
- `BOOT_LOOP` is stored during the boot it is about (`main.c:225`), so it is
  reported one boot late (`dd_config.h:83-85`).

## Not modelled

- The LED, the captive portal's DNS answers, `util` and the web page: they keep no state
  that anything depends on.
- Restart cause, uptime and other metrics, device name, time zone, LED settings:
  single values, set and shown.
- Key derivation, JSON, HTML and CSV as text; mDNS and the WiFi scan.
- A clock that steps back after it was set: `time_sync` takes NTP's answer to be right.
- A partition that fails to mount once and is formatted (`dd_storage.c:44`), and a read error
  that is taken for the end of the file when the log is copied (`dd_storage.c:320`; `Recount` has it): both lose rows by design of the code,
  and a property would only restate it.
- The wrap of `next_id` after 65535 workers.
- What a reset of the BLE host does to a probe under way. `Pairing` has the reset; in `Presence`
  it would double the environment of every run.
- The order in which `app_main` starts the components, which nothing interrupts.
- The vendored and generated parts of the tree.

TLAPS cannot prove liveness.

## Plan

The order followed what would hurt most: first who is in the room, then that rows are
kept, then whose they are, then that the device stays reachable; then what is read back
from the log, who may pair, and who may log in. All modules of that plan are there.
Left:

1. An abstract specification of attendance, `Presence` without probes and slots, of which
   `Presence` is a refinement where no wipe and no late clock occurs.
2. Proofs: that refinement; the rows of a phone under revoke and reboot, each of which
   `Undisturbed` leaves out as a whole.
3. The reset of the BLE host in `Presence`; the restart cause in `Device`.
