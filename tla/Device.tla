-------------------------------- MODULE Device --------------------------------
(***************************************************************************)
(* How the device starts, joins the network, and gets out of trouble: boot *)
(* and OTA trial (main.c), the boot-loop counter and the provisioning kept *)
(* in NVS (components/config), the station with its retries and its        *)
(* give-up timer (components/wifi_mgr), and the handlers that set up,      *)
(* reset, restart or update it (components/http_app).                      *)
(*                                                                         *)
(* Time.  A Tick is a few seconds; timers and stamps are counted in ticks, *)
(* up to where nothing tells them apart any more.  A restart that a        *)
(* handler has scheduled (0.5 to 2 s) comes before the next tick; until    *)
(* then every handler, callback or crash may still come first.             *)
(***************************************************************************)
EXTENDS Integers

CONSTANTS
    Threshold,      \* DD_BOOT_LOOP_RECOVERY_THRESHOLD
    ValidAfter,     \* the 60 s of schedule_ota_validation
    RetryMax,       \* STA_RETRY_MAX
    AttemptMax,     \* the longest a connection attempt takes
    GiveUpPeriod,   \* the 60 s period of sta_giveup
    GiveUpAfter     \* STA_GIVE_UP_MS

ASSUME DeviceAssumption ==
    /\ Threshold \in Nat \ {0} /\ ValidAfter \in Nat \ {0} /\ RetryMax \in Nat
    /\ AttemptMax \in Nat \ {0} /\ GiveUpPeriod \in Nat \ {0} /\ GiveUpAfter \in Nat

VARIABLES
    admin,      \* NVS: an admin password is set
    wifi,       \* NVS: no WiFi credentials (no SSID), right ones, wrong ones
    loop,       \* NVS: KEY_BOOT_LOOP
    image,      \* flash: the running image; proven is history (see Proven)
    other,      \* flash: the image in the other OTA slot
    trial,      \* otadata: "new" is uploaded, "pending" is ESP_OTA_IMG_PENDING_VERIFY
    phase,      \* off, waking (not counted yet), starting (app_main up to dd_wifi_start),
                \* running
    uptime,     \* of this boot since it was counted; ValidAfter + 1 once
                \* ota_mark_valid_cb has run
    restart,    \* esp_restart is scheduled
    setup,      \* setup_post between its two writes: the credentials to come
    botched,    \* history: set-up failed in this boot, and left an SSID in NVS
    session,    \* somebody is logged in
    mode,       \* none, sta, ap (dingdong-setup-XXXX), rec (dingdong-rec-XXXX)
    using,      \* the credentials the station connects with
    driver,     \* the credentials esp_wifi has kept in its own flash area
    state,      \* s_state
    retry,      \* s_sta_retry
    attempt,    \* age of the running connection attempt, or Off
    down,       \* age of s_sta_down_since_us, or Off
    giveup,     \* ticks since s_sta_giveup_timer was started or last fired, or Off
    router,     \* the access point can be reached
    failed,     \* history: crashes of counted boots since one last got to ValidAfter
    outage      \* history: for how long the station has had no network

nvs == <<admin, wifi, loop>>
flash == <<image, other, trial>>
boot == <<phase, uptime, restart, setup, session, botched>>
net == <<mode, using, driver, state, retry, attempt, down, giveup>>
vars == <<admin, wifi, loop, image, other, trial, phase, uptime, restart, setup, session,
          botched, mode, using, driver, state, retry, attempt, down, giveup, router, failed, outage>>

Off == -1
LoopMax == Threshold + 1            \* nothing tells larger counts apart
Creds == {"none", "good", "bad"}
AtMost(n, max) == IF n < max THEN n ELSE max
Aged(age, max) == IF age = Off THEN Off ELSE AtMost(age + 1, max)

\* An image of an OTA slot: one that runs, one that always dies before ValidAfter, or
\* none; `proven' (history): it has once run for ValidAfter.
Images == [runs : BOOLEAN, proven : BOOLEAN]
NoImage == [runs |-> FALSE, proven |-> FALSE]
Factory == [runs |-> TRUE, proven |-> TRUE]

Validated == uptime > ValidAfter
InRecovery == loop >= Threshold
Up == phase \in {"starting", "running"}
Reachable == phase = "running" /\ (mode \in {"ap", "rec"} \/ state = "got_ip")

Init ==
    /\ admin = FALSE /\ wifi = "none" /\ loop = 0
    /\ image = Factory /\ other = NoImage /\ trial = "no"
    /\ phase = "off" /\ uptime = 0 /\ restart = FALSE /\ setup = "no" /\ session = FALSE
    /\ botched = FALSE
    /\ mode = "none" /\ using = "none" /\ driver = "none" /\ state = "down"
    /\ retry = 0 /\ attempt = Off /\ down = Off /\ giveup = Off
    /\ router \in BOOLEAN
    /\ failed = 0 /\ outage = 0

(***************************************************************************)
(* Boot.                                                                   *)
(***************************************************************************)
\* The bootloader: a new image is tried once, and given up when the device comes up
\* again without having validated it.
Selected ==
    IF trial = "no" THEN UNCHANGED flash
    ELSE /\ image' = other
         /\ other' = IF trial = "new" THEN image ELSE NoImage
         /\ trial' = IF trial = "new" THEN "pending" ELSE "no"

Boot ==
    /\ phase = "off"
    /\ Selected
    /\ phase' = "waking"
    /\ UNCHANGED <<nvs, uptime, restart, setup, session, botched, net, router, failed, outage>>

\* app_main counts the boot, after the five seconds it leaves to the serial port and
\* after dd_config_init and dd_session_init.  The timers are started then.
CountedOnTrial == IF trial = "no" THEN loop ELSE AtMost(loop + 1, LoopMax)  \* mutant
Counted == AtMost(loop + 1, LoopMax)

Count ==
    /\ phase = "waking"
    /\ loop' = Counted
    /\ phase' = "starting"
    /\ UNCHANGED <<admin, wifi, flash, uptime, restart, setup, session, botched, net, router,
                   failed, outage>>

\* dd_wifi_start.  In recovery mode the SoftAP is forced; otherwise it is opened when
\* the password or the credentials are missing.  The SoftAP, too, runs with a station,
\* for its scans, and WIFI_EVENT_STA_START sends that to the network which the last
\* start_sta has left with esp_wifi.
UnprovisionedNoAdmin == ~admin                                  \* mutant
Unprovisioned == ~admin \/ wifi = "none"

WifiStart ==
    /\ phase = "starting"
    /\ phase' = "running"
    /\ \/ /\ InRecovery
          /\ mode' = "rec" /\ state' = "ap"
          /\ using' = driver /\ UNCHANGED driver
       \/ /\ ~InRecovery /\ Unprovisioned
          /\ mode' = "ap" /\ state' = "ap"
          /\ using' = driver /\ UNCHANGED driver
       \/ /\ ~InRecovery /\ ~Unprovisioned
          /\ mode' = "sta" /\ state' = "connecting"
          /\ using' = wifi /\ driver' = wifi
    /\ attempt' = IF using' = "none" THEN Off ELSE 0
    /\ UNCHANGED <<nvs, flash, uptime, restart, setup, session, botched, retry, down, giveup,
                   router, failed, outage>>

\* ota_mark_valid_cb, also when app_main has not come to dd_wifi_start by then.
ValidationDueAtOnce == Up /\ ~Validated              \* mutant
ValidationDue == Up /\ uptime = ValidAfter

Validate ==
    /\ ValidationDue
    /\ uptime' = ValidAfter + 1
    /\ trial' = IF trial = "pending" THEN "no" ELSE trial
    /\ image' = [image EXCEPT !.proven = @ \/ uptime = ValidAfter]
    /\ loop' = 0
    /\ failed' = 0
    /\ UNCHANGED <<admin, wifi, other, phase, restart, setup, session, botched, net, router, outage>>

\* RAM after a reset.
Reset ==
    /\ phase' = "off" /\ uptime' = 0 /\ restart' = FALSE /\ setup' = "no"
    /\ session' = FALSE /\ botched' = FALSE
    /\ mode' = "none" /\ using' = "none" /\ state' = "down"
    /\ retry' = 0 /\ attempt' = Off /\ down' = Off /\ giveup' = Off
    /\ outage' = 0
    /\ UNCHANGED driver

\* A panic, a watchdog, a power cut; unseen by the counter before it has counted.
Crash ==
    /\ phase # "off"
    /\ failed' = IF Validated THEN 0
                 ELSE IF Up THEN AtMost(failed + 1, Threshold) ELSE failed
    /\ Reset
    /\ UNCHANGED <<nvs, flash, router>>

\* esp_restart of schedule_restart, boot_button_task or heap_check_cb.
Restart ==
    /\ restart
    /\ Reset
    /\ UNCHANGED <<nvs, flash, router, failed>>

\* What is due comes before time goes on, and an image that does not run dies in time.
Tick ==
    /\ Up /\ ~restart
    /\ ~ValidationDue
    /\ attempt < AttemptMax
    /\ giveup < GiveUpPeriod
    /\ image.runs \/ uptime + 1 < ValidAfter
    /\ uptime' = AtMost(uptime + 1, ValidAfter + 1)
    /\ attempt' = Aged(attempt, AttemptMax)
    /\ down' = Aged(down, GiveUpAfter)
    /\ giveup' = Aged(giveup, GiveUpPeriod)
    /\ outage' = IF using # "none" /\ state # "got_ip" THEN AtMost(outage + 1, GiveUpAfter) ELSE 0
    /\ UNCHANGED <<nvs, flash, phase, restart, setup, session, botched, mode, using, driver,
                   state, retry, router, failed>>

(***************************************************************************)
(* The station: on_wifi_event and sta_giveup_cb.                           *)
(***************************************************************************)
\* WIFI_EVENT_STA_DISCONNECTED: a few quick retries, then slow-retry mode, which is
\* another attempt at once, with the count reset and the give-up timer started afresh.
ReconnectedAfterFailure == IF state = "got_ip" THEN Off ELSE 0   \* mutant
Reconnected == 0
QuickRetryOnceMore == retry <= RetryMax                         \* mutant
QuickRetry == retry < RetryMax

StaDisconnected ==
    /\ down' = IF down = Off THEN 0 ELSE down
    /\ attempt' = Reconnected
    /\ \/ /\ QuickRetry
          /\ retry' = retry + 1
          /\ state' = "connecting"
          /\ UNCHANGED giveup
       \/ /\ ~QuickRetry
          /\ retry' = 0
          /\ state' = "down"
          /\ giveup' = 0
    /\ UNCHANGED <<nvs, flash, boot, mode, using, driver, router, failed, outage>>

AttemptFails == attempt >= 1 /\ StaDisconnected
LinkLost == state = "got_ip" /\ StaDisconnected

\* IP_EVENT_STA_GOT_IP.
DownAfterIpKept == down                                         \* mutant
DownAfterIp == Off

GotIp ==
    /\ attempt >= 1 /\ router /\ using = "good"
    /\ retry' = 0 /\ down' = DownAfterIp /\ giveup' = Off
    /\ state' = "got_ip"
    /\ attempt' = Off
    /\ UNCHANGED <<nvs, flash, boot, mode, using, driver, router, failed, outage>>

\* sta_giveup_cb: nothing, or the next boot is made a recovery and the device restarted.
GivesUp == state # "got_ip" /\ down # Off /\ down >= GiveUpAfter

GiveUpWaits ==
    /\ giveup = GiveUpPeriod /\ ~GivesUp
    /\ giveup' = 0
    /\ UNCHANGED <<nvs, flash, boot, mode, using, driver, state, retry, attempt, down, router,
                   failed, outage>>

GiveUp ==
    /\ giveup = GiveUpPeriod /\ GivesUp
    /\ loop' = IF InRecovery THEN loop ELSE Threshold
    /\ failed' = Threshold
    /\ Reset
    /\ UNCHANGED <<admin, wifi, flash, router>>

(***************************************************************************)
(* The handlers, one at a time on the httpd task, and the boot button.     *)
(***************************************************************************)
Idle == Reachable /\ setup = "no"
Scheduled == restart' = TRUE

\* setup_post, which asks for no login: refused once everything is set, except in
\* recovery.  The password is written first; it must be given if there is none, and may
\* not be given otherwise.
SetupOpen == ~admin \/ wifi = "none" \/ InRecovery

SetupAdmin(c) ==
    /\ Idle /\ SetupOpen /\ ~admin
    /\ admin' = TRUE
    /\ setup' = c
    /\ UNCHANGED <<wifi, loop, flash, phase, uptime, restart, session, botched, net, router, failed, outage>>

SetupBegin(c) ==
    /\ Idle /\ SetupOpen /\ admin
    /\ c # "none"
    /\ setup' = c
    /\ UNCHANGED <<nvs, flash, phase, uptime, restart, session, botched, net, router, failed, outage>>

AfterSetupUnlessWifi == IF setup = "none" THEN TRUE ELSE restart        \* mutant
AfterSetup == TRUE

SetupWifi ==
    /\ setup # "no"
    /\ wifi' = IF setup = "none" THEN wifi ELSE setup
    /\ restart' = AfterSetup
    /\ setup' = "no"
    /\ UNCHANGED <<admin, loop, flash, phase, uptime, session, botched, net, router, failed, outage>>

\* dd_config_set_wifi fails, at the SSID or, with that stored, at the password: what
\* was written stays, and there is no restart.
SetupFails ==
    /\ setup \in {"good", "bad"}
    /\ setup' = "no"
    /\ wifi' \in {wifi, "good", "bad"}
    /\ botched' = (wifi' # "none")
    /\ UNCHANGED <<admin, loop, flash, phase, uptime, restart, session, net, router, failed,
                   outage>>

\* restore_post: a backup holds credentials, a password, both or neither, and whether
\* they could be written is not looked at.
Restore(c, a) ==
    /\ Idle /\ ~admin
    /\ admin' = a
    /\ wifi' = IF c = "none" THEN wifi ELSE c
    /\ Scheduled
    /\ UNCHANGED <<loop, flash, phase, uptime, setup, session, botched, net, router, failed, outage>>

\* auth_login_post, the end of the last session, and auth_change_password_post, which
\* ends every session.
Login ==
    /\ Idle /\ admin /\ ~session
    /\ session' = TRUE
    /\ UNCHANGED <<nvs, flash, phase, uptime, restart, setup, botched, net, router, failed, outage>>

Logout ==
    /\ Idle /\ session
    /\ session' = FALSE
    /\ UNCHANGED <<nvs, flash, phase, uptime, restart, setup, botched, net, router, failed, outage>>

ChangePassword ==
    /\ Idle /\ admin /\ session
    /\ session' = FALSE
    /\ UNCHANGED <<nvs, flash, phase, uptime, restart, setup, botched, net, router, failed, outage>>

RestartPost ==
    /\ Idle /\ session
    /\ Scheduled
    /\ UNCHANGED <<nvs, flash, phase, uptime, setup, session, botched, net, router, failed, outage>>

\* dd_config_factory_reset erases the counter with everything else.  Whatever it could
\* not erase stays, an SSID perhaps without its password, and nobody looks.
FactoryReset ==
    /\ admin' \in {admin, FALSE}
    /\ wifi' \in {wifi, "none"} \cup (IF wifi = "none" THEN {} ELSE {"bad"})
    /\ loop' \in {loop, 0}
    /\ failed' = IF loop' = 0 THEN 0 ELSE failed
    /\ Scheduled
    /\ UNCHANGED <<flash, phase, uptime, setup, session, botched, net, router, outage>>

FactoryResetPost == Idle /\ session /\ FactoryReset
ButtonHeld == Up /\ ~restart /\ FactoryReset
HeapCritical ==
    /\ Up /\ ~restart
    /\ Scheduled
    /\ UNCHANGED <<nvs, flash, phase, uptime, setup, session, botched, net, router, failed, outage>>

\* ota_post, all of it; ESP-IDF takes no image while the running one is on trial.
Ota(runs) ==
    /\ Idle /\ session
    /\ trial # "pending"
    /\ other' = [runs |-> runs, proven |-> FALSE]
    /\ trial' = "new"
    /\ Scheduled
    /\ UNCHANGED <<nvs, image, phase, uptime, setup, session, botched, net, router, failed, outage>>

RouterChanges ==
    /\ router' = ~router
    /\ UNCHANGED <<nvs, flash, boot, net, failed, outage>>

-----------------------------------------------------------------------------
Timers == Tick \/ Validate \/ Restart \/ GiveUpWaits \/ GiveUp
Station == AttemptFails \/ LinkLost \/ GotIp
Handlers ==
    \/ \E c \in Creds : SetupAdmin(c) \/ SetupBegin(c) \/ \E a \in BOOLEAN : Restore(c, a)
    \/ SetupWifi \/ SetupFails
    \/ Login \/ Logout \/ ChangePassword \/ RestartPost \/ FactoryResetPost
    \/ \E runs \in BOOLEAN : Ota(runs)
World == Crash \/ ButtonHeld \/ HeapCritical \/ RouterChanges

Next == Boot \/ Count \/ WifiStart \/ Timers \/ Station \/ Handlers \/ World

Spec == Init /\ [][Next]_vars

(***************************************************************************)
(* Fairness.  The device boots, timers fire and scheduled restarts happen; *)
(* a connection attempt ends, and one that the access point could answer   *)
(* does get an answer now and then; an image that does not run crashes.    *)
(***************************************************************************)
Fairness ==
    /\ WF_vars(Boot) /\ WF_vars(Count) /\ WF_vars(WifiStart)
    /\ WF_vars(Tick) /\ WF_vars(Validate) /\ WF_vars(Restart)
    /\ WF_vars(GiveUpWaits \/ GiveUp)
    /\ WF_vars(SetupWifi \/ SetupFails)
    /\ WF_vars(AttemptFails \/ GotIp) /\ SF_vars(GotIp)
    /\ WF_vars(~image.runs /\ Crash)

FairSpec == Spec /\ Fairness
-----------------------------------------------------------------------------
(***************************************************************************)
(* Properties.                                                             *)
(***************************************************************************)
\* The type of every variable.
TypeOK ==
    /\ admin \in BOOLEAN /\ wifi \in Creds /\ loop \in 0..LoopMax
    /\ image \in Images /\ other \in Images /\ trial \in {"no", "new", "pending"}
    /\ phase \in {"off", "waking", "starting", "running"}
    /\ uptime \in 0..(ValidAfter + 1)
    /\ restart \in BOOLEAN /\ setup \in Creds \cup {"no"} /\ session \in BOOLEAN
    /\ botched \in BOOLEAN
    /\ mode \in {"none", "sta", "ap", "rec"} /\ using \in Creds /\ driver \in Creds
    /\ state \in {"down", "ap", "connecting", "got_ip"}
    /\ retry \in 0..RetryMax
    /\ attempt \in {Off} \cup 0..AttemptMax
    /\ down \in {Off} \cup 0..GiveUpAfter
    /\ giveup \in {Off} \cup 0..GiveUpPeriod
    /\ router \in BOOLEAN
    /\ failed \in 0..Threshold /\ outage \in 0..GiveUpAfter

\* After Threshold boots in a row that were counted and crashed before they were healthy,
\* or a station that gave up, the device comes up as a SoftAP (README.md:25-27), whatever
\* restarts, set-ups, updates and resets happened in between.  (A boot that dies before
\* main.c:221 is not counted, however often.)
RecoveryOpens == mode = "sta" => failed < Threshold

\* The device joins a network only when it is provisioned, or is about to restart:
\* otherwise it would be out of reach of whoever is to provision it.
StationIsProvisioned == mode = "sta" => (admin /\ wifi # "none") \/ restart

\* A SoftAP that waits to be set up lets itself be set up, or is about to restart,
\* although a set-up may stop after each of its writes (dd_http_devices.c:279-281), unless
\* a set-up has failed and left an SSID behind: that one alone shuts the next out, with
\* 409, although the comment has it that the caller can try again.
SetupReachable ==
    mode = "ap" => SetupOpen \/ setup # "no" \/ restart \/ botched

\* A new image that never got to ValidAfter does not run a second time: what runs is on
\* trial or has proven itself (the first layer of README.md:23-27).
UnprovenOnTrial == phase # "off" => trial = "pending" \/ image.proven

\* A station gives up only after it really had no network for GiveUpAfter, in a SoftAP's
\* APSTA mode as well.
GiveUpIsEarned == [][GiveUp => outage >= GiveUpAfter]_vars

\* A station with the right credentials, and an access point that stays in reach, gets
\* its address again and again: no sequence of failed attempts ends the retries.
StationReconnects ==
    <>[](mode = "sta" /\ using = "good" /\ router /\ phase = "running")
        => []<>(state = "got_ip")

\* A SoftAP opened by a recovery, too, can be set up (dd_wifi.c:74-75).
RecoveryIsFixable ==
    mode = "rec" => SetupOpen \/ setup # "no" \/ restart

\* A station that gets no network does not stay one (README.md:26-27).
GivesUpInTheEnd == ~<>[](mode = "sta" /\ state # "got_ip")

=============================================================================
