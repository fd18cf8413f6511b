------------------------------- MODULE Pairing -------------------------------
(***************************************************************************)
(* The HID advertisement of components/ble/dd_ble.c, which phones connect  *)
(* to, and the pairing window, while which it lets strangers in.           *)
(*                                                                         *)
(* start_advertising is run by three tasks: httpd (handlers), esp_timer    *)
(* (the deferred restart and the end of the window) and the NimBLE host    *)
(* (on_sync).  Nothing locks it, and every call into NimBLE in it blocks,  *)
(* so that runs may overlap at each of them.                               *)
(*                                                                         *)
(* NimBLE and the controller, as the code uses them: an advertisement that *)
(* is on can be neither removed nor configured, and its filter list cannot *)
(* be changed while it filters; a connection ends it, and ADV_COMPLETE is  *)
(* reported; a bond is stored before ENC_CHANGE is reported.               *)
(***************************************************************************)
EXTENDS FiniteSets

CONSTANTS
    Phones,
    NoPhone

ASSUME PhonesAssumption == NoPhone \notin Phones

VARIABLES
    window,     \* s_pairing_until_us: closed (0), open, over (not after now)
    expiry,     \* s_pairing_expire_timer is armed
    numcmp,     \* the phone whose number the web UI shows
    strict,     \* s_filter_strict
    shown,      \* s_advertising
    restart,    \* s_adv_restart_timer is armed
    run,        \* where each task is in start_advertising, and its filter_policy
    call,       \* which handler or callback a task is in the middle of
    adv,        \* the advertising instance: none, set (configured) or on; its filter
    list,       \* the controller's filter list
    complete,   \* ADV_COMPLETE is to be reported
    bonded,     \* the bond store
    phone,      \* each phone's link: none, plain, pairing, accepted, secure
    failed,     \* history: a call failed since the advertisement was last on
    calm        \* history: since the last fresh start the tasks took turns, and bonds
                \* changed only in the open window or by a revocation

pairVars == <<window, expiry, numcmp, strict, shown, restart, run, call, adv, list,
              complete, bonded, phone, failed, calm>>
windowVars == <<window, expiry, numcmp>>
airVars == <<adv, list, complete>>
phoneVars == <<bonded, phone>>

Tasks == {"httpd", "timer", "host"}
NotRunning == [at |-> "no", strict |-> FALSE]
NoCall == [what |-> "none", active |-> FALSE]
NoAdv == [state |-> "none", strict |-> FALSE]
On == adv.state = "on"

PairInit ==
    /\ window = "closed" /\ expiry = FALSE /\ numcmp = NoPhone
    /\ strict = FALSE /\ shown = FALSE /\ restart = FALSE
    /\ run = [t \in Tasks |-> NotRunning]
    /\ call = [t \in Tasks |-> IF t = "host" THEN [what |-> "sync", active |-> FALSE] ELSE NoCall]
    /\ adv = NoAdv /\ list = {} /\ complete = FALSE
    /\ bonded = {} /\ phone = [p \in Phones |-> "none"]
    /\ failed = FALSE /\ calm = TRUE

Free(t) == run[t] = NotRunning /\ call[t] = NoCall
Alone(t) == \A u \in Tasks \ {t} : Free(u)

(***************************************************************************)
(* start_advertising.                                                      *)
(***************************************************************************)
\* should_be_strict: outside of the window, once there are bonds.
ShouldBeStrict == window # "open" /\ bonded # {}

\* refresh_whitelist.
ListRefreshed == IF ShouldBeStrict /\ ~(On /\ adv.strict) THEN bonded ELSE list

RunBegins(t) ==
    /\ run' = [run EXCEPT ![t] = [at |-> "filter", strict |-> FALSE]]
    /\ call' = [call EXCEPT ![t] = NoCall]
    /\ strict' = ShouldBeStrict
    /\ list' = ListRefreshed

\* The policy is that of s_filter_strict now, whoever set it; then the instance is
\* removed.
RunRemoves(t) ==
    /\ run[t].at = "filter"
    /\ run' = [run EXCEPT ![t] = [at |-> "removed", strict |-> strict]]
    /\ adv' = IF On THEN adv ELSE NoAdv
    /\ UNCHANGED <<windowVars, strict, shown, restart, call, list, complete, phoneVars, failed, calm>>

\* A refusal ends the run.
RunConfigures(t) ==
    /\ run[t].at = "removed"
    /\ \/ /\ adv.state = "none"
          /\ adv' = [state |-> "set", strict |-> run[t].strict]
          /\ run' = [run EXCEPT ![t].at = "configured"]
       \/ /\ adv.state # "none"
          /\ run' = [run EXCEPT ![t] = NotRunning]
          /\ UNCHANGED adv
    /\ UNCHANGED <<windowVars, strict, shown, restart, call, list, complete, phoneVars, failed, calm>>

\* The data is set and the instance started.
RunStarts(t) ==
    /\ run[t].at = "configured"
    /\ run' = [run EXCEPT ![t] = NotRunning]
    /\ \/ /\ adv.state = "set"
          /\ adv' = [adv EXCEPT !.state = "on"]
          /\ shown' = TRUE
          /\ failed' = FALSE
       \/ adv.state # "set" /\ UNCHANGED <<adv, shown, failed>>
    /\ UNCHANGED <<windowVars, strict, restart, call, list, complete, phoneVars, calm>>

\* A call fails for a reason of its own: no memory, a busy controller.
RunFails(t) ==
    /\ run[t] # NotRunning
    /\ run' = [run EXCEPT ![t] = NotRunning]
    /\ failed' = TRUE /\ calm' = FALSE
    /\ UNCHANGED <<windowVars, strict, shown, restart, call, airVars, phoneVars>>

\* ble_gap_ext_adv_stop.
Stopped == IF On THEN [adv EXCEPT !.state = "set"] ELSE adv

\* Whether the tasks still take turns when t does something; a run that finds the
\* advertisement off makes up for what happened before.
TakesTurn(t) == calm' = (calm /\ Alone(t))
StartsAfresh(t) == calm' = (Alone(t) /\ (calm \/ ~On))

(***************************************************************************)
(* The timers.                                                             *)
(***************************************************************************)
\* adv_restart_cb.
RestartFires ==
    /\ restart /\ Free("timer")
    /\ restart' = FALSE
    /\ shown' = FALSE
    /\ RunBegins("timer") /\ StartsAfresh("timer")
    /\ UNCHANGED <<windowVars, adv, complete, phoneVars, failed>>

WindowEnds ==
    /\ window = "open"
    /\ window' = "over"
    /\ UNCHANGED <<expiry, numcmp, strict, shown, restart, run, call, airVars, phoneVars, failed, calm>>

\* on_pairing_expire.  It stops the advertisement before it starts it again.
ExpiryKeepsOn == adv                                                    \* mutant
ExpiryStops == Stopped

\* The timer of one window may fire when the next has just begun, and is ignored.
ExpiryFires ==
    /\ expiry /\ Free("timer")
    /\ window = "open" => call["httpd"].what = "start"
    /\ expiry' = FALSE
    /\ \/ /\ window = "over"
          /\ window' = "closed" /\ numcmp' = NoPhone
          /\ adv' = ExpiryStops
          /\ shown' = FALSE
          /\ call' = [call EXCEPT !["timer"] = [what |-> "run", active |-> FALSE]]
          /\ TakesTurn("timer")
       \/ window # "over" /\ UNCHANGED <<window, numcmp, adv, shown, call, calm>>
    /\ UNCHANGED <<strict, restart, run, list, complete, phoneVars, failed>>

\* Stop, then start_advertising: what is begun goes on here.
Continues(t) ==
    /\ call[t].what \in {"run", "sync"}
    /\ RunBegins(t) /\ StartsAfresh(t)
    /\ UNCHANGED <<windowVars, shown, restart, adv, complete, phoneVars, failed>>

(***************************************************************************)
(* dd_ble_pairing_cancel, on httpd or the host: the window is closed       *)
(* first, and what it was read before decides the rest.                    *)
(***************************************************************************)
Closes(t) ==
    /\ window' = "closed" /\ numcmp' = NoPhone
    /\ call' = [call EXCEPT ![t] = [what |-> IF t = "host" THEN "enc" ELSE "cancel",
                                    active |-> window # "closed"]]
    /\ UNCHANGED <<expiry, strict, run, adv, list, complete, failed>>

\* ENC_CHANGE schedules a restart in any case.
RestartNever(t) == restart                                              \* mutant
RestartAfter(t) == restart \/ call[t].active \/ call[t].what = "enc"

Cancelled(t) ==
    /\ call[t].what \in {"enc", "cancel"}
    /\ expiry' = FALSE
    /\ adv' = IF call[t].active THEN Stopped ELSE adv
    /\ shown' = (shown /\ ~call[t].active)
    /\ restart' = RestartAfter(t)
    /\ call' = [call EXCEPT ![t] = NoCall]
    /\ UNCHANGED <<window, numcmp, strict, run, list, complete, phoneVars, failed, calm>>

(***************************************************************************)
(* The handlers.                                                           *)
(***************************************************************************)
\* pairing_start_post: the new end of the window is set before its timer.
WindowOpens ==
    /\ Free("httpd")
    /\ window' = "open" /\ numcmp' = NoPhone
    /\ call' = [call EXCEPT !["httpd"] = [what |-> "start", active |-> FALSE]]
    /\ TakesTurn("httpd")
    /\ UNCHANGED <<expiry, strict, shown, restart, run, airVars, phoneVars, failed>>

WindowTimed ==
    /\ call["httpd"].what = "start"
    /\ expiry' = TRUE
    /\ shown' = FALSE
    /\ adv' = Stopped
    /\ call' = [call EXCEPT !["httpd"] = [what |-> "run", active |-> FALSE]]
    /\ UNCHANGED <<window, numcmp, strict, restart, run, list, complete, phoneVars, failed, calm>>

PairingCancel ==
    /\ Free("httpd")
    /\ Closes("httpd") /\ TakesTurn("httpd")
    /\ UNCHANGED <<shown, restart, phoneVars>>

\* pairing_confirm_post: the comparison has been accepted long since.
PairingConfirm ==
    /\ Free("httpd") /\ numcmp # NoPhone
    /\ numcmp' = NoPhone
    /\ UNCHANGED <<window, expiry, strict, shown, restart, run, call, airVars, phoneVars, failed, calm>>

\* dd_ble_bond_revoke and dd_ble_set_device_name (gone is empty): stop and start.
StopAndStart(gone) ==
    /\ Free("httpd")
    /\ bonded' = bonded \ gone
    /\ shown' = FALSE
    /\ adv' = Stopped
    /\ call' = [call EXCEPT !["httpd"] = [what |-> "run", active |-> FALSE]]
    /\ TakesTurn("httpd")
    /\ UNCHANGED <<windowVars, strict, restart, run, list, complete, phone, failed>>

Revoke(p) == p \in bonded /\ StopAndStart({p})
SetName == StopAndStart({})

(***************************************************************************)
(* gap_event_cb and the phones.                                            *)
(***************************************************************************)
\* The controller accepts a phone, which ends the advertisement; in the open window
\* CONNECT asks the phone to pair.
Connect(p) ==
    /\ Free("host") /\ ~complete
    /\ On /\ (adv.strict => p \in list)
    /\ phone[p] = "none"
    /\ adv' = Stopped /\ complete' = TRUE
    /\ phone' = [phone EXCEPT ![p] = IF window = "open" /\ p \notin bonded THEN "pairing" ELSE "plain"]
    /\ UNCHANGED <<windowVars, strict, shown, restart, run, call, list, bonded, failed, calm>>

Schedules ==
    /\ Free("host")
    /\ restart' = TRUE
    /\ UNCHANGED <<windowVars, strict, shown, run, call, adv, list, bonded, failed, calm>>

AdvComplete == complete /\ complete' = FALSE /\ Schedules /\ UNCHANGED phone

Disconnect(p) ==
    /\ phone[p] # "none"
    /\ phone' = [phone EXCEPT ![p] = "none"]
    /\ Schedules /\ UNCHANGED complete

\* A phone asks to pair by itself.  REPEAT_PAIRING: one that is bonded loses its bond,
\* and may go on only in the open window.
AsksToPair(p) ==
    /\ Free("host") /\ phone[p] = "plain"
    /\ bonded' = bonded \ {p}
    /\ calm' = (calm /\ (window = "open" \/ p \notin bonded))
    /\ phone' = [phone EXCEPT ![p] =
                    IF p \in bonded /\ window # "open" THEN "plain" ELSE "pairing"]
    /\ UNCHANGED <<windowVars, strict, shown, restart, run, call, airVars, failed>>

\* PASSKEY_ACTION: accepted in the open window, rejected out of it.
Passkey(p) ==
    /\ Free("host") /\ phone[p] = "pairing"
    /\ \/ /\ window = "open"
          /\ numcmp' = p
          /\ phone' = [phone EXCEPT ![p] = "accepted"]
       \/ /\ window # "open"
          /\ phone' = [phone EXCEPT ![p] = "plain"]
          /\ UNCHANGED numcmp
    /\ UNCHANGED <<window, expiry, strict, shown, restart, run, call, airVars, bonded, failed, calm>>

\* ENC_CHANGE of a phone that has paired, or of one that comes back.
EncChange(p) ==
    /\ Free("host")
    /\ \/ phone[p] = "accepted" /\ bonded' = bonded \cup {p}
       \/ phone[p] = "plain" /\ p \in bonded /\ UNCHANGED bonded
    /\ phone' = [phone EXCEPT ![p] = "secure"]
    /\ calm' = (calm /\ Alone("host") /\ (window = "open" \/ phone[p] = "plain"))
    /\ Closes("host")
    /\ UNCHANGED <<shown, restart>>

\* on_reset, and on_sync when the controller is back.
HostReset ==
    /\ Free("host")
    /\ shown' = FALSE
    /\ adv' = NoAdv /\ list' = {} /\ complete' = FALSE
    /\ phone' = [p \in Phones |-> "none"]
    /\ call' = [call EXCEPT !["host"] = [what |-> "sync", active |-> FALSE]]
    /\ TakesTurn("host")
    /\ UNCHANGED <<windowVars, strict, restart, run, bonded, failed>>

PairNext ==
    \/ \E t \in Tasks : \/ RunRemoves(t) \/ RunConfigures(t) \/ RunStarts(t) \/ RunFails(t)
                        \/ Continues(t) \/ Cancelled(t)
    \/ RestartFires \/ WindowEnds \/ ExpiryFires
    \/ WindowOpens \/ WindowTimed \/ PairingCancel \/ PairingConfirm \/ SetName
    \/ AdvComplete \/ HostReset
    \/ \E p \in Phones : \/ Revoke(p) \/ Connect(p) \/ Disconnect(p) \/ AsksToPair(p)
                         \/ Passkey(p) \/ EncChange(p)

PairSpec == PairInit /\ [][PairNext]_pairVars
-----------------------------------------------------------------------------
(***************************************************************************)
(* Properties.                                                             *)
(***************************************************************************)
AllFree == \A t \in Tasks : Free(t)
AllQuiet == AllFree /\ ~restart /\ ~complete

\* The advertisement is on, or somebody is about to start it: however the runs of
\* start_advertising overlap, one makes it, unless a call fails for another reason, for
\* which there is no second try (schedule_adv_restart, start_advertising).
AdvertisingKept == AllQuiet /\ ~failed => On

\* When all is quiet the advertisement is open in the pairing window and as long as
\* nobody is bonded, and else lets in the bonded phones and no others, if no two tasks
\* were at it at the same time and no phone paired too late (should_be_strict,
\* refresh_whitelist, on_pairing_expire).  A window that is over counts from when its
\* timer has closed it.
FilterFollows ==
    AllQuiet /\ calm /\ window # "over" /\ On =>
        /\ adv.strict = ShouldBeStrict
        /\ adv.strict => list = bonded
=============================================================================
