----------------------------- MODULE DeviceProofs -----------------------------
(***************************************************************************)
(* The invariants of Device for every threshold, period and delay.         *)
(***************************************************************************)
EXTENDS Device, TLAPS

USE DeviceAssumption DEF Off

\* The steps that change nothing but the session, the restart flag or the router: most
\* invariants need to look at them only once.
Small ==
    \/ Login \/ Logout \/ ChangePassword \/ RestartPost \/ HeapCritical \/ RouterChanges
    \/ \E c \in Creds : SetupBegin(c)

-----------------------------------------------------------------------------
\* The cap of a counter keeps it a number up to the cap.
LEMMA AtMostType ==
    ASSUME NEW n \in Nat, NEW max \in Nat
    PROVE  AtMost(n, max) \in 0..max /\ (AtMost(n, max) = n \/ AtMost(n, max) = max)
           /\ AtMost(n, max) <= n
    BY DEF AtMost

\* An age stays Off, or grows up to its cap.
LEMMA AgedType ==
    ASSUME NEW max \in Nat, NEW age \in {Off} \cup 0..max
    PROVE  /\ Aged(age, max) \in {Off} \cup 0..max
           /\ age = Off <=> Aged(age, max) = Off
           /\ age # Off => Aged(age, max) = AtMost(age + 1, max)
    BY DEF Aged, AtMost

\* After a reset the RAM has its types.
LEMMA ResetType ==
    ASSUME Reset
    PROVE  /\ phase' = "off" /\ uptime' \in 0..(ValidAfter + 1) /\ restart' \in BOOLEAN
           /\ setup' \in Creds \cup {"no"} /\ session' \in BOOLEAN /\ botched' \in BOOLEAN
           /\ driver' = driver
           /\ mode' = "none" /\ using' \in Creds /\ state' = "down" /\ retry' \in 0..RetryMax
           /\ attempt' = Off /\ down' = Off /\ giveup' = Off /\ outage' \in 0..GiveUpAfter
<1>1. setup' \in Creds \cup {"no"} /\ using' \in Creds
  BY DEF Reset, Creds
<1>2. restart' \in BOOLEAN /\ session' \in BOOLEAN /\ botched' \in BOOLEAN
  BY DEF Reset
<1> QED
  BY <1>1, <1>2 DEF Reset

\* Every step of Device keeps the types (the variables of main.c, dd_wifi.c and NVS).
THEOREM TypeCorrect == Spec => []TypeOK
<1>1. Init => TypeOK
  <2>1. Factory \in Images /\ NoImage \in Images
    BY DEF Factory, NoImage, Images
  <2>2. "none" \in Creds
    BY DEF Creds
  <2>3. ASSUME Init 
        PROVE  /\ admin \in BOOLEAN /\ restart \in BOOLEAN /\ session \in BOOLEAN
               /\ botched \in BOOLEAN
    BY <2>3 DEF Init
  <2>4. ASSUME Init
        PROVE  /\ wifi \in Creds /\ using \in Creds /\ driver \in Creds /\ setup \in Creds \cup {"no"}
               /\ image \in Images /\ other \in Images
               /\ loop \in 0..LoopMax /\ uptime \in 0..(ValidAfter + 1) /\ retry \in 0..RetryMax
               /\ failed \in 0..Threshold /\ outage \in 0..GiveUpAfter
               /\ attempt = Off /\ down = Off /\ giveup = Off
    BY <2>1, <2>2, <2>4 DEF Init, LoopMax
  <2> QED
    BY <2>3, <2>4 DEF Init, TypeOK
<1>2. TypeOK /\ [Next]_vars => TypeOK'
  <2> SUFFICES ASSUME TypeOK, [Next]_vars PROVE TypeOK'
    OBVIOUS
  <2>1. CASE Boot
    <3>1. image' \in Images /\ other' \in Images /\ trial' \in {"no", "new", "pending"}
      <4>1. NoImage \in Images
        BY DEF NoImage, Images
      <4> QED
        BY <2>1, <4>1 DEF Boot, Selected, flash, TypeOK
    <3> QED
      BY <2>1, <3>1 DEF Boot, nvs, net, TypeOK
  <2>16. CASE Count
    <3>1. loop' \in 0..LoopMax
      BY <2>16, AtMostType DEF Count, Counted, TypeOK, LoopMax
    <3> QED
      BY <2>16, <3>1 DEF Count, flash, net, TypeOK
  <2>2. CASE WifiStart
    <3>1. using' \in Creds /\ driver' \in Creds
      BY <2>2 DEF WifiStart, TypeOK
    <3>2. /\ mode' \in {"none", "sta", "ap", "rec"}
          /\ state' \in {"down", "ap", "connecting", "got_ip"}
          /\ attempt' \in {Off} \cup 0..AttemptMax
      BY <2>2 DEF WifiStart
    <3> QED
      BY <2>2, <3>1, <3>2 DEF WifiStart, nvs, flash, TypeOK
  <2>3. CASE Tick
    <3>1. uptime' \in 0..(ValidAfter + 1) /\ outage' \in 0..GiveUpAfter
      BY <2>3, AtMostType DEF Tick, TypeOK
    <3>2. /\ attempt' \in {Off} \cup 0..AttemptMax /\ down' \in {Off} \cup 0..GiveUpAfter
          /\ giveup' \in {Off} \cup 0..GiveUpPeriod
      BY <2>3, AgedType DEF Tick, TypeOK
    <3> QED
      BY <2>3, <3>1, <3>2 DEF Tick, nvs, flash, TypeOK
  <2>4. CASE Validate
    <3>1. image' \in Images
      BY <2>4 DEF Validate, TypeOK, Images
    <3> QED
      BY <2>4, <3>1 DEF Validate, ValidationDue, net, TypeOK, LoopMax
  <2>5. CASE Crash
    <3>1. failed' \in 0..Threshold
      BY <2>5, AtMostType DEF Crash, TypeOK
    <3> QED
      BY <2>5, <3>1, ResetType DEF Crash, nvs, flash, TypeOK
  <2>6. CASE Restart
    BY <2>6, ResetType DEF Restart, nvs, flash, TypeOK
  <2>13. CASE GiveUp
    BY <2>13, ResetType DEF GiveUp, flash, TypeOK, LoopMax
  <2>7. CASE AttemptFails \/ LinkLost \/ GotIp \/ GiveUpWaits
    BY <2>7 DEF AttemptFails, LinkLost, StaDisconnected, Reconnected, QuickRetry, GotIp,
                DownAfterIp, GiveUpWaits, nvs, flash, boot, TypeOK
  <2>17. CASE SetupFails
    <3>1. wifi' \in Creds /\ botched' \in BOOLEAN /\ setup' \in Creds \cup {"no"}
      BY <2>17 DEF SetupFails, TypeOK, Creds
    <3> QED
      BY <2>17, <3>1 DEF SetupFails, flash, net, TypeOK
  <2>8. ASSUME NEW c \in Creds,
               SetupAdmin(c) \/ SetupWifi \/ \E a \in BOOLEAN : Restore(c, a)
        PROVE  TypeOK'
    <3>1. admin' \in BOOLEAN /\ restart' \in BOOLEAN /\ session' \in BOOLEAN
      BY <2>8 DEF SetupAdmin, SetupWifi, AfterSetup, Restore, Scheduled, TypeOK
    <3>2. wifi' \in Creds /\ setup' \in Creds \cup {"no"}
      BY <2>8 DEF SetupAdmin, SetupWifi, Restore, TypeOK
    <3> QED
      BY <2>8, <3>1, <3>2 DEF SetupAdmin, SetupWifi, AfterSetup, Restore, flash, net, TypeOK
  <2>9. CASE FactoryResetPost \/ ButtonHeld
    <3>1. admin' \in BOOLEAN /\ restart' \in BOOLEAN /\ session' \in BOOLEAN
      BY <2>9 DEF FactoryResetPost, ButtonHeld, FactoryReset, Scheduled, TypeOK
    <3>2. wifi' \in Creds
      BY <2>9 DEF FactoryResetPost, ButtonHeld, FactoryReset, TypeOK, Creds
    <3>3. loop' \in 0..LoopMax /\ failed' \in 0..Threshold
      <4>1. loop' = loop \/ loop' = 0
        BY <2>9 DEF FactoryResetPost, ButtonHeld, FactoryReset
      <4>2. failed' = failed \/ failed' = 0
        BY <2>9 DEF FactoryResetPost, ButtonHeld, FactoryReset
      <4> QED
        BY <4>1, <4>2 DEF TypeOK, LoopMax
    <3> QED
      BY <2>9, <3>1, <3>2, <3>3 DEF FactoryResetPost, ButtonHeld, FactoryReset, flash, net, TypeOK
  <2>10. ASSUME NEW runs \in BOOLEAN, Ota(runs) PROVE TypeOK'
    BY <2>10 DEF Ota, Scheduled, nvs, net, TypeOK, Images
  <2>11. CASE Small
    <3>1. restart' \in BOOLEAN /\ session' \in BOOLEAN /\ router' \in BOOLEAN
      BY <2>11 DEF Small, Login, Logout, ChangePassword, RestartPost, HeapCritical, RouterChanges,
                   SetupBegin, Scheduled, boot, TypeOK
    <3> QED
      BY <2>11, <3>1 DEF Small, Login, Logout, ChangePassword, RestartPost, HeapCritical,
                         RouterChanges, SetupBegin, nvs, flash, boot, net, TypeOK
  <2>12. CASE UNCHANGED vars
    BY <2>12 DEF vars, TypeOK
  <2>14. CASE \E c \in Creds : SetupAdmin(c) \/ SetupBegin(c) \/ \E a \in BOOLEAN : Restore(c, a)
    BY <2>8, <2>11, <2>14 DEF Small
  <2>15. CASE SetupWifi
    BY <2>8, <2>15 DEF Creds
  <2> QED
    BY <2>1, <2>2, <2>3, <2>4, <2>5, <2>6, <2>7, <2>9, <2>10, <2>11, <2>12, <2>13, <2>14, <2>15, <2>16,
       <2>17
    DEF Next, Timers, Station, Handlers, World, Small
<1> QED
  BY <1>1, <1>2, PTL DEF Spec
-----------------------------------------------------------------------------
(***************************************************************************)
(* Recovery.  What the counter in NVS says of the crashes so far.  Only a  *)
(* boot that was counted adds to `failed' when it crashes; a reset of the  *)
(* counter in between lets it lag behind by that one crash, until the next *)
(* boot counts itself.                                                     *)
(***************************************************************************)
RecoveryInv ==
    /\ failed <= loop + 1
    /\ Up => failed <= loop
    /\ RecoveryOpens

\* Steps that leave the counter, the boot phase and the mode alone.
Uncounted ==
    \/ Small \/ Tick \/ GiveUpWaits \/ Station \/ SetupFails
    \/ \E c \in Creds : SetupAdmin(c) \/ \E a \in BOOLEAN : Restore(c, a)
    \/ SetupWifi \/ \E runs \in BOOLEAN : Ota(runs)
    \/ UNCHANGED vars

\* None of them changes what RecoveryInv speaks of (main.c, dd_config.c:398-437).
LEMMA UncountedChangesNothing == Uncounted => UNCHANGED <<phase, loop, mode, failed>>
BY DEF Uncounted, Small, Tick, GiveUpWaits, Station, AttemptFails, LinkLost, GotIp,
       StaDisconnected, Login, Logout, ChangePassword, RestartPost, HeapCritical, RouterChanges,
       SetupFails, SetupBegin, SetupAdmin, SetupWifi, Restore, Ota,
       nvs, flash, boot, net, vars

\* The boot-loop counter opens the SoftAP in time (main.c:218-232, dd_wifi.c:255-261).
THEOREM RecoveryOpensInTime == Spec => []RecoveryOpens
<1>1. Init => RecoveryInv
  BY DEF Init, Up, RecoveryInv, RecoveryOpens
<1>2. TypeOK /\ RecoveryInv /\ [Next]_vars => RecoveryInv'
  <2> SUFFICES ASSUME TypeOK, RecoveryInv, [Next]_vars PROVE RecoveryInv'
    OBVIOUS
  <2>0. loop \in Nat /\ failed \in 0..Threshold /\ Threshold \in Nat \ {0}
    BY DEF TypeOK, LoopMax
  <2>1. CASE Boot
    BY <2>1 DEF Boot, nvs, net, Up, RecoveryInv, RecoveryOpens
  <2>9. CASE Count
    BY <2>0, <2>9 DEF Count, Counted, AtMost, LoopMax, net, Up, RecoveryInv, RecoveryOpens
  <2>2. CASE WifiStart
    BY <2>0, <2>2 DEF WifiStart, InRecovery, nvs, Up, RecoveryInv, RecoveryOpens
  <2>3. CASE Validate
    BY <2>0, <2>3 DEF Validate, net, Up, RecoveryInv, RecoveryOpens
  <2>4. CASE Crash
    BY <2>0, <2>4 DEF Crash, Reset, AtMost, nvs, Up, RecoveryInv, RecoveryOpens
  <2>5. CASE Restart
    BY <2>0, <2>5 DEF Restart, Reset, nvs, Up, RecoveryInv, RecoveryOpens
  <2>6. CASE GiveUp
    BY <2>0, <2>6 DEF GiveUp, Reset, InRecovery, Up, RecoveryInv, RecoveryOpens
  <2>7. CASE FactoryResetPost \/ ButtonHeld
    <3>1. UNCHANGED <<phase, mode>>
      BY <2>7 DEF FactoryResetPost, ButtonHeld, FactoryReset, net
    <3>2. (loop' = loop /\ failed' = failed) \/ (loop' = 0 /\ failed' = 0)
      <4>1. loop' = loop \/ loop' = 0
        BY <2>7 DEF FactoryResetPost, ButtonHeld, FactoryReset
      <4>2. failed' = IF loop' = 0 THEN 0 ELSE failed
        BY <2>7 DEF FactoryResetPost, ButtonHeld, FactoryReset
      <4> QED
        BY <4>1, <4>2
    <3> QED
      BY <2>0, <3>1, <3>2 DEF Up, RecoveryInv, RecoveryOpens
  <2>8. CASE Uncounted
    BY <2>8, UncountedChangesNothing DEF Up, RecoveryInv, RecoveryOpens
  <2> QED
    BY <2>1, <2>2, <2>3, <2>4, <2>5, <2>6, <2>7, <2>8, <2>9
    DEF Next, Timers, Handlers, World, Uncounted, Small
<1>3. RecoveryInv => RecoveryOpens
  BY DEF RecoveryInv
<1> QED
  BY <1>1, <1>2, <1>3, TypeCorrect, PTL DEF Spec

-----------------------------------------------------------------------------
(***************************************************************************)
(* Provisioning.  Both invariants rest on the order in which the handlers  *)
(* write: nothing takes the password or the credentials away without a     *)
(* restart to follow.                                                      *)
(***************************************************************************)
\* Steps that leave the mode, what is provisioned and the set-up alone, and take no
\* restart back.
Unprovisioning ==
    \/ Boot \/ Count \/ Validate \/ Tick \/ GiveUpWaits \/ Station
    \/ Login \/ Logout \/ ChangePassword \/ RestartPost \/ HeapCritical \/ RouterChanges
    \/ \E runs \in BOOLEAN : Ota(runs)
    \/ UNCHANGED vars

\* None of them provisions the device or undoes it (dd_http_system.c, dd_wifi.c).
LEMMA NothingProvisioned ==
    Unprovisioning => /\ UNCHANGED <<admin, wifi, mode, setup, botched>>
                      /\ restart' = restart \/ restart' = TRUE
BY DEF Unprovisioning, Boot, Count, Validate, Tick, GiveUpWaits, Station, AttemptFails, LinkLost, GotIp,
       StaDisconnected, Login, Logout, ChangePassword, RestartPost, HeapCritical, RouterChanges,
       Ota, Scheduled, nvs, flash, boot, net, vars

\* A device that is not provisioned does not stay a station (dd_wifi.c:263-269).
THEOREM ProvisionedStations == Spec => []StationIsProvisioned
<1>1. Init => StationIsProvisioned
  BY DEF Init, StationIsProvisioned
<1>2. TypeOK /\ StationIsProvisioned /\ [Next]_vars => StationIsProvisioned'
  <2> SUFFICES ASSUME TypeOK, StationIsProvisioned, [Next]_vars PROVE StationIsProvisioned'
    OBVIOUS
  <2>1. CASE WifiStart
    BY <2>1 DEF WifiStart, Unprovisioned, nvs, StationIsProvisioned
  <2>2. CASE Crash \/ Restart \/ GiveUp
    BY <2>2 DEF Crash, Restart, GiveUp, Reset, StationIsProvisioned
  <2>3. CASE FactoryResetPost \/ ButtonHeld
    BY <2>3 DEF FactoryResetPost, ButtonHeld, FactoryReset, Scheduled, StationIsProvisioned
  <2>4. ASSUME NEW c \in Creds,
               SetupAdmin(c) \/ SetupBegin(c) \/ \E a \in BOOLEAN : Restore(c, a)
        PROVE  StationIsProvisioned'
    BY <2>4 DEF SetupAdmin, SetupBegin, Restore, Scheduled, nvs, net, StationIsProvisioned
  <2>5. CASE SetupWifi \/ SetupFails
    BY <2>5 DEF SetupWifi, SetupFails, AfterSetup, nvs, net, StationIsProvisioned
  <2>6. CASE Unprovisioning
    BY <2>6, NothingProvisioned DEF StationIsProvisioned
  <2> QED
    BY <2>1, <2>2, <2>3, <2>4, <2>5, <2>6
    DEF Next, Timers, Handlers, World, Unprovisioning
<1> QED
  BY <1>1, <1>2, TypeCorrect, PTL DEF Spec

\* While a set-up is between its writes the next one is not asked for; once it is over,
\* the password or the SSID is still missing, or a restart is scheduled, or it failed at
\* the last write.
OpenInv ==
    mode = "ap" => ~admin \/ wifi = "none" \/ restart \/ setup # "no" \/ botched

\* A SoftAP that waits to be set up can be, unless a set-up has failed half-way and left
\* the SSID behind (dd_http_devices.c:237-303, dd_config.c:184-203).
THEOREM SetupStaysReachable == Spec => []SetupReachable
<1>1. Init => OpenInv
  BY DEF Init, OpenInv
<1>2. TypeOK /\ OpenInv /\ [Next]_vars => OpenInv'
  <2> SUFFICES ASSUME TypeOK, OpenInv, [Next]_vars PROVE OpenInv'
    OBVIOUS
  <2>1. CASE WifiStart
    BY <2>1 DEF WifiStart, Unprovisioned, nvs, OpenInv
  <2>2. CASE Crash \/ Restart \/ GiveUp
    BY <2>2 DEF Crash, Restart, GiveUp, Reset, OpenInv
  <2>3. CASE FactoryResetPost \/ ButtonHeld
    BY <2>3 DEF FactoryResetPost, ButtonHeld, FactoryReset, Scheduled, OpenInv
  <2>4. ASSUME NEW c \in Creds,
               SetupAdmin(c) \/ SetupBegin(c) \/ \E a \in BOOLEAN : Restore(c, a)
        PROVE  OpenInv'
    <3>1. "none" # "no" /\ "good" # "no" /\ "bad" # "no"
      OBVIOUS
    <3> QED
      BY <2>4, <3>1 DEF SetupAdmin, SetupBegin, Restore, Scheduled, Creds, OpenInv
  <2>5. CASE SetupWifi \/ SetupFails
    BY <2>5 DEF SetupWifi, SetupFails, AfterSetup, OpenInv
  <2>6. CASE Unprovisioning
    BY <2>6, NothingProvisioned DEF OpenInv
  <2> QED
    BY <2>1, <2>2, <2>3, <2>4, <2>5, <2>6
    DEF Next, Timers, Handlers, World, Unprovisioning
<1>3. OpenInv => SetupReachable
  BY DEF OpenInv, SetupReachable, SetupOpen
<1> QED
  BY <1>1, <1>2, <1>3, TypeCorrect, PTL DEF Spec

-----------------------------------------------------------------------------
(***************************************************************************)
(* The OTA trial.                                                          *)
(***************************************************************************)
\* What runs, unless it is on trial, has proven itself, and so has what the bootloader
\* would go back to while it is.
TrialInv ==
    /\ trial # "pending" => image.proven
    /\ trial = "pending" => other.proven

\* No image runs a second time that has not lasted for ValidAfter (main.c:33-51).
THEOREM UnprovenStayOnTrial == Spec => []UnprovenOnTrial
<1>1. Init => TrialInv
  BY DEF Init, TrialInv, Factory
<1>2. TypeOK /\ TrialInv /\ [Next]_vars => TrialInv'
  <2> SUFFICES ASSUME TypeOK, TrialInv, [Next]_vars PROVE TrialInv'
    OBVIOUS
  <2>1. CASE Boot
    BY <2>1 DEF Boot, Selected, flash, TrialInv, TypeOK
  <2>2. CASE Validate
    <3>1. image'.proven
      BY <2>2 DEF Validate, ValidationDue, TypeOK, Images
    <3>2. trial' # "pending"
      BY <2>2 DEF Validate
    <3> QED
      BY <3>1, <3>2 DEF TrialInv
  <2>3. ASSUME NEW runs \in BOOLEAN, Ota(runs) PROVE TrialInv'
    BY <2>3 DEF Ota, TrialInv
  <2>4. CASE UNCHANGED flash
    BY <2>4 DEF flash, TrialInv
  <2>5. Count \/ WifiStart \/ Crash \/ Restart \/ Tick \/ GiveUp \/ GiveUpWaits \/ Station
          => UNCHANGED flash
    BY DEF Count, WifiStart, Crash, Restart, Tick, GiveUp, GiveUpWaits, Station, AttemptFails,
           LinkLost, GotIp, StaDisconnected
  <2>6. ASSUME NEW c \in Creds,
               SetupAdmin(c) \/ SetupBegin(c) \/ \E a \in BOOLEAN : Restore(c, a)
        PROVE  UNCHANGED flash
    BY <2>6 DEF SetupAdmin, SetupBegin, Restore
  <2>7. SetupWifi \/ SetupFails \/ Login \/ Logout \/ ChangePassword \/ RestartPost
          => UNCHANGED flash
    BY DEF SetupWifi, SetupFails, Login, Logout, ChangePassword, RestartPost
  <2>8. FactoryResetPost \/ ButtonHeld \/ HeapCritical \/ RouterChanges => UNCHANGED flash
    BY DEF FactoryResetPost, ButtonHeld, FactoryReset, HeapCritical, RouterChanges
  <2>9. UNCHANGED vars => UNCHANGED flash
    BY DEF vars, flash
  <2> QED
    BY <2>1, <2>2, <2>3, <2>4, <2>5, <2>6, <2>7, <2>8, <2>9 DEF Next, Timers, Handlers, World
<1>3. TrialInv => UnprovenOnTrial
  BY DEF TrialInv, UnprovenOnTrial
<1> QED
  BY <1>1, <1>2, <1>3, TypeCorrect, PTL DEF Spec

-----------------------------------------------------------------------------
(***************************************************************************)
(* Giving up.                                                              *)
(***************************************************************************)
\* The stamp s_sta_down_since_us is set only while the station has no network, and is
\* never older than the outage it stamps.
EarnedInv ==
    /\ phase # "running" => using = "none"
    /\ using = "none" => down = Off /\ attempt = Off /\ state # "got_ip"
    /\ down # Off => state # "got_ip" /\ down <= outage

\* Steps that leave the station alone.
Offline ==
    \/ Boot \/ Count \/ Validate \/ GiveUpWaits \/ SetupFails
    \/ \E c \in Creds : SetupAdmin(c) \/ \E a \in BOOLEAN : Restore(c, a)
    \/ SetupWifi \/ FactoryResetPost \/ ButtonHeld
    \/ \E runs \in BOOLEAN : Ota(runs)
    \/ Small \/ UNCHANGED vars

\* None of them touches its state or its stamp, or starts it (dd_wifi.c:37-42).
LEMMA StationLeftAlone ==
    Offline => /\ UNCHANGED <<using, state, attempt, down, outage>>
               /\ phase' = phase \/ (phase' # "running" /\ phase # "running")
BY DEF Offline, Boot, Count, Validate, GiveUpWaits, SetupAdmin, Restore, SetupWifi, FactoryResetPost,
       ButtonHeld, FactoryReset, Ota, Small, Login, Logout, ChangePassword, RestartPost,
       HeapCritical, RouterChanges, SetupFails, SetupBegin, nvs, flash, boot, net, vars

\* A station gives up only after as long an outage (dd_wifi.c:68-87).
THEOREM GivingUpIsEarned == Spec => GiveUpIsEarned
<1>1. Init => EarnedInv
  BY DEF Init, EarnedInv
<1>2. TypeOK /\ EarnedInv /\ [Next]_vars => EarnedInv'
  <2> SUFFICES ASSUME TypeOK, EarnedInv, [Next]_vars PROVE EarnedInv'
    OBVIOUS
  <2>1. CASE WifiStart
    BY <2>1 DEF WifiStart, EarnedInv
  <2>2. CASE Crash \/ Restart \/ GiveUp
    BY <2>2 DEF Crash, Restart, GiveUp, Reset, EarnedInv
  <2>3. CASE Tick
    <3>1. /\ UNCHANGED <<phase, using, state>>
          /\ attempt = Off => attempt' = Off
          /\ down = Off => down' = Off
      BY <2>3 DEF Tick, Aged
    <3>2. CASE down # Off
      <4>1. using # "none" /\ state # "got_ip" /\ down <= outage
        BY <3>2 DEF EarnedInv
      <4>2. down' = AtMost(down + 1, GiveUpAfter) /\ outage' = AtMost(outage + 1, GiveUpAfter)
        BY <2>3, <3>2, <4>1 DEF Tick, Aged
      <4>3. down' <= outage'
        BY <3>2, <4>1, <4>2 DEF AtMost, TypeOK
      <4> QED
        BY <3>1, <4>1, <4>3 DEF EarnedInv
    <3> QED
      BY <3>1, <3>2 DEF EarnedInv
  <2>4. CASE AttemptFails \/ LinkLost
    <3>1. using # "none" /\ phase = "running"
      BY <2>4 DEF AttemptFails, LinkLost, EarnedInv
    <3>2. UNCHANGED <<using, phase, outage>> /\ state' # "got_ip"
      BY <2>4 DEF AttemptFails, LinkLost, StaDisconnected, boot
    <3>3. down' <= outage'
      BY <2>4, <3>2 DEF AttemptFails, LinkLost, StaDisconnected, EarnedInv, TypeOK
    <3> QED
      BY <3>1, <3>2, <3>3 DEF EarnedInv
  <2>5. CASE GotIp
    BY <2>5 DEF GotIp, DownAfterIp, boot, EarnedInv
  <2>6. CASE Offline
    BY <2>6, StationLeftAlone DEF EarnedInv
  <2> QED
    BY <2>1, <2>2, <2>3, <2>4, <2>5, <2>6
    DEF Next, Timers, Station, Handlers, World, Offline, Small
<1>3. TypeOK /\ EarnedInv => (GiveUp => outage >= GiveUpAfter)
  BY DEF TypeOK, EarnedInv, GiveUp, GivesUp
<1>4. Spec => [](TypeOK /\ EarnedInv)
  BY <1>1, <1>2, TypeCorrect, PTL DEF Spec
<1> QED
  BY <1>3, <1>4, PTL DEF GiveUpIsEarned
=============================================================================
