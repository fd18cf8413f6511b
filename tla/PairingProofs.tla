---------------------------- MODULE PairingProofs ----------------------------
(***************************************************************************)
(* The advertisement comes back, for any set of phones and however the     *)
(* tasks overlap.                                                          *)
(*                                                                         *)
(* As long as it is off somebody has it in hand (InHand): a restart is     *)
(* scheduled, a handler is on its way to one, or a run is at a step that   *)
(* fits the state of the instance.  A run that is refused was overtaken by *)
(* another one that does fit.                                              *)
(*                                                                         *)
(* And it lets in whom it should, if the tasks take turns (FilterInv).     *)
(***************************************************************************)
EXTENDS Pairing, TLAPS

Run == [at : {"no", "filter", "removed", "configured"}, strict : BOOLEAN]
Call == [what : {"none", "sync", "run", "start", "enc", "cancel"}, active : BOOLEAN]
Adv == [state : {"none", "set", "on"}, strict : BOOLEAN]

PairTyped ==
    /\ strict \in BOOLEAN
    /\ run \in [Tasks -> Run]
    /\ call \in [Tasks -> Call]
    /\ adv \in Adv

\* A call that leads to a restart.
Leads(c) == c.what \in {"sync", "run", "start", "enc"} \/ (c.what = "cancel" /\ c.active)

\* A step that the instance allows.
Fits(r) ==
    \/ r.at = "filter"
    \/ r.at = "removed" /\ adv.state = "none"
    \/ r.at = "configured" /\ adv.state = "set"

InHand ==
    ~On /\ ~failed => restart \/ complete \/ \E t \in Tasks : Leads(call[t]) \/ Fits(run[t])

PairInv == PairTyped /\ InHand
-----------------------------------------------------------------------------
LEMMA PairInvInit == PairInit => PairInv
<1> SUFFICES ASSUME PairInit PROVE PairInv
  OBVIOUS
<1>1. strict \in BOOLEAN /\ adv \in Adv
  BY DEF PairInit, NoAdv, Adv
<1>2. run \in [Tasks -> Run] /\ call \in [Tasks -> Call]
  BY DEF PairInit, NotRunning, NoCall, Run, Call
<1>3. "host" \in Tasks /\ Leads(call["host"])
  BY DEF PairInit, Tasks, Leads
<1> QED BY <1>1, <1>2, <1>3 DEF PairInv, PairTyped, InHand

(***************************************************************************)
(* The steps of a run.                                                     *)
(***************************************************************************)
LEMMA RunRemovesStep ==
    ASSUME PairInv, NEW t \in Tasks, RunRemoves(t)
    PROVE  PairInv'
<1>1. /\ run' = [run EXCEPT ![t] = [at |-> "removed", strict |-> strict]]
      /\ adv' = (IF On THEN adv ELSE NoAdv)
      /\ UNCHANGED <<strict, restart, call, complete, failed>> /\ PairTyped
  BY DEF RunRemoves, PairInv
<1>2. PairTyped'
  <2>1. [at |-> "removed", strict |-> strict] \in Run
    BY <1>1, Zenon DEF PairTyped, Run
  <2>2. NoAdv \in Adv
    BY DEF NoAdv, Adv
  <2> QED BY <1>1, <2>1, <2>2 DEF PairTyped
<1>3. run'[t].at = "removed"
  BY <1>1 DEF PairTyped
<1>4. InHand'
  <2>1. CASE On
    BY <1>1, <2>1 DEF InHand, On
  <2>2. CASE ~On
    BY <1>1, <1>3, <2>2 DEF InHand, Fits, NoAdv
  <2> QED BY <2>1, <2>2
<1> QED BY <1>2, <1>4 DEF PairInv

LEMMA RunConfiguresStep ==
    ASSUME PairInv, NEW t \in Tasks, RunConfigures(t)
    PROVE  PairInv'
<1>1. /\ run[t].at = "removed" /\ PairTyped /\ InHand
      /\ UNCHANGED <<strict, restart, call, complete, failed>>
  BY DEF RunConfigures, PairInv
<1>2. CASE /\ adv' = [state |-> "set", strict |-> run[t].strict]
           /\ run' = [run EXCEPT ![t].at = "configured"]
  <2>1. run[t] \in Run
    BY <1>1 DEF PairTyped
  <2>2. [run[t] EXCEPT !.at = "configured"] \in Run /\ [run[t] EXCEPT !.at = "configured"].at = "configured"
    BY <2>1 DEF Run
  <2>3. run'[t].at = "configured" /\ run' \in [Tasks -> Run]
    BY <1>1, <1>2, <2>2 DEF PairTyped
  <2>4. adv' \in Adv
    BY <1>2, <2>1, Zenon DEF Adv, Run
  <2>5. InHand'
    BY <1>2, <2>3 DEF InHand, Fits
  <2> QED BY <1>1, <2>3, <2>4, <2>5 DEF PairInv, PairTyped
<1>3. CASE adv.state # "none" /\ run' = [run EXCEPT ![t] = NotRunning] /\ UNCHANGED adv
  <2>1. \A u \in Tasks \ {t} : run'[u] = run[u]
    BY <1>1, <1>3 DEF PairTyped
  <2>2. NotRunning \in Run
    BY DEF NotRunning, Run
  <2>3. PairTyped'
    BY <1>1, <1>3, <2>2 DEF PairTyped
  <2>4. ~Fits(run[t])
    BY <1>1, <1>3 DEF Fits
  <2>5. InHand'
    BY <1>1, <1>3, <2>1, <2>4 DEF InHand, Fits, On
  <2> QED BY <2>3, <2>5 DEF PairInv
<1> QED BY <1>2, <1>3 DEF RunConfigures

LEMMA RunStartsStep ==
    ASSUME PairInv, NEW t \in Tasks, RunStarts(t)
    PROVE  PairInv'
<1>1. /\ run[t].at = "configured" /\ PairTyped /\ InHand
      /\ run' = [run EXCEPT ![t] = NotRunning]
      /\ UNCHANGED <<strict, restart, call, complete>>
  BY DEF RunStarts, PairInv
<1>2. run' \in [Tasks -> Run] /\ \A u \in Tasks \ {t} : run'[u] = run[u]
  BY <1>1 DEF PairTyped, NotRunning, Run
<1>3. CASE adv' = [adv EXCEPT !.state = "on"]
  <2>1. adv' \in Adv /\ adv'.state = "on"
    BY <1>1, <1>3 DEF PairTyped, Adv
  <2> QED BY <1>1, <1>2, <2>1 DEF PairInv, PairTyped, InHand, On
<1>4. CASE adv.state # "set" /\ UNCHANGED <<adv, failed>>
  <2>1. ~Fits(run[t])
    BY <1>1, <1>4 DEF Fits
  <2>2. InHand'
    BY <1>1, <1>2, <1>4, <2>1 DEF InHand, Fits, On
  <2> QED BY <1>1, <1>2, <1>4, <2>2 DEF PairInv, PairTyped
<1> QED BY <1>3, <1>4 DEF RunStarts

LEMMA RunFailsStep ==
    ASSUME PairInv, NEW t \in Tasks, RunFails(t)
    PROVE  PairInv'
<1>1. run' = [run EXCEPT ![t] = NotRunning] /\ failed' = TRUE /\ UNCHANGED <<strict, call, adv>> /\ PairTyped
  BY DEF RunFails, airVars, PairInv
<1>2. run' \in [Tasks -> Run]
  BY <1>1 DEF PairTyped, NotRunning, Run
<1> QED BY <1>1, <1>2 DEF PairInv, PairTyped, InHand

\* A run begins.
LEMMA RunBeginsStep ==
    ASSUME PairInv, NEW t \in Tasks, RunBegins(t), UNCHANGED adv
    PROVE  PairInv'
<1>1. /\ run' = [run EXCEPT ![t] = [at |-> "filter", strict |-> FALSE]]
      /\ call' = [call EXCEPT ![t] = NoCall] /\ strict' = ShouldBeStrict /\ PairTyped
  BY DEF RunBegins, PairInv
<1>2. run' \in [Tasks -> Run] /\ run'[t].at = "filter"
  BY <1>1 DEF PairTyped, Run
<1>3. call' \in [Tasks -> Call]
  BY <1>1 DEF PairTyped, NoCall, Call
<1>4. strict' \in BOOLEAN
  BY <1>1, Zenon DEF ShouldBeStrict
<1> QED BY <1>1, <1>2, <1>3, <1>4 DEF PairInv, PairTyped, InHand, Fits

(***************************************************************************)
(* The steps of everybody else: they schedule a restart or begin a call    *)
(* that leads to one.                                                      *)
(***************************************************************************)
LEMMA StoppedTyped ==
    ASSUME PairTyped
    PROVE  Stopped \in Adv
BY DEF PairTyped, Stopped, Adv

\* A call that leads to a restart is begun, or goes on to it.
LEMMA CallStep ==
    ASSUME PairInv, NEW t \in Tasks, NEW c \in Call, Leads(c),
           call' = [call EXCEPT ![t] = c], adv' \in Adv, UNCHANGED <<strict, run>>
    PROVE  PairInv'
<1>1. PairTyped
  BY DEF PairInv
<1>2. call' \in [Tasks -> Call] /\ call'[t] = c
  BY <1>1 DEF PairTyped
<1> QED BY <1>1, <1>2 DEF PairInv, PairTyped, InHand

LEMMA ClosesStep ==
    ASSUME PairInv, NEW t \in Tasks, Free(t), Closes(t), UNCHANGED restart
    PROVE  PairInv'
<1> DEFINE c == [what |-> IF t = "host" THEN "enc" ELSE "cancel", active |-> window # "closed"]
<1>1. /\ PairTyped /\ InHand /\ call' = [call EXCEPT ![t] = c]
      /\ UNCHANGED <<strict, run, adv, complete, failed>>
  BY DEF Closes, PairInv
<1>2. c \in Call
  BY Zenon DEF Call
<1>3. call' \in [Tasks -> Call] /\ \A u \in Tasks \ {t} : call'[u] = call[u]
  BY <1>1, <1>2 DEF PairTyped
<1>4. ~Leads(call[t])
  BY DEF Free, NoCall, Leads
<1>5. InHand'
  BY <1>1, <1>3, <1>4 DEF InHand, Fits, On
<1> QED BY <1>1, <1>3, <1>5 DEF PairInv, PairTyped

LEMMA CancelledStep ==
    ASSUME PairInv, NEW t \in Tasks, Cancelled(t)
    PROVE  PairInv'
<1>1. /\ call[t].what \in {"enc", "cancel"} /\ PairTyped /\ InHand
      /\ adv' = (IF call[t].active THEN Stopped ELSE adv)
      /\ restart' = RestartAfter(t) /\ call' = [call EXCEPT ![t] = NoCall]
      /\ UNCHANGED <<strict, run, complete, failed>>
  BY DEF Cancelled, PairInv
<1>2. call' \in [Tasks -> Call] /\ \A u \in Tasks \ {t} : call'[u] = call[u]
  BY <1>1 DEF PairTyped, NoCall, Call
<1>3. PairTyped'
  BY <1>1, <1>2, StoppedTyped DEF PairTyped
<1>4. CASE Leads(call[t])
  <2>1. restart'
    BY <1>1, <1>4 DEF RestartAfter, Leads
  <2> QED BY <1>3, <2>1 DEF PairInv, InHand
<1>5. CASE ~Leads(call[t])
  <2>1. adv' = adv /\ (restart => restart')
    BY <1>1, <1>5 DEF Leads, RestartAfter
  <2> QED BY <1>1, <1>2, <1>3, <1>5, <2>1 DEF PairInv, InHand, Fits, On
<1> QED BY <1>3, <1>4, <1>5 DEF PairInv

LEMMA ConnectStep ==
    ASSUME PairInv, NEW p \in Phones, Connect(p)
    PROVE  PairInv'
<1>1. adv' = Stopped /\ complete' = TRUE /\ UNCHANGED <<strict, run, call>> /\ PairTyped
  BY DEF Connect, PairInv
<1> QED BY <1>1, StoppedTyped DEF PairInv, PairTyped, InHand

LEMMA SchedulesStep ==
    ASSUME PairInv, Schedules
    PROVE  PairInv'
BY DEF Schedules, PairInv, PairTyped, InHand

\* Steps that leave all of it alone.
LEMMA ElsewhereStep ==
    ASSUME PairInv, UNCHANGED <<strict, restart, run, call, adv, complete, failed>>
    PROVE  PairInv'
BY DEF PairInv, PairTyped, InHand, Fits, On

\* The invariant, of every reachable state.
THEOREM PairInvAlways == PairSpec => []PairInv
<1>1. PairInv /\ [PairNext]_pairVars => PairInv'
  <2> SUFFICES ASSUME PairInv, [PairNext]_pairVars PROVE PairInv'
    OBVIOUS
  <2>1. ASSUME NEW t \in Tasks, Continues(t) PROVE PairInv'
    BY <2>1, RunBeginsStep DEF Continues
  <2>2. CASE RestartFires
    BY <2>2, RunBeginsStep DEF RestartFires, Tasks
  <2>3. CASE ExpiryFires
    <3>1. PairTyped
      BY DEF PairInv
    <3>2. CASE window = "over"
      <4>1. /\ adv' = Stopped /\ call' = [call EXCEPT !["timer"] = [what |-> "run", active |-> FALSE]]
            /\ UNCHANGED <<strict, run>>
        BY <2>3, <3>2 DEF ExpiryFires, ExpiryStops
      <4>2. [what |-> "run", active |-> FALSE] \in Call /\ Leads([what |-> "run", active |-> FALSE]) /\ "timer" \in Tasks
        BY DEF Call, Leads, Tasks
      <4> QED BY <3>1, <4>1, <4>2, StoppedTyped, CallStep
    <3>3. CASE window # "over"
      BY <2>3, <3>3, ElsewhereStep DEF ExpiryFires
    <3> QED BY <3>2, <3>3
  <2>4. ASSUME NEW what \in {"start", "run", "sync"}, NEW t \in Tasks,
               call' = [call EXCEPT ![t] = [what |-> what, active |-> FALSE]],
               adv' \in {adv, Stopped, NoAdv}, UNCHANGED <<strict, run>>
        PROVE  PairInv'
    <3>1. adv' \in Adv
      <4>1. adv \in Adv /\ Stopped \in Adv
        BY StoppedTyped DEF PairInv, PairTyped
      <4>2. NoAdv \in Adv
        BY DEF NoAdv, Adv
      <4> QED BY <2>4, <4>1, <4>2
    <3>2. [what |-> what, active |-> FALSE] \in Call /\ Leads([what |-> what, active |-> FALSE])
      BY DEF Call, Leads
    <3> QED BY <2>4, <3>1, <3>2, CallStep
  <2>5. CASE WindowOpens \/ WindowTimed \/ HostReset
    BY <2>4, <2>5 DEF WindowOpens, WindowTimed, HostReset, airVars, Tasks
  <2>6. ASSUME NEW gone, StopAndStart(gone) PROVE PairInv'
    BY <2>4, <2>6 DEF StopAndStart, Tasks
  <2>7. CASE SetName \/ \E p \in Phones : Revoke(p)
    BY <2>6, <2>7 DEF SetName, Revoke
  <2>8. CASE PairingCancel
    BY <2>8, ClosesStep DEF PairingCancel, Tasks
  <2>9. ASSUME NEW p \in Phones, EncChange(p) PROVE PairInv'
    BY <2>9, ClosesStep DEF EncChange, Tasks
  <2>10. ASSUME NEW p \in Phones, Disconnect(p) PROVE PairInv'
    BY <2>10, SchedulesStep DEF Disconnect
  <2>11. CASE AdvComplete
    BY <2>11, SchedulesStep DEF AdvComplete
  <2>12. ASSUME NEW p \in Phones, AsksToPair(p) \/ Passkey(p) PROVE PairInv'
    BY <2>12, ElsewhereStep DEF AsksToPair, Passkey, windowVars, airVars
  <2>13. CASE WindowEnds \/ PairingConfirm \/ UNCHANGED pairVars
    BY <2>13, ElsewhereStep DEF WindowEnds, PairingConfirm, pairVars, airVars, phoneVars
  <2> QED BY <2>1, <2>2, <2>3, <2>5, <2>7, <2>8, <2>9, <2>10, <2>11, <2>12, <2>13, RunRemovesStep,
             RunConfiguresStep, RunStartsStep, RunFailsStep, CancelledStep, ConnectStep DEF PairNext
<1> QED BY <1>1, PairInvInit, PTL DEF PairSpec

\* When nothing is under way and no call failed, the device advertises, whichever phones
\* came and went and however the runs of start_advertising overlapped.
THEOREM AdvertisingKeptAlways == PairSpec => []AdvertisingKept
<1>1. PairInv => AdvertisingKept
  <2> SUFFICES ASSUME PairInv, AllQuiet, ~failed PROVE On
    BY DEF AdvertisingKept
  <2>1. ASSUME NEW t \in Tasks PROVE ~Leads(call[t]) /\ ~Fits(run[t])
    BY DEF AllQuiet, AllFree, Free, NotRunning, NoCall, Leads, Fits
  <2> QED BY <2>1 DEF PairInv, InHand, AllQuiet
<1> QED BY <1>1, PairInvAlways, PTL
-----------------------------------------------------------------------------
(***************************************************************************)
(* The filter follows the bonds, as long as the tasks take turns (calm).   *)
(*                                                                         *)
(* Then at most one task is at it (Turns).  A task that has something to   *)
(* do about the advertisement stops it first (Stops) or has stopped it     *)
(* (Stopping), so that what is on is right unless a stop is to come        *)
(* (Settled).  A run carries the right filter from the moment it chooses   *)
(* it (Carries), for whoever changes what is right is not alone, except    *)
(* the end of the window: that counts from when its timer has closed it,   *)
(* and its timer stops the advertisement.                                  *)
(***************************************************************************)
\* A filter, with the list as it is.
RightFilter(filter) == filter = ShouldBeStrict /\ (filter => list = bonded)

\* A call that stops the advertisement, and one that has done so.
Stops(c) == c.what = "start" \/ (c.what \in {"cancel", "enc"} /\ c.active)
HasStopped(c) == c.what \in {"run", "sync"}

OneThing == \A t \in Tasks : run[t] = NotRunning \/ call[t] = NoCall
Turns == \A t, u \in Tasks : Free(t) \/ Free(u) \/ t = u
Settled ==
    On /\ window # "over" /\ (\A t \in Tasks : ~Stops(call[t])) => RightFilter(adv.strict)
Stopping == \A t \in Tasks : HasStopped(call[t]) => ~On
Carries ==
    \A t \in Tasks :
        /\ run[t].at = "filter" /\ window # "over" => RightFilter(strict)
        /\ run[t].at \in {"removed", "configured"} /\ window # "over" => RightFilter(run[t].strict)
        /\ run[t].at = "configured" => adv = [state |-> "set", strict |-> run[t].strict]

FilterInv == OneThing /\ (calm => Turns /\ Settled /\ Stopping /\ Carries)

LEMMA FilterInvInit == PairInit => FilterInv
<1> SUFFICES ASSUME PairInit PROVE FilterInv
  OBVIOUS
<1>1. /\ \A t \in Tasks : run[t] = NotRunning /\ (t # "host" => call[t] = NoCall)
      /\ NotRunning.at = "no" /\ adv.state = "none"
  BY DEF PairInit, NotRunning, NoAdv, Tasks
<1> QED BY <1>1 DEF FilterInv, OneThing, Turns, Free, Settled, Stopping, Carries, On

\* Steps of t that leave the others alone keep them free.
LEMMA OthersFree ==
    ASSUME PairTyped, FilterInv, NEW t \in Tasks, ~Free(t) \/ Alone(t), calm,
           \A u \in Tasks \ {t} : run'[u] = run[u] /\ call'[u] = call[u]
    PROVE  /\ Turns'
           /\ \A u \in Tasks \ {t} : run[u] = NotRunning /\ call[u] = NoCall
                                     /\ run'[u] = NotRunning /\ call'[u] = NoCall
BY DEF FilterInv, Turns, Free, Alone

LEMMA StopsIt == ASSUME PairTyped PROVE Stopped.state # "on"
BY DEF PairTyped, Adv, Stopped, On

(***************************************************************************)
(* The steps of a run.                                                     *)
(***************************************************************************)
\* A run begins, by a task that has nothing left to stop.
LEMMA FilterBegins ==
    ASSUME PairTyped, FilterInv, NEW t \in Tasks, RunBegins(t), StartsAfresh(t),
           ~Stops(call[t]), UNCHANGED <<window, adv, bonded>>
    PROVE  FilterInv'
<1>1. /\ run' = [run EXCEPT ![t] = [at |-> "filter", strict |-> FALSE]]
      /\ call' = [call EXCEPT ![t] = NoCall]
      /\ strict' = ShouldBeStrict /\ list' = ListRefreshed
      /\ run \in [Tasks -> Run] /\ call \in [Tasks -> Call]
  BY DEF RunBegins, PairTyped
<1>2. /\ run'[t].at = "filter" /\ call'[t] = NoCall
      /\ \A u \in Tasks \ {t} : run'[u] = run[u] /\ call'[u] = call[u]
  BY <1>1
<1>3. OneThing'
  BY <1>2 DEF FilterInv, OneThing
<1>4. ASSUME calm' PROVE Turns' /\ Settled' /\ Stopping' /\ Carries'
  <2>1. Alone(t) /\ (calm \/ ~On)
    BY <1>4 DEF StartsAfresh
  <2>2. \A u \in Tasks \ {t} : /\ run'[u] = NotRunning /\ call'[u] = NoCall
                               /\ run[u] = NotRunning /\ call[u] = NoCall
    BY <1>2, <2>1 DEF Alone, Free
  <2>3. Turns'
    BY <2>2 DEF Turns, Free
  <2>4. \A u \in Tasks : call'[u] = NoCall
    BY <1>2, <2>2
  <2>5. Stopping'
    BY <2>4 DEF Stopping, HasStopped, NoCall
  <2>6. On /\ window # "over" => RightFilter(adv.strict)
    <3>1. \A u \in Tasks : ~Stops(call[u])
      BY <2>2 DEF Stops, NoCall
    <3> QED BY <2>1, <3>1 DEF FilterInv, Settled
  <2>7. Settled'
    BY <1>1, <2>6 DEF Settled, RightFilter, On, ListRefreshed, ShouldBeStrict
  <2>8. window # "over" => strict' = ShouldBeStrict /\ (strict' => list' = bonded)
    BY <1>1, <2>6 DEF RightFilter, ListRefreshed
  <2>9. Carries'
    BY <1>2, <2>2, <2>8 DEF Carries, NotRunning, RightFilter, ShouldBeStrict
  <2> QED BY <2>3, <2>5, <2>7, <2>9
<1> QED BY <1>3, <1>4 DEF FilterInv

LEMMA FilterRemoves ==
    ASSUME PairTyped, FilterInv, NEW t \in Tasks, RunRemoves(t)
    PROVE  FilterInv'
<1>1. /\ run[t].at = "filter"
      /\ run' = [run EXCEPT ![t] = [at |-> "removed", strict |-> strict]]
      /\ adv' = IF On THEN adv ELSE NoAdv
      /\ UNCHANGED <<window, strict, call, list, bonded, calm>>
      /\ run \in [Tasks -> Run]
  BY DEF RunRemoves, windowVars, phoneVars, PairTyped
<1>2. /\ run'[t].at = "removed" /\ run'[t].strict = strict
      /\ \A u \in Tasks \ {t} : run'[u] = run[u] /\ call'[u] = call[u]
  BY <1>1
<1>3. run[t] # NotRunning /\ call[t] = NoCall
  BY <1>1 DEF NotRunning, FilterInv, OneThing
<1>4. OneThing'
  BY <1>1, <1>2, <1>3 DEF FilterInv, OneThing
<1>5. ASSUME calm PROVE Turns' /\ Settled' /\ Stopping' /\ Carries'
  <2>1. ~Free(t)
    BY <1>3 DEF Free
  <2>2. Turns' /\ \A u \in Tasks \ {t} : run'[u] = NotRunning
    BY <1>2, <1>5, <2>1, OthersFree
  <2>3. On' <=> On
    BY <1>1 DEF On, NoAdv
  <2>4. Settled' /\ Stopping'
    BY <1>1, <1>5, <2>3 DEF FilterInv, Settled, Stopping, RightFilter, ShouldBeStrict, On
  <2>5. Carries'
    BY <1>1, <1>2, <1>5, <2>2 DEF FilterInv, Carries, NotRunning, RightFilter, ShouldBeStrict
  <2> QED BY <2>2, <2>4, <2>5
<1> QED BY <1>1, <1>4, <1>5 DEF FilterInv

LEMMA FilterConfigures ==
    ASSUME PairTyped, FilterInv, NEW t \in Tasks, RunConfigures(t)
    PROVE  FilterInv'
<1>1. /\ run[t].at = "removed"
      /\ \/ /\ adv.state = "none"
            /\ adv' = [state |-> "set", strict |-> run[t].strict]
            /\ run' = [run EXCEPT ![t].at = "configured"]
         \/ adv' = adv /\ run' = [run EXCEPT ![t] = NotRunning]
      /\ UNCHANGED <<window, strict, call, list, bonded, calm>>
      /\ run \in [Tasks -> Run]
  BY DEF RunConfigures, windowVars, phoneVars, PairTyped
<1>2. /\ \/ /\ adv.state = "none" /\ adv' = [state |-> "set", strict |-> run'[t].strict]
            /\ run'[t].at = "configured" /\ run'[t].strict = run[t].strict
         \/ adv' = adv /\ run'[t] = NotRunning
      /\ \A u \in Tasks \ {t} : run'[u] = run[u] /\ call'[u] = call[u]
  <2>1. run[t] \in Run
    BY <1>1
  <2>2. [run[t] EXCEPT !.at = "configured"].at = "configured"
        /\ [run[t] EXCEPT !.at = "configured"].strict = run[t].strict
    BY <2>1 DEF Run
  <2> QED BY <1>1, <2>2
<1>3. run[t] # NotRunning /\ call[t] = NoCall
  BY <1>1 DEF NotRunning, FilterInv, OneThing
<1>4. OneThing'
  BY <1>1, <1>2, <1>3 DEF FilterInv, OneThing
<1>5. ASSUME calm PROVE Turns' /\ Settled' /\ Stopping' /\ Carries'
  <2>1. ~Free(t)
    BY <1>3 DEF Free
  <2>2. Turns' /\ \A u \in Tasks \ {t} : run'[u] = NotRunning
    BY <1>2, <1>5, <2>1, OthersFree
  <2>3. On' => On /\ adv' = adv
    BY <1>2 DEF On
  <2>4. Settled' /\ Stopping'
    BY <1>1, <1>5, <2>3 DEF FilterInv, Settled, Stopping, RightFilter, ShouldBeStrict
  <2>5. Carries'
    BY <1>1, <1>2, <1>5, <2>2 DEF FilterInv, Carries, NotRunning, RightFilter, ShouldBeStrict
  <2> QED BY <2>2, <2>4, <2>5
<1> QED BY <1>1, <1>4, <1>5 DEF FilterInv

LEMMA FilterStarts ==
    ASSUME PairTyped, FilterInv, NEW t \in Tasks, RunStarts(t)
    PROVE  FilterInv'
<1>1. /\ run[t].at = "configured"
      /\ run' = [run EXCEPT ![t] = NotRunning]
      /\ adv' = [adv EXCEPT !.state = "on"] \/ (adv.state # "set" /\ adv' = adv)
      /\ UNCHANGED <<window, strict, call, list, bonded, calm>>
      /\ run \in [Tasks -> Run] /\ adv \in Adv
  BY DEF RunStarts, windowVars, phoneVars, PairTyped
<1>2. /\ run'[t] = NotRunning
      /\ \A u \in Tasks \ {t} : run'[u] = run[u] /\ call'[u] = call[u]
  BY <1>1
<1>3. run[t] # NotRunning /\ call[t] = NoCall
  BY <1>1 DEF NotRunning, FilterInv, OneThing
<1>4. OneThing'
  BY <1>1, <1>2, <1>3 DEF FilterInv, OneThing
<1>5. ASSUME calm PROVE Turns' /\ Settled' /\ Stopping' /\ Carries'
  <2>1. ~Free(t)
    BY <1>3 DEF Free
  <2>2. Turns' /\ \A u \in Tasks \ {t} : run'[u] = NotRunning /\ call'[u] = NoCall
    BY <1>2, <1>5, <2>1, OthersFree
  <2>3. /\ adv = [state |-> "set", strict |-> run[t].strict]
        /\ window # "over" => RightFilter(run[t].strict)
    BY <1>1, <1>5 DEF FilterInv, Carries
  <2>4. adv'.strict = run[t].strict
    BY <1>1, <2>3
  <2>5. Settled'
    BY <1>1, <2>3, <2>4 DEF Settled, RightFilter, ShouldBeStrict
  <2>6. \A u \in Tasks : call'[u] = NoCall
    BY <1>1, <1>3, <2>2
  <2>7. Stopping'
    BY <2>6 DEF Stopping, HasStopped, NoCall
  <2>8. Carries'
    BY <1>2, <2>2 DEF Carries, NotRunning
  <2> QED BY <2>2, <2>5, <2>7, <2>8
<1> QED BY <1>1, <1>4, <1>5 DEF FilterInv

LEMMA FilterFails ==
    ASSUME PairTyped, FilterInv, NEW t \in Tasks, RunFails(t)
    PROVE  FilterInv'
<1>1. run' = [run EXCEPT ![t] = NotRunning] /\ call' = call /\ calm' = FALSE /\ run \in [Tasks -> Run]
  BY DEF RunFails, PairTyped
<1>2. OneThing'
  BY <1>1 DEF FilterInv, OneThing
<1> QED BY <1>1, <1>2 DEF FilterInv

(***************************************************************************)
(* The steps of everybody else.                                            *)
(***************************************************************************)
\* A call that is to stop the advertisement is begun, or one has stopped it.
LEMMA FilterCall ==
    ASSUME PairTyped, FilterInv, NEW t \in Tasks, NEW c, run[t] = NotRunning, UNCHANGED run,
           call' = [call EXCEPT ![t] = c], calm' => calm /\ (~Free(t) \/ Alone(t)),
           (Stops(c) /\ ~HasStopped(c)) \/ (HasStopped(c) /\ ~On')
    PROVE  FilterInv'
<1>1. /\ call'[t] = c /\ run'[t] = NotRunning
      /\ \A u \in Tasks \ {t} : run'[u] = run[u] /\ call'[u] = call[u]
  BY DEF PairTyped
<1>2. OneThing'
  BY <1>1 DEF FilterInv, OneThing
<1>3. ASSUME calm' PROVE Turns' /\ Settled' /\ Stopping' /\ Carries'
  <2>1. Turns' /\ \A u \in Tasks \ {t} : run'[u] = NotRunning /\ call'[u] = NoCall
    BY <1>1, <1>3, OthersFree
  <2>2. Settled'
    BY <1>1 DEF Settled, Stops, HasStopped
  <2>3. Stopping'
    BY <1>1, <2>1 DEF Stopping, HasStopped, NoCall
  <2>4. Carries'
    BY <1>1, <2>1 DEF Carries, NotRunning
  <2> QED BY <2>1, <2>2, <2>3, <2>4
<1> QED BY <1>2, <1>3 DEF FilterInv

\* A call that leaves the advertisement alone begins, or ends: nothing was to stop.
LEMMA FilterIdle ==
    ASSUME PairTyped, FilterInv, NEW t \in Tasks, NEW c, run[t] = NotRunning, ~Stops(call[t]),
           ~Stops(c), ~HasStopped(c), call' = [call EXCEPT ![t] = c], UNCHANGED <<run, adv, list>>,
           calm' => calm /\ (~Free(t) \/ Alone(t)) /\ window' = window /\ bonded' = bonded
    PROVE  FilterInv'
<1>1. /\ call'[t] = c /\ run'[t] = NotRunning
      /\ \A u \in Tasks \ {t} : run'[u] = run[u] /\ call'[u] = call[u]
  BY DEF PairTyped
<1>2. OneThing'
  BY <1>1 DEF FilterInv, OneThing
<1>3. ASSUME calm' PROVE Turns' /\ Settled' /\ Stopping' /\ Carries'
  <2>1. /\ Turns'
        /\ \A u \in Tasks \ {t} : /\ run[u] = NotRunning /\ call[u] = NoCall
                                  /\ run'[u] = NotRunning /\ call'[u] = NoCall
    BY <1>1, <1>3, OthersFree
  <2>2. \A u \in Tasks : ~Stops(call[u])
    BY <2>1 DEF Stops, NoCall
  <2>3. Settled'
    BY <1>3, <2>2 DEF FilterInv, Settled, RightFilter, ShouldBeStrict, On
  <2>4. Stopping'
    BY <1>1, <2>1 DEF Stopping, HasStopped, NoCall
  <2>5. Carries'
    BY <1>1, <2>1 DEF Carries, NotRunning
  <2> QED BY <2>1, <2>3, <2>4, <2>5
<1> QED BY <1>2, <1>3 DEF FilterInv

LEMMA FilterCloses ==
    ASSUME PairTyped, FilterInv, NEW t \in Tasks, Free(t), Closes(t),
           calm' => calm /\ Alone(t) /\ (window = "closed" => bonded' = bonded)
    PROVE  FilterInv'
<1> DEFINE c == [what |-> IF t = "host" THEN "enc" ELSE "cancel", active |-> window # "closed"]
<1>1. /\ call' = [call EXCEPT ![t] = c] /\ window' = "closed" /\ UNCHANGED <<run, adv, list>>
      /\ run[t] = NotRunning /\ call[t] = NoCall
  BY DEF Closes, Free
<1>2. c.what \in {"enc", "cancel"} /\ (c.active <=> window # "closed")
  OBVIOUS
<1> HIDE DEF c
<1>3. ~HasStopped(c) /\ (Stops(c) <=> window # "closed") /\ ~Stops(call[t])
  BY <1>1, <1>2 DEF HasStopped, Stops, NoCall
<1>4. CASE window # "closed"
  BY <1>1, <1>3, <1>4, FilterCall
<1>5. CASE window = "closed"
  BY <1>1, <1>3, <1>5, FilterIdle
<1> QED BY <1>4, <1>5

LEMMA FilterCancelled ==
    ASSUME PairTyped, FilterInv, NEW t \in Tasks, Cancelled(t)
    PROVE  FilterInv'
<1>1. /\ call[t].what \in {"enc", "cancel"}
      /\ adv' = (IF call[t].active THEN Stopped ELSE adv)
      /\ call' = [call EXCEPT ![t] = NoCall]
      /\ UNCHANGED <<window, run, list, bonded, calm>>
  BY DEF Cancelled, phoneVars
<1>2. call[t] # NoCall /\ run[t] = NotRunning /\ ~Free(t)
  BY <1>1 DEF NoCall, FilterInv, OneThing, Free
<1>3. ~Stops(NoCall) /\ ~HasStopped(NoCall)
  BY DEF Stops, HasStopped, NoCall
<1>4. CASE ~call[t].active
  <2>1. ~Stops(call[t]) /\ adv' = adv
    BY <1>1, <1>4 DEF Stops
  <2> QED BY <1>1, <1>2, <1>3, <2>1, FilterIdle
<1>5. CASE call[t].active
  <2>1. ~On'
    BY <1>1, <1>5, StopsIt DEF On
  <2>2. /\ call'[t] = NoCall /\ run'[t] = NotRunning
        /\ \A u \in Tasks \ {t} : run'[u] = run[u] /\ call'[u] = call[u]
    BY <1>1, <1>2 DEF PairTyped
  <2>3. OneThing' /\ Settled' /\ Stopping'
    BY <2>1, <2>2 DEF FilterInv, OneThing, Settled, Stopping
  <2>4. ASSUME calm PROVE Turns' /\ Carries'
    <3>1. Turns' /\ \A u \in Tasks : run'[u] = NotRunning
      BY <1>2, <2>2, <2>4, OthersFree
    <3> QED BY <3>1 DEF Carries, NotRunning
  <2> QED BY <1>1, <2>3, <2>4 DEF FilterInv
<1> QED BY <1>4, <1>5

\* A phone connects: the advertisement was on, so that no run had just configured it.
LEMMA FilterConnect ==
    ASSUME PairTyped, FilterInv, NEW p \in Phones, Connect(p)
    PROVE  FilterInv'
<1>1. On /\ adv' = Stopped /\ UNCHANGED <<window, strict, run, call, list, bonded, calm>>
  BY DEF Connect, windowVars
<1>2. ~On'
  BY <1>1, StopsIt DEF On
<1>3. calm => \A t \in Tasks : run[t].at # "configured"
  BY <1>1 DEF FilterInv, Carries, On
<1> QED BY <1>1, <1>2, <1>3
        DEF FilterInv, OneThing, Turns, Free, Settled, Stopping, Carries, RightFilter, ShouldBeStrict

\* Steps that leave the runs, the calls and the advertisement alone, and what is right,
\* unless they are what the tasks do not take turns over.
LEMMA FilterElsewhere ==
    ASSUME PairTyped, FilterInv, UNCHANGED <<strict, run, call, adv, list>>, calm' => calm,
           calm' /\ window' # "over" => /\ window' = window
                                        /\ bonded' = bonded \/ window = "open"
    PROVE  FilterInv'
<1>1. OneThing'
  BY DEF FilterInv, OneThing
<1>2. ASSUME calm' PROVE Turns' /\ Settled' /\ Stopping' /\ Carries'
  <2>1. Turns' /\ Stopping'
    BY <1>2 DEF FilterInv, Turns, Free, Stopping, On
  <2>2. ASSUME NEW f \in BOOLEAN, window' # "over", RightFilter(f) PROVE RightFilter(f)'
    BY <1>2, <2>2 DEF RightFilter, ShouldBeStrict
  <2>3. adv.strict \in BOOLEAN /\ strict \in BOOLEAN /\ \A t \in Tasks : run[t].strict \in BOOLEAN
    BY Zenon DEF PairTyped, Adv, Run
  <2>4. Settled'
    BY <1>2, <2>2, <2>3 DEF FilterInv, Settled, On
  <2>5. Carries'
    BY <1>2, <2>2, <2>3 DEF FilterInv, Carries
  <2> QED BY <2>1, <2>4, <2>5
<1> QED BY <1>1, <1>2 DEF FilterInv

LEMMA FilterInvNext ==
    ASSUME PairTyped, FilterInv, [PairNext]_pairVars
    PROVE  FilterInv'
<1>1. \A t \in Tasks : Free(t) => run[t] = NotRunning /\ ~Stops(call[t])
  BY DEF Free, NoCall, Stops
<1>2. ASSUME NEW t \in Tasks, Continues(t) PROVE FilterInv'
  <2>1. ~Stops(call[t])
    BY <1>2 DEF Continues, Stops
  <2> QED BY <1>2, <2>1, FilterBegins DEF Continues, windowVars, phoneVars
<1>3. CASE RestartFires
  BY <1>1, <1>3, FilterBegins DEF RestartFires, Tasks, windowVars, phoneVars
<1>4. ASSUME NEW t \in Tasks, NEW what \in {"run", "sync"}, run[t] = NotRunning, UNCHANGED run,
             call' = [call EXCEPT ![t] = [what |-> what, active |-> FALSE]],
             adv' \in {Stopped, NoAdv}, calm' => calm /\ (~Free(t) \/ Alone(t))
      PROVE  FilterInv'
  <2>1. ~On'
    BY <1>4, StopsIt DEF On, NoAdv
  <2>2. HasStopped([what |-> what, active |-> FALSE])
    BY DEF HasStopped
  <2> QED BY <1>4, <2>1, <2>2, FilterCall
<1>5. CASE ExpiryFires
  <2>1. CASE window = "over"
    BY <1>1, <1>4, <1>5, <2>1 DEF ExpiryFires, ExpiryStops, TakesTurn, Tasks
  <2>2. CASE window # "over"
    BY <1>5, <2>2, FilterElsewhere DEF ExpiryFires, phoneVars
  <2> QED BY <2>1, <2>2
<1>6. CASE WindowOpens
  <2> DEFINE c == [what |-> "start", active |-> FALSE]
  <2>1. Stops(c) /\ ~HasStopped(c)
    BY DEF Stops, HasStopped
  <2>2. "httpd" \in Tasks /\ call' = [call EXCEPT !["httpd"] = c] /\ calm' = (calm /\ Alone("httpd"))
        /\ run' = run /\ run["httpd"] = NotRunning
    BY <1>1, <1>6 DEF WindowOpens, TakesTurn, Tasks
  <2> QED BY <2>1, <2>2, FilterCall
<1>7. CASE WindowTimed
  <2>1. call["httpd"] # NoCall /\ "httpd" \in Tasks
    BY <1>7 DEF WindowTimed, NoCall, Tasks
  <2>2. run["httpd"] = NotRunning /\ ~Free("httpd")
    BY <2>1 DEF FilterInv, OneThing, Free
  <2> QED BY <1>4, <1>7, <2>1, <2>2 DEF WindowTimed
<1>8. ASSUME NEW gone, StopAndStart(gone) PROVE FilterInv'
  BY <1>1, <1>4, <1>8 DEF StopAndStart, TakesTurn, Tasks
<1>9. CASE SetName \/ \E p \in Phones : Revoke(p)
  BY <1>8, <1>9 DEF SetName, Revoke
<1>10. CASE HostReset
  BY <1>1, <1>4, <1>10 DEF HostReset, TakesTurn, Tasks
<1>11. CASE PairingCancel
  BY <1>11, FilterCloses DEF PairingCancel, TakesTurn, Tasks, phoneVars
<1>12. ASSUME NEW p \in Phones, EncChange(p) PROVE FilterInv'
  <2>1. calm' => calm /\ Alone("host") /\ (window = "closed" => bonded' = bonded)
    BY <1>12 DEF EncChange
  <2> QED BY <1>12, <2>1, FilterCloses DEF EncChange, Tasks
<1>13. CASE AdvComplete \/ \E p \in Phones : Disconnect(p)
  BY <1>13, FilterElsewhere DEF AdvComplete, Disconnect, Schedules, windowVars
<1>14. ASSUME NEW p \in Phones, AsksToPair(p) PROVE FilterInv'
  <2>1. /\ UNCHANGED <<window, strict, run, call, adv, list>> /\ (calm' => calm)
        /\ calm' => bonded' = bonded \/ window = "open"
    BY <1>14 DEF AsksToPair, windowVars, airVars
  <2> QED BY <2>1, FilterElsewhere
<1>15. CASE WindowEnds \/ PairingConfirm \/ UNCHANGED pairVars \/ \E p \in Phones : Passkey(p)
  BY <1>15, FilterElsewhere
     DEF WindowEnds, PairingConfirm, Passkey, pairVars, windowVars, airVars, phoneVars
<1> QED BY <1>2, <1>3, <1>5, <1>6, <1>7, <1>9, <1>10, <1>11, <1>12, <1>13, <1>14, <1>15, FilterRemoves,
           FilterConfigures, FilterStarts, FilterFails, FilterCancelled, FilterConnect DEF PairNext

\* When all is quiet the advertisement lets in whom it should: everybody in the pairing
\* window and as long as nobody is bonded, and else the bonded phones and no others, if
\* the tasks took turns since it was last started afresh.
THEOREM FilterFollowsAlways == PairSpec => []FilterFollows
<1>1. PairSpec => []FilterInv
  <2>1. PairInv /\ FilterInv /\ [PairNext]_pairVars => FilterInv'
    BY FilterInvNext DEF PairInv
  <2> QED BY <2>1, FilterInvInit, PairInvAlways, PTL DEF PairSpec
<1>2. FilterInv => FilterFollows
  <2> SUFFICES ASSUME FilterInv, AllQuiet, calm, window # "over", On PROVE RightFilter(adv.strict)
    BY DEF FilterFollows, RightFilter
  <2>1. \A t \in Tasks : ~Stops(call[t])
    BY DEF AllQuiet, AllFree, Free, NoCall, Stops
  <2> QED BY <2>1 DEF FilterInv, Settled
<1> QED BY <1>1, <1>2, PTL
=============================================================================
