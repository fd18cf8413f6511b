----------------------------- MODULE SystemProofs -----------------------------
(***************************************************************************)
(* What the handlers of components/http_app/dd_http_system.c see to: who   *)
(* is let in, and what a restore leaves of the workers.                    *)
(*                                                                         *)
(* Who is let in, for any number of slots, any passwords and any lifetime  *)
(* of a session.                                                           *)
(*                                                                         *)
(* A session is looked up by its slot only, so what is known of it must be *)
(* known of every slot, the expired ones included (Slotted).  That a       *)
(* password fits its sessions holds until a restart is on its way; a       *)
(* set-up, which leaves the sessions alone, finds none then (Fitting).     *)
(***************************************************************************)
EXTENDS Session, Restore, TLAPS, FiniteSetTheorems, FunctionTheorems, SequenceTheorems

Logged == [pw : Passwords, at : Nat]
WritingTo == [by : {"setup", "restore", "change"}, pw : Passwords, salted : BOOLEAN]

Typed ==
    /\ salt \in {"none", "own", "other"}
    /\ hash \in Passwords \cup {NoPassword}
    /\ slots \in [Slot -> [token : Nat, expires : Nat]]
    /\ clock \in Nat
    /\ writing \in WritingTo \cup {NotWriting}
    /\ logins \in Seq(Logged)
    /\ closed \subseteq DOMAIN logins

\* Logins come one after another.
Ordered ==
    /\ \A t \in DOMAIN logins : logins[t].at <= clock
    /\ \A s, t \in DOMAIN logins : s < t => logins[s].at < logins[t].at

\* What a slot holds.
Slotted ==
    /\ \A i \in Slot : slots[i].token = 0 => slots[i].expires = 0
    /\ \A i \in Slot : slots[i].token # 0 =>
        /\ slots[i].token \in DOMAIN logins
        /\ slots[i].expires = logins[slots[i].token].at + Ttl
        /\ slots[i].token \notin closed
    /\ \A i, j \in Slot : slots[i].token = slots[j].token /\ slots[i].token # 0 => i = j

\* Whose password the sessions were begun with.
Fitting ==
    ~leaving =>
        /\ \A i \in Slot : slots[i].token # 0 => logins[slots[i].token].pw = hash
        /\ ~Ready /\ writing.by # "change" => \A i \in Slot : slots[i].token = 0

\* The password in NVS: its hash has its salt, but where the two were parted.
Whole ==
    /\ wanted = hash
    /\ ~cut /\ ~writing.salted /\ HasAdmin => salt = "own"

Sessioned == Typed /\ Ordered /\ Slotted /\ Fitting /\ Whole

-----------------------------------------------------------------------------
\* Lengths and elements of the list of logins.
LEMMA LoginsSeq ==
    ASSUME Typed
    PROVE  /\ Len(logins) \in Nat /\ DOMAIN logins = 1..Len(logins)
           /\ \A t \in 1..Len(logins) : logins[t].pw \in Passwords /\ logins[t].at \in Nat
<1>1. logins \in Seq(Logged)
  BY DEF Typed
<1>2. Len(logins) \in Nat /\ DOMAIN logins = 1..Len(logins)
  BY <1>1
<1>3. \A t \in 1..Len(logins) : logins[t] \in Logged
  BY <1>1
<1> QED BY <1>2, <1>3 DEF Logged

LEMMA SessionedInit == SessionInit => Sessioned
<1> SUFFICES ASSUME SessionInit PROVE Sessioned
  OBVIOUS
<1> USE DEF SessionInit, Empty, NotWriting
<1>1. Typed
  <2>1. logins \in Seq(Logged) /\ DOMAIN logins = {}
    OBVIOUS
  <2>2. slots \in [Slot -> [token : Nat, expires : Nat]]
    OBVIOUS
  <2> QED BY <2>1, <2>2 DEF Typed
<1>2. Ordered /\ Slotted
  BY DEF Ordered, Slotted
<1>3. Fitting /\ Whole
  BY DEF Fitting, Whole, Ready, HasAdmin
<1> QED BY <1>1, <1>2, <1>3 DEF Sessioned

(***************************************************************************)
(* A login.                                                                *)
(***************************************************************************)
LEMMA LoginStep ==
    ASSUME Sessioned, NEW pw \in Passwords, Login(pw)
    PROVE  Sessioned'
<1> DEFINE n == Len(logins) + 1
<1>1. /\ clock \in Nat /\ clock' = clock + 1 /\ Len(logins) \in Nat /\ Ttl \in Nat \ {0}
      /\ DOMAIN logins = 1..Len(logins) /\ slots \in [Slot -> [token : Nat, expires : Nat]]
  BY LoginsSeq, SessionAssumption DEF Sessioned, Typed, Login
<1>2. PICK i \in Slot : slots' = [slots EXCEPT ![i] = [token |-> n, expires |-> clock' + Ttl]]
  BY DEF Login
<1>3. /\ logins' \in Seq(Logged) /\ Len(logins') = n /\ DOMAIN logins' = 1..n
      /\ logins'[n] = [pw |-> pw, at |-> clock'] /\ \A t \in 1..Len(logins) : logins'[t] = logins[t]
  BY <1>1 DEF Login, Sessioned, Typed, Logged
<1>4. /\ slots'[i].token = n /\ slots'[i].expires = clock' + Ttl
      /\ \A j \in Slot \ {i} : slots'[j] = slots[j]
  BY <1>1, <1>2
<1>5. /\ salt' = salt /\ hash' = hash /\ writing' = writing /\ wanted' = wanted /\ cut' = cut
      /\ leaving' = leaving /\ closed' = closed
      /\ Ready /\ HasAdmin /\ pw = hash
  BY DEF Login, password, Verified
<1>6. Typed'
  <2>1. slots' \in [Slot -> [token : Nat, expires : Nat]]
    BY <1>1, <1>2
  <2>2. closed' \subseteq DOMAIN logins'
    BY <1>1, <1>3, <1>5 DEF Sessioned, Typed
  <2> QED BY <1>1, <1>3, <1>5, <2>1, <2>2 DEF Sessioned, Typed
<1>7. Ordered'
  <2>1. \A t \in 1..Len(logins) : logins[t].at \in Nat /\ logins[t].at <= clock
    BY <1>1, LoginsSeq DEF Sessioned, Ordered
  <2>2. \A t \in DOMAIN logins' : logins'[t].at <= clock'
    BY <1>1, <1>3, <2>1
  <2>3. ASSUME NEW s \in DOMAIN logins', NEW t \in DOMAIN logins', s < t
        PROVE  logins'[s].at < logins'[t].at
    <3>1. s \in 1..Len(logins)
      BY <1>1, <1>3, <2>3
    <3>2. CASE t = n
      BY <1>1, <1>3, <2>1, <3>1, <3>2
    <3>3. CASE t # n
      BY <1>1, <1>3, <2>3, <3>1, <3>3 DEF Sessioned, Ordered
    <3> QED BY <3>2, <3>3
  <2> QED BY <2>2, <2>3 DEF Ordered
<1>8. Slotted'
  <2>1. n # 0 /\ n \notin closed /\ \A j \in Slot : slots[j].token # n
    BY <1>1 DEF Sessioned, Typed, Slotted
  <2>2. ASSUME NEW j \in Slot, slots'[j].token = 0
        PROVE  slots'[j].expires = 0
    BY <1>4, <2>1, <2>2 DEF Sessioned, Slotted
  <2>3. ASSUME NEW j \in Slot, slots'[j].token # 0
        PROVE  /\ slots'[j].token \in DOMAIN logins'
               /\ slots'[j].expires = logins'[slots'[j].token].at + Ttl
               /\ slots'[j].token \notin closed'
    <3>1. CASE j = i
      <4>1. slots'[j].token = n /\ slots'[j].token \in DOMAIN logins' /\ slots'[j].token \notin closed'
        BY <1>1, <1>3, <1>4, <1>5, <2>1, <3>1
      <4>2. logins'[slots'[j].token].at = clock' /\ slots'[j].expires = clock' + Ttl
        BY <1>3, <1>4, <3>1, <4>1
      <4> QED BY <4>1, <4>2
    <3>2. CASE j # i
      BY <1>1, <1>3, <1>4, <1>5, <2>3, <3>2 DEF Sessioned, Slotted
    <3> QED BY <3>1, <3>2
  <2>4. ASSUME NEW j \in Slot, NEW k \in Slot, slots'[j].token = slots'[k].token, slots'[j].token # 0
        PROVE  j = k
    BY <1>4, <2>1, <2>4 DEF Sessioned, Slotted
  <2> QED BY <2>2, <2>3, <2>4 DEF Slotted
<1>9. Fitting'
  <2> SUFFICES ASSUME ~leaving, NEW j \in Slot, slots'[j].token # 0
               PROVE  logins'[slots'[j].token].pw = hash
    BY <1>5 DEF Fitting, Ready
  <2>1. CASE j = i
    BY <1>3, <1>4, <1>5, <2>1
  <2>2. CASE j # i
    <3>1. slots'[j] = slots[j] /\ slots[j].token \in 1..Len(logins)
      BY <1>1, <1>4, <2>2 DEF Sessioned, Slotted
    <3> QED BY <1>3, <3>1 DEF Sessioned, Fitting
  <2> QED BY <2>1, <2>2
<1>10. Whole'
  BY <1>5 DEF Sessioned, Whole, HasAdmin
<1> QED BY <1>6, <1>7, <1>8, <1>9, <1>10 DEF Sessioned

(***************************************************************************)
(* A logout, and the passing of time.                                      *)
(***************************************************************************)
LEMMA LogoutStep ==
    ASSUME Sessioned, NEW t \in DOMAIN logins, Logout(t)
    PROVE  Sessioned'
<1>1. /\ slots' = [i \in Slot |-> IF slots[i].token = t THEN Empty ELSE slots[i]]
      /\ closed' = closed \cup {t} /\ logins' = logins /\ clock' = clock /\ leaving' = leaving
      /\ salt' = salt /\ hash' = hash /\ writing' = writing /\ wanted' = wanted /\ cut' = cut
      /\ Ready
  BY DEF Logout, password
<1>2. slots \in [Slot -> [token : Nat, expires : Nat]] /\ DOMAIN logins = 1..Len(logins)
  BY LoginsSeq DEF Sessioned, Typed
<1>3. \A i \in Slot : \/ slots'[i].token = 0 /\ slots'[i].expires = 0
                      \/ slots'[i] = slots[i] /\ slots[i].token # t
  <2> SUFFICES ASSUME NEW i \in Slot
               PROVE  \/ slots'[i].token = 0 /\ slots'[i].expires = 0
                      \/ slots'[i] = slots[i] /\ slots[i].token # t
    OBVIOUS
  <2>1. slots'[i] = IF slots[i].token = t THEN Empty ELSE slots[i]
    BY <1>1
  <2>2. Empty.token = 0 /\ Empty.expires = 0
    BY DEF Empty
  <2> QED BY <2>1, <2>2
<1>4. Typed'
  <2>1. slots' \in [Slot -> [token : Nat, expires : Nat]]
    BY <1>1, <1>2 DEF Empty
  <2> QED BY <1>1, <2>1 DEF Sessioned, Typed
<1>5. Ordered' /\ Whole'
  BY <1>1 DEF Sessioned, Ordered, Whole, HasAdmin
<1>6. Slotted'
  <2>1. ASSUME NEW i \in Slot, slots'[i].token # 0
        PROVE  slots'[i] = slots[i] /\ slots[i].token # t
    BY <1>3, <2>1
  <2> QED BY <1>1, <1>3, <2>1 DEF Sessioned, Slotted
<1>7. Fitting'
  BY <1>1, <1>3 DEF Sessioned, Fitting, Ready
<1> QED BY <1>4, <1>5, <1>6, <1>7 DEF Sessioned

LEMMA TimeStep ==
    ASSUME Sessioned, Time
    PROVE  Sessioned'
<1>1. /\ clock \in Nat /\ clock' = clock + 1 /\ DOMAIN logins = 1..Len(logins)
      /\ \A t \in 1..Len(logins) : logins[t].at \in Nat
      /\ UNCHANGED <<password, slots, leaving, history>>
  BY LoginsSeq DEF Sessioned, Typed, Time
<1>2. Typed'
  BY <1>1 DEF Sessioned, Typed, password, history
<1>3. Ordered'
  BY <1>1 DEF Sessioned, Ordered, history
<1>4. Slotted' /\ Fitting' /\ Whole'
  BY <1>1 DEF Sessioned, Slotted, Fitting, Whole, Ready, HasAdmin, password, history
<1> QED BY <1>2, <1>3, <1>4 DEF Sessioned

(***************************************************************************)
(* The password is written, or not.                                        *)
(***************************************************************************)
LEMMA StartsStep ==
    ASSUME Sessioned, NEW pw \in Passwords, NEW by \in {"setup", "restore", "change"},
           Ready, by = "change" \/ ~HasAdmin, Starts(by, pw)
    PROVE  Sessioned'
<1>1. /\ writing' = [by |-> by, pw |-> pw, salted |-> FALSE]
      /\ UNCHANGED <<salt, hash, slots, clock, leaving, logins, closed, wanted, cut>>
  BY DEF Starts, history
<1>2. Typed'
  <2>1. writing' \in WritingTo
    BY <1>1 DEF WritingTo
  <2> QED BY <1>1, <2>1 DEF Sessioned, Typed
<1>3. Ordered' /\ Slotted'
  BY <1>1 DEF Sessioned, Ordered, Slotted
<1>4. Fitting'
  <2> SUFFICES ASSUME ~leaving
               PROVE  /\ \A i \in Slot : slots[i].token # 0 => logins[slots[i].token].pw = hash
                      /\ by # "change" => \A i \in Slot : slots[i].token = 0
    BY <1>1 DEF Fitting
  <2>1. \A i \in Slot : slots[i].token # 0 => logins[slots[i].token].pw = hash
    BY DEF Sessioned, Fitting
  <2>2. ASSUME by # "change", NEW i \in Slot, slots[i].token # 0
        PROVE  FALSE
    <3>1. hash = NoPassword
      BY <2>2 DEF HasAdmin
    <3>2. logins[slots[i].token].pw \in Passwords
      BY <2>2, LoginsSeq DEF Sessioned, Slotted
    <3> QED BY <2>1, <2>2, <3>1, <3>2, SessionAssumption
  <2> QED BY <2>1, <2>2
<1>5. Whole'
  BY <1>1 DEF Sessioned, Whole, HasAdmin, Ready, NotWriting
<1> QED BY <1>2, <1>3, <1>4, <1>5 DEF Sessioned

LEMMA WriteSaltStep ==
    ASSUME Sessioned, WriteSalt
    PROVE  Sessioned'
<1>1. /\ salt' = "other" /\ writing' = [writing EXCEPT !.salted = TRUE] /\ writing \in WritingTo
      /\ UNCHANGED <<hash, slots, clock, leaving, logins, closed, wanted, cut>>
  BY DEF WriteSalt, Ready, history, Sessioned, Typed
<1>2. writing' \in WritingTo /\ writing'.salted /\ writing'.by = writing.by
  BY <1>1 DEF WritingTo
<1>3. Typed' /\ Ordered' /\ Slotted'
  BY <1>1, <1>2 DEF Sessioned, Typed, Ordered, Slotted
<1>4. Fitting'
  BY <1>1, <1>2 DEF Sessioned, Fitting, WriteSalt
<1>5. Whole'
  BY <1>1, <1>2 DEF Sessioned, Whole
<1> QED BY <1>3, <1>4, <1>5 DEF Sessioned

LEMMA WriteHashStep ==
    ASSUME Sessioned, WriteHash
    PROVE  Sessioned'
<1>1. /\ hash' = writing.pw /\ salt' = SaltOfHash /\ wanted' = writing.pw /\ cut' = (salt = "none")
      /\ slots' = AfterChange /\ writing' = NotWriting
      /\ UNCHANGED <<clock, logins, closed>>
      /\ \/ writing.by # "change" /\ leaving' = TRUE
         \/ writing.by # "restore" /\ UNCHANGED leaving
      /\ ~Ready /\ writing \in WritingTo
  BY DEF WriteHash, Ready, history, Sessioned, Typed
<1>2. writing.pw \in Passwords
  BY <1>1 DEF WritingTo
<1>3. CASE writing.by = "change"
  <2>1. \A i \in Slot : slots'[i].token = 0 /\ slots'[i].expires = 0
    BY <1>1, <1>3 DEF AfterChange, Empty
  <2>2. slots' \in [Slot -> [token : Nat, expires : Nat]]
    BY <1>1, <1>3 DEF AfterChange, Empty
  <2>3. Typed'
    BY <1>1, <1>2, <2>2 DEF Sessioned, Typed, SaltOfHash
  <2>4. Ordered' /\ Slotted' /\ Fitting'
    BY <1>1, <2>1 DEF Sessioned, Ordered, Slotted, Fitting
  <2> QED BY <1>1, <2>3, <2>4 DEF Sessioned, Whole, SaltOfHash
<1>4. CASE writing.by # "change"
  <2>1. slots' = slots
    BY <1>1, <1>4 DEF AfterChange
  <2>2. Typed'
    BY <1>1, <1>2, <2>1 DEF Sessioned, Typed, SaltOfHash
  <2>3. Ordered' /\ Slotted'
    BY <1>1, <2>1 DEF Sessioned, Ordered, Slotted
  <2>4. Fitting'
    BY <1>1, <1>4, <2>1 DEF Sessioned, Fitting, Ready
  <2> QED BY <1>1, <2>2, <2>3, <2>4 DEF Sessioned, Whole, SaltOfHash
<1> QED BY <1>3, <1>4

LEMMA WriteFailsStep ==
    ASSUME Sessioned, WriteFails
    PROVE  Sessioned'
<1>1. /\ cut' = (cut \/ (writing.salted /\ HasAdmin)) /\ writing' = NotWriting
      /\ leaving' = (leaving \/ writing.by = "restore")
      /\ UNCHANGED <<salt, hash, slots, clock, logins, closed, wanted>>
  BY DEF WriteFails, history
<1>2. Typed' /\ Ordered' /\ Slotted'
  BY <1>1 DEF Sessioned, Typed, Ordered, Slotted
<1>3. Fitting'
  BY <1>1 DEF Sessioned, Fitting, Ready
<1>4. Whole'
  BY <1>1 DEF Sessioned, Whole, HasAdmin
<1> QED BY <1>2, <1>3, <1>4 DEF Sessioned

(***************************************************************************)
(* Resets of both kinds.                                                   *)
(***************************************************************************)
LEMMA FactoryResetStep ==
    ASSUME Sessioned, FactoryReset
    PROVE  Sessioned'
<1>1. /\ salt' \in {salt, "none"} /\ hash' \in {hash, NoPassword} /\ wanted' = hash'
      /\ cut' = (hash' # NoPassword /\ (cut \/ salt' = "none")) /\ leaving' = TRUE
      /\ UNCHANGED <<slots, clock, writing, logins, closed>>
  BY DEF FactoryReset, history
<1>2. Typed' /\ Ordered' /\ Slotted'
  BY <1>1 DEF Sessioned, Typed, Ordered, Slotted
<1>3. Fitting' /\ Whole'
  BY <1>1 DEF Sessioned, Fitting, Whole, HasAdmin
<1> QED BY <1>2, <1>3 DEF Sessioned

LEMMA RebootStep ==
    ASSUME Sessioned, Reboot
    PROVE  Sessioned'
<1>1. /\ slots' = [i \in Slot |-> Empty] /\ clock' = 0 /\ writing' = NotWriting
      /\ leaving' = FALSE /\ logins' = <<>> /\ closed' = {}
      /\ cut' = (cut \/ (writing.salted /\ HasAdmin)) /\ UNCHANGED <<salt, hash, wanted>>
  BY DEF Reboot, Gone
<1>2. \A i \in Slot : slots'[i].token = 0 /\ slots'[i].expires = 0
  BY <1>1 DEF Empty
<1>3. Typed'
  <2>1. slots' \in [Slot -> [token : Nat, expires : Nat]]
    BY <1>1 DEF Empty
  <2>2. logins' \in Seq(Logged) /\ closed' \subseteq DOMAIN logins'
    BY <1>1
  <2> QED BY <1>1, <2>1, <2>2 DEF Sessioned, Typed
<1>4. Ordered'
  BY <1>1 DEF Ordered
<1>5. Slotted' /\ Fitting'
  BY <1>1, <1>2 DEF Slotted, Fitting, Ready
<1>6. Whole'
  BY <1>1 DEF Sessioned, Whole, HasAdmin
<1> QED BY <1>3, <1>4, <1>5, <1>6 DEF Sessioned

LEMMA StutterStep ==
    ASSUME Sessioned, UNCHANGED sessionVars
    PROVE  Sessioned'
BY DEF Sessioned, sessionVars, Typed, Ordered, Slotted, Fitting, Whole, Ready, HasAdmin

\* Every reachable state has the invariant.
THEOREM SessionedAlways == SessionSpec => []Sessioned
<1>1. Sessioned /\ [SessionNext]_sessionVars => Sessioned'
  <2> SUFFICES ASSUME Sessioned, [SessionNext]_sessionVars PROVE Sessioned'
    OBVIOUS
  <2>1. ASSUME NEW pw \in Passwords, Login(pw) PROVE Sessioned'
    BY <2>1, LoginStep
  <2>2. ASSUME NEW pw \in Passwords, Setup(pw) PROVE Sessioned'
    BY <2>2, StartsStep DEF Setup
  <2>3. ASSUME NEW pw \in Passwords, Restored(pw) PROVE Sessioned'
    BY <2>3, StartsStep DEF Restored
  <2>4. ASSUME NEW old \in Passwords, NEW new \in Passwords, Change(old, new) PROVE Sessioned'
    BY <2>4, StartsStep DEF Change
  <2>5. ASSUME NEW t \in DOMAIN logins, Logout(t) PROVE Sessioned'
    BY <2>5, LogoutStep
  <2>6. ASSUME ResetPost \/ ResetButton PROVE Sessioned'
    BY <2>6, FactoryResetStep DEF ResetPost, ResetButton
  <2> QED BY <2>1, <2>2, <2>3, <2>4, <2>5, <2>6, TimeStep, WriteSaltStep, WriteHashStep,
             WriteFailsStep, RebootStep, StutterStep DEF SessionNext
<1> QED BY <1>1, SessionedInit, PTL DEF SessionSpec

\* A session that is valid was begun in this boot, less than the TTL ago, was not logged
\* out, and has the password in force, unless a restart is on its way.
THEOREM SessionsEarned == SessionSpec => []SessionsAreEarned
<1>1. Sessioned => SessionsAreEarned
  <2> SUFFICES ASSUME Sessioned, NEW t \in Sessions
               PROVE  /\ t \notin closed
                      /\ clock - logins[t].at < Ttl
                      /\ ~leaving => logins[t].pw = hash
    BY DEF SessionsAreEarned
  <2>1. PICK i \in Slot : slots[i].token = t /\ slots[i].expires > clock
    BY DEF Sessions, Valid
  <2>2. t \in DOMAIN logins /\ t \in Nat \ {0} /\ logins[t].at \in Nat /\ clock \in Nat
    BY LoginsSeq DEF Sessions, Sessioned, Typed
  <2>3. t \notin closed /\ slots[i].expires = logins[t].at + Ttl
    BY <2>1, <2>2 DEF Sessioned, Slotted
  <2>4. clock - logins[t].at < Ttl
    BY <2>1, <2>2, <2>3, SessionAssumption
  <2>5. ~leaving => logins[t].pw = hash
    BY <2>1, <2>2 DEF Sessioned, Fitting
  <2> QED BY <2>3, <2>4, <2>5
<1> QED BY <1>1, SessionedAlways, PTL

\* The password last confirmed and not erased since is the one that is let in, whatever
\* fails, unless its hash was left with another salt, or with none.
THEOREM PasswordWorksAlways == SessionSpec => []PasswordWorks
<1>1. Sessioned => PasswordWorks
  <2> SUFFICES ASSUME Sessioned, Ready, ~cut
               PROVE  /\ wanted = NoPassword => ~HasAdmin
                      /\ \A pw \in Passwords : Verified(pw) = (pw = wanted)
    BY DEF PasswordWorks
  <2>1. wanted = hash /\ (HasAdmin => salt = "own")
    BY DEF Sessioned, Whole, Ready, NotWriting
  <2> QED BY <2>1, SessionAssumption DEF Verified, HasAdmin
<1> QED BY <1>1, SessionedAlways, PTL

\* A login that shuts somebody else out found every slot taken by a session that is
\* still valid, and took the oldest: the slots and the sessions are in bijection.
THEOREM EvictsTheOldestAlways == SessionSpec => EvictsTheOldest
<1> DEFINE Fresh == {s \in Sessions : clock' - logins[s].at < Ttl}
<1>1. ASSUME Sessioned, NEW pw \in Passwords, Login(pw),
             NEW t \in Sessions, ~Valid(t)', clock' - logins[t].at < Ttl
      PROVE  Cardinality(Fresh) = MaxSessions /\ \A s \in Fresh : t <= s
  <2>1. /\ clock \in Nat /\ clock' = clock + 1 /\ DOMAIN logins = 1..Len(logins) /\ Len(logins) \in Nat
        /\ \A s \in 1..Len(logins) : logins[s].at \in Nat
        /\ slots \in [Slot -> [token : Nat, expires : Nat]] /\ MaxSessions \in Nat \ {0} /\ Ttl \in Nat \ {0}
    BY <1>1, LoginsSeq, SessionAssumption DEF Sessioned, Typed, Login
  <2>2. PICK i \in Slot : i \in Candidates(clock')
                         /\ slots' = [slots EXCEPT ![i] = [token |-> Len(logins) + 1, expires |-> clock' + Ttl]]
    BY <1>1 DEF Login
  <2>3. PICK k \in Slot : slots[k].token = t
    BY <1>1 DEF Sessions, Valid
  <2>4. t \in 1..Len(logins) /\ slots[k].expires = logins[t].at + Ttl
    BY <1>1, <2>1, <2>3 DEF Sessions, Sessioned, Slotted
  <2>5. slots[k].expires > clock'
    BY <1>1, <2>1, <2>4
  <2>6. k = i
    <3>1. ASSUME k # i PROVE FALSE
      <4>1. slots'[k] = slots[k]
        BY <2>1, <2>2, <3>1
      <4> QED BY <1>1, <2>3, <2>5, <4>1 DEF Valid
    <3> QED BY <3>1
  <2>7. \A j \in Slot : slots[k].expires <= slots[j].expires
    <3>1. i \notin Unused(clock')
      BY <2>1, <2>5, <2>6 DEF Unused
    <3> QED BY <2>2, <2>6, <3>1 DEF Candidates, FirstToExpire
  <2>8. ASSUME NEW j \in Slot
        PROVE  /\ slots[j].token \in Fresh
               /\ slots[j].expires = logins[slots[j].token].at + Ttl
    <3>1. slots[j].expires > clock' /\ slots[j].expires > clock /\ slots[j].expires # 0
      BY <2>1, <2>5, <2>7
    <3>2. slots[j].token \in 1..Len(logins) /\ slots[j].expires = logins[slots[j].token].at + Ttl
      BY <1>1, <2>1, <3>1 DEF Sessioned, Slotted
    <3>3. slots[j].token \in Sessions
      BY <2>1, <3>1, <3>2 DEF Sessions, Valid
    <3>4. clock' - logins[slots[j].token].at < Ttl
      BY <2>1, <3>1, <3>2
    <3> QED BY <3>2, <3>3, <3>4
  <2>9. \A s \in Fresh : \E j \in Slot : slots[j].token = s
    BY DEF Sessions, Valid
  <2>10. Cardinality(Fresh) = MaxSessions
    <3> DEFINE taken == [j \in Slot |-> slots[j].token]
    <3>1. \A a, b \in Slot : taken[a] = taken[b] => a = b
      <4> SUFFICES ASSUME NEW a \in Slot, NEW b \in Slot, slots[a].token = slots[b].token PROVE a = b
        OBVIOUS
      <4>1. slots[a].token # 0
        BY <2>1, <2>8 DEF Sessions
      <4> QED BY <1>1, <4>1 DEF Sessioned, Slotted
    <3>2. taken \in [Slot -> Fresh] /\ \A s \in Fresh : \E j \in Slot : taken[j] = s
      BY <2>8, <2>9
    <3>3. taken \in Bijection(Slot, Fresh)
      BY <3>1, <3>2, Fun_IsBij
    <3>4. IsFiniteSet(Slot) /\ Cardinality(Slot) = MaxSessions
      <4>1. MaxSessions \in Nat \ {0}
        BY <2>1
      <4>2. IsFiniteSet(1..MaxSessions) /\ Cardinality(1..MaxSessions) = MaxSessions
        BY <4>1, FS_Interval
      <4> QED BY <4>2 DEF Slot
    <3> QED BY <3>3, <3>4, FS_Bijection DEF ExistsBijection
  <2>11. ASSUME NEW s \in Fresh PROVE t <= s
    <3>1. PICK j \in Slot : slots[j].token = s
      BY <2>9
    <3>2. s \in 1..Len(logins) /\ logins[t].at <= logins[s].at
      BY <2>1, <2>4, <2>7, <2>8, <3>1 DEF Sessions
    <3>3. ASSUME s < t PROVE FALSE
      <4>1. logins[s].at < logins[t].at
        BY <1>1, <2>1, <2>4, <3>2, <3>3 DEF Sessioned, Ordered
      <4> QED BY <2>1, <2>4, <3>2, <4>1
    <3> QED BY <2>4, <3>2, <3>3
  <2> QED BY <2>10, <2>11
<1>2. Sessioned =>
        [\A pw \in Passwords : Login(pw) =>
            \A t \in Sessions : ~Valid(t)' /\ clock' - logins[t].at < Ttl =>
                /\ Cardinality({s \in Sessions : clock' - logins[s].at < Ttl}) = MaxSessions
                /\ \A s \in Sessions : clock' - logins[s].at < Ttl => t <= s]_sessionVars
  BY <1>1
<1> QED BY <1>2, SessionedAlways, PTL DEF EvictsTheOldest
-----------------------------------------------------------------------------
(***************************************************************************)
(* What a restore leaves, for any backups and any number of workers.       *)
(*                                                                         *)
(* As long as NVS is sound the workers in RAM are those stored below       *)
(* next_id, each under an id of its own (Agrees), and nothing is stored    *)
(* beyond it that a restore with a larger id would bring back (Beyond).    *)
(* What is stored always fits into the table, so that the next boot finds  *)
(* all of it.  While the restore adds workers, those it came past are in   *)
(* their place unless a later one of the same id took it (Added), or they  *)
(* found the table full, as it then stays until the answer (Crowded).      *)
(***************************************************************************)
Entry == [id : 0..MaxWorkerId, peer : Owners]
WorkerRec == [id : WorkerIds, peer : Owners]

RestoreTyped ==
    /\ workers \in Seq(WorkerRec)
    /\ nextId \in Nat \ {0} /\ nvsNextId \in Nat \ {0}
    /\ nvsBlobs \in [WorkerIds -> Owners \cup {NoOwner}]
    /\ doing \in {"none", "wipe", "add", "booting"}
    /\ backup \in Seq(Entry) /\ given \in Seq(Entry)
    /\ doing = "wipe" => backup = given
    /\ doing # "add" => leftOut = {}
    /\ sound \in BOOLEAN

\* The ids that the next boot looks at and finds.
StoredIds == {i \in WorkerIds : InNvs(i)}

Beyond ==
    /\ Cardinality(StoredIds) <= MaxRegistry
    /\ \A i \in WorkerIds : i >= nvsNextId => nvsBlobs[i] = NoOwner

Agrees ==
    /\ doing = "booting" => workers = <<>>
    /\ doing # "booting" =>
        /\ nextId = nvsNextId /\ Len(workers) <= MaxRegistry
        /\ \A n \in DOMAIN workers : /\ workers[n].id \in StoredIds
                                     /\ workers[n].peer = nvsBlobs[workers[n].id]
        /\ \A i \in StoredIds : \E n \in DOMAIN workers : workers[n].id = i
        /\ \A m, n \in DOMAIN workers : workers[m].id = workers[n].id => m = n

\* The workers of the backup that are no longer to be added: the first `Past' ones.
Past == Len(given) - Len(backup)
InPlace(e) == e.id \in StoredIds /\ nvsBlobs[e.id] = e.peer
Added ==
    doing = "add" =>
        /\ Len(backup) <= Len(given)
        /\ \A k \in DOMAIN backup : backup[k] = given[Past + k]
        /\ \A k \in 1..Past : \/ given[k].id = 0
                              \/ InPlace(given[k])
                              \/ given[k] \in leftOut
                              \/ \E m \in (k + 1)..Past : given[m].id = given[k].id

Promised ==
    /\ doing = "add" => promised = {}
    /\ promised \subseteq WorkerRec
    /\ \A e \in promised : InPlace(e)

Crowded ==
    /\ leftOut # {} => Len(workers) = MaxRegistry
    /\ \A e \in leftOut : e.id \notin StoredIds /\ e.id # 0 /\ e \in Registry(given)

RestoreInv == RestoreTyped /\ (sound => Beyond /\ Agrees /\ Added /\ Promised /\ Crowded)

LEMMA RestoreConstants ==
    /\ NoOwner \notin Owners /\ MaxRegistry \in Nat \ {0} /\ MaxWorkerId \in Nat
    /\ \A b \in Backups : b \in Seq(Entry)
    /\ WorkerIds = 1..MaxWorkerId
BY RestoreAssumption DEF Entry, WorkerIds

LEMMA StoredFinite ==
    ASSUME RestoreTyped
    PROVE  IsFiniteSet(StoredIds) /\ Cardinality(StoredIds) \in Nat
<1>1. IsFiniteSet(WorkerIds)
  BY RestoreConstants, FS_Interval
<1>2. StoredIds \in SUBSET WorkerIds
  BY DEF StoredIds
<1>3. IsFiniteSet(StoredIds)
  BY <1>1, <1>2, FS_Subset
<1> QED BY <1>3, FS_CardinalityType

\* Ids that a list names are no more than it is long.
LEMMA Counted ==
    ASSUME NEW S, IsFiniteSet(S), NEW seq, Len(seq) \in Nat,
           \A i \in S : \E n \in 1..Len(seq) : seq[n].id = i
    PROVE  Cardinality(S) <= Len(seq)
<1> DEFINE N == 1..Len(seq)
           f == [i \in S |-> CHOOSE n \in N : seq[n].id = i]
<1>1. \A i \in S : f[i] \in N /\ seq[f[i]].id = i
  OBVIOUS
<1>2. f \in [S -> N] /\ \A i, j \in S : f[i] = f[j] => i = j
  BY <1>1
<1> HIDE DEF f
<1>3. f \in Injection(S, N)
  BY <1>2, Fun_IsInj
<1>4. IsFiniteSet(N) /\ Cardinality(N) = Len(seq)
  BY FS_Interval
<1> QED BY <1>3, <1>4, FS_Injection

\* All that is stored is loaded, if it fits.
LEMMA AllLoadable ==
    ASSUME RestoreTyped, Cardinality(StoredIds) <= MaxRegistry
    PROVE  Loadable = {[id |-> i, peer |-> nvsBlobs[i]] : i \in StoredIds}
<1> SUFFICES ASSUME NEW i \in StoredIds PROVE InNvsUpTo(i) <= MaxRegistry
  BY DEF Loadable, StoredIds
<1> DEFINE S == {j \in 1..i : InNvs(j)}
<1>1. i \in Nat /\ i <= MaxWorkerId /\ MaxWorkerId \in Nat
  BY RestoreConstants DEF StoredIds
<1>2. S \in SUBSET StoredIds
  BY <1>1, RestoreConstants DEF StoredIds
<1>3. IsFiniteSet(S) /\ Cardinality(S) <= Cardinality(StoredIds)
  BY <1>2, StoredFinite, FS_Subset
<1>4. Cardinality(S) \in Nat
  BY <1>3, FS_CardinalityType
<1> QED BY <1>3, <1>4, StoredFinite, RestoreConstants DEF InNvsUpTo

LEMMA RestoreInvInit == RestoreInit => RestoreInv
<1> SUFFICES ASSUME RestoreInit PROVE RestoreInv
  OBVIOUS
<1>1. RestoreTyped
  <2>1. workers \in Seq(WorkerRec) /\ backup \in Seq(Entry) /\ given \in Seq(Entry)
    BY DEF RestoreInit
  <2> QED BY <2>1 DEF RestoreInit, RestoreTyped
<1>2. StoredIds = {}
  BY DEF RestoreInit, StoredIds, InNvs
<1>3. Cardinality(StoredIds) = 0
  BY <1>2, FS_EmptySet
<1>4. Beyond
  BY <1>3, RestoreConstants DEF RestoreInit, Beyond
<1>5. Len(workers) = 0 /\ DOMAIN workers = {}
  BY DEF RestoreInit
<1>6. Agrees
  BY <1>2, <1>5, RestoreConstants DEF RestoreInit, Agrees
<1> QED BY <1>1, <1>4, <1>6 DEF RestoreInv, RestoreInit, Added, Promised, Crowded

\* The sequences.
LEMMA WorkersSeq ==
    ASSUME RestoreTyped
    PROVE  /\ Len(workers) \in Nat /\ DOMAIN workers = 1..Len(workers)
           /\ \A n \in 1..Len(workers) : /\ workers[n].id \in WorkerIds /\ workers[n].id \in Nat
                                         /\ workers[n].peer \in Owners
                                         /\ workers[n] = [id |-> workers[n].id, peer |-> workers[n].peer]
<1>1. Len(workers) \in Nat /\ DOMAIN workers = 1..Len(workers)
  BY LenProperties DEF RestoreTyped
<1>2. \A n \in 1..Len(workers) : workers[n] \in WorkerRec
  BY ElementOfSeq DEF RestoreTyped
<1> QED BY <1>1, <1>2, RestoreConstants DEF WorkerRec

LEMMA BackupSeq ==
    ASSUME RestoreTyped
    PROVE  /\ Len(backup) \in Nat /\ DOMAIN backup = 1..Len(backup)
           /\ Len(given) \in Nat /\ DOMAIN given = 1..Len(given)
           /\ \A k \in 1..Len(given) : given[k].id \in Nat
<1>1. Len(backup) \in Nat /\ DOMAIN backup = 1..Len(backup)
  BY LenProperties DEF RestoreTyped
<1>2. Len(given) \in Nat /\ DOMAIN given = 1..Len(given)
  BY LenProperties DEF RestoreTyped
<1>3. \A k \in 1..Len(given) : given[k] \in Entry
  BY ElementOfSeq DEF RestoreTyped
<1> QED BY <1>1, <1>2, <1>3, RestoreConstants DEF Entry

\* Steps that leave NVS alone.
LEMMA SameNvs ==
    ASSUME UNCHANGED <<nvsBlobs, nvsNextId>>
    PROVE  /\ StoredIds' = StoredIds
           /\ Beyond' <=> Beyond
           /\ \A e : InPlace(e)' <=> InPlace(e)
<1>1. StoredIds' = StoredIds
  BY DEF StoredIds, InNvs
<1> QED BY <1>1 DEF Beyond, InPlace

(***************************************************************************)
(* Steps that leave the registry alone.                                    *)
(***************************************************************************)
LEMMA QuietStep ==
    ASSUME RestoreInv, UNCHANGED <<workers, nextId, nvsBlobs, nvsNextId>>,
           doing # "booting", doing' # "booting"
    PROVE  sound => Beyond' /\ Agrees'
BY SameNvs DEF RestoreInv, Agrees

LEMMA RestoreBeginStep ==
    ASSUME RestoreInv, NEW b \in Backups, RestoreBegin(b)
    PROVE  RestoreInv'
<1>1. RestoreTyped'
  BY RestoreConstants DEF RestoreBegin, RestoreInv, RestoreTyped
<1>2. sound => Beyond' /\ Agrees'
  BY QuietStep DEF RestoreBegin
<1>3. sound => Added' /\ Promised' /\ Crowded'
  BY SameNvs DEF RestoreBegin, Added, Promised, Crowded, RestoreInv
<1> QED BY <1>1, <1>2, <1>3 DEF RestoreInv, RestoreBegin

\* The restore comes past a worker: that is in its place, or has no id, or is left out.
LEMMA AddedStep ==
    ASSUME RestoreTyped, Added, doing = "add", backup # <<>>, backup' = Tail(backup), UNCHANGED given,
           NEW e, e = Head(backup), e.id = 0 \/ InPlace(e)' \/ e \in leftOut',
           \A x : InPlace(x) => InPlace(x)' \/ x.id = e.id, leftOut \subseteq leftOut'
    PROVE  Added'
<1>1. /\ Len(backup) \in Nat \ {0} /\ Len(given) \in Nat /\ Len(backup') = Len(backup) - 1
      /\ DOMAIN backup' = 1..Len(backup') /\ DOMAIN backup = 1..Len(backup)
      /\ \A k \in 1..Len(backup') : backup'[k] = backup[k + 1]
      /\ e = backup[1]
  <2>1. Len(backup) \in Nat /\ DOMAIN backup = 1..Len(backup) /\ Len(given) \in Nat
    BY BackupSeq
  <2>2. Len(backup) # 0 /\ e = backup[1]
    BY EmptySeq DEF RestoreTyped
  <2>3. /\ backup' \in Seq(Entry) /\ Len(backup') = Len(backup) - 1
        /\ \A k \in 1..Len(backup') : backup'[k] = backup[k + 1]
    BY HeadTailProperties DEF RestoreTyped
  <2> QED BY <2>1, <2>2, <2>3, LenProperties
<1>2. Past' = Past + 1 /\ Past \in Nat /\ Len(backup) <= Len(given)
  BY <1>1 DEF Past, Added
<1>3. given[Past + 1] = e
  BY <1>1, BackupSeq DEF Added
<1>4. \A k \in 1..Len(backup') : backup'[k] = given[Past + 1 + k]
  <2> SUFFICES ASSUME NEW k \in 1..Len(backup') PROVE backup[k + 1] = given[Past + 1 + k]
    BY <1>1
  <2>1. k + 1 \in DOMAIN backup /\ Past + (k + 1) = Past + 1 + k
    BY <1>1, <1>2
  <2> QED BY <2>1 DEF Added
<1>5. ASSUME NEW k \in 1..Past'
      PROVE  \/ given[k].id = 0 \/ InPlace(given[k])' \/ given[k] \in leftOut'
             \/ \E m \in (k + 1)..Past' : given[m].id = given[k].id
  <2>1. CASE k = Past + 1
    <3>1. given[k] = e /\ given' = given
      BY <1>3, <2>1
    <3> QED BY <3>1 DEF InPlace
  <2>2. CASE k # Past + 1
    <3>1. /\ k \in 1..Past /\ (k + 1)..Past \subseteq (k + 1)..Past'
          /\ Past + 1 \in (k + 1)..Past'
      BY <1>2, <2>2
    <3> QED BY <1>3, <3>1 DEF Added
  <2> QED BY <2>1, <2>2
<1>6. Len(backup') <= Len(given)
  BY <1>1, <1>2
<1> QED BY <1>1, <1>2, <1>4, <1>5, <1>6 DEF Added

LEMMA WorkerNotRestoredStep ==
    ASSUME RestoreInv, WorkerNotRestored
    PROVE  RestoreInv'
<1>0. PICK e : e = Head(backup)
  OBVIOUS
<1>1. /\ doing = "add" /\ backup # <<>> /\ backup' = Tail(backup) /\ RestoreTyped
      /\ UNCHANGED <<workers, nextId, nvsBlobs, nvsNextId, doing, given, promised, sound>>
      /\ \/ e.id = 0 /\ leftOut' = leftOut
         \/ /\ e.id # 0 /\ SlotOfId(e.id) = {} /\ Len(workers) >= MaxRegistry
            /\ leftOut' = leftOut \cup {e}
  BY <1>0 DEF WorkerNotRestored, Adding, RestoreInv
<1>2. backup' \in Seq(Entry)
  BY <1>1, HeadTailProperties DEF RestoreTyped
<1>3. RestoreTyped'
  BY <1>1, <1>2 DEF RestoreTyped
<1>4. ASSUME sound PROVE Beyond' /\ Agrees' /\ Added' /\ Promised' /\ Crowded'
  <2>1. Beyond' /\ Agrees'
    BY <1>1, <1>4, QuietStep
  <2>2. Promised'
    BY <1>1, <1>4, SameNvs DEF RestoreInv, Promised
  <2>3. Added'
    BY <1>0, <1>1, <1>4, SameNvs, AddedStep DEF RestoreInv
  <2>4. Crowded'
    <3>1. Crowded /\ Agrees
      BY <1>4 DEF RestoreInv
    <3>2. e \in Registry(given)
      <4>1. 1 \in DOMAIN backup /\ e = backup[1] /\ Len(backup) \in Nat /\ Len(given) \in Nat
            /\ DOMAIN given = 1..Len(given) /\ DOMAIN backup = 1..Len(backup)
        BY <1>0, <1>1, BackupSeq, EmptySeq DEF RestoreTyped
      <4>2. e = given[Past + 1] /\ Len(backup) <= Len(given)
        BY <1>1, <1>4, <4>1 DEF RestoreInv, Added
      <4>3. Past + 1 \in DOMAIN given
        BY <4>1, <4>2 DEF Past
      <4> QED BY <4>2, <4>3 DEF Registry
    <3>3. ASSUME SlotOfId(e.id) = {}, e.id \in StoredIds PROVE FALSE
      <4>1. PICK n \in DOMAIN workers : workers[n].id = e.id
        BY <1>1, <3>1, <3>3 DEF Agrees
      <4>2. n \in SlotOfId(e.id)
        BY <4>1, Zenon DEF SlotOfId
      <4> QED BY <3>3, <4>2
    <3>4. Len(workers) >= MaxRegistry => Len(workers) = MaxRegistry
      <4>1. Len(workers) \in Nat /\ MaxRegistry \in Nat
        BY <1>1, WorkersSeq, RestoreConstants, Zenon
      <4>2. Len(workers) <= MaxRegistry
        BY <1>1, <3>1, Zenon DEF Agrees
      <4> QED BY <4>1, <4>2
    <3>5. StoredIds' = StoredIds /\ Registry(given)' = Registry(given)
      BY <1>1, SameNvs DEF Registry
    <3> QED BY <1>1, <3>1, <3>2, <3>3, <3>4, <3>5 DEF Crowded
  <2> QED BY <2>1, <2>2, <2>3, <2>4
<1> QED BY <1>1, <1>3, <1>4 DEF RestoreInv

LEMMA RestoreAnswerStep ==
    ASSUME RestoreInv, RestoreAnswer
    PROVE  RestoreInv'
<1>1. /\ doing = "add" /\ backup = <<>> /\ doing' = "none" /\ given' = <<>>
      /\ promised' = Listed(given) \ leftOut /\ leftOut' = {} /\ RestoreTyped
      /\ UNCHANGED <<workers, nextId, nvsBlobs, nvsNextId, backup, sound>>
  BY DEF RestoreAnswer, RestoreInv
<1>2. RestoreTyped'
  <2>1. given' \in Seq(Entry)
    BY <1>1, EmptySeq
  <2> QED BY <1>1, <2>1 DEF RestoreTyped
<1>3. ASSUME sound PROVE Beyond' /\ Agrees' /\ Added' /\ Promised' /\ Crowded'
  <2>1. Beyond' /\ Agrees'
    BY <1>1, <1>3, QuietStep
  <2>2. Past = Len(given) /\ Len(given) \in Nat /\ DOMAIN given = 1..Len(given)
    BY <1>1, BackupSeq, EmptySeq DEF Past
  <2>3. ASSUME NEW k \in DOMAIN given, given[k].id # 0, given[k] \notin leftOut,
               \A m \in DOMAIN given : m > k => given[m].id # given[k].id
        PROVE  InPlace(given[k]) /\ given[k] \in WorkerRec
    <3>1. ~ \E m \in (k + 1)..Past : given[m].id = given[k].id
      <4> SUFFICES ASSUME NEW m \in (k + 1)..Past, given[m].id = given[k].id PROVE FALSE
        OBVIOUS
      <4>1. m \in DOMAIN given /\ m > k
        BY <2>2
      <4> QED BY <2>3, <4>1
    <3>2. InPlace(given[k])
      BY <1>1, <1>3, <2>2, <2>3, <3>1 DEF RestoreInv, Added
    <3>3. given[k] \in Entry /\ given[k].id \in WorkerIds
      BY <1>1, <2>2, <3>2, ElementOfSeq DEF RestoreTyped, InPlace, StoredIds
    <3> QED BY <3>2, <3>3 DEF Entry, WorkerRec
  <2>4. \A e \in promised' : InPlace(e) /\ e \in WorkerRec
    BY <1>1, <2>3 DEF Listed
  <2> QED BY <1>1, <2>1, <2>4, SameNvs DEF Added, Promised, Crowded
<1> QED BY <1>1, <1>2, <1>3 DEF RestoreInv

LEMMA PowerLossStep ==
    ASSUME RestoreInv, PowerLoss
    PROVE  RestoreInv'
<1>1. /\ doing' = "booting" /\ workers' = <<>> /\ nextId' = 1 /\ backup' = <<>> /\ given' = <<>>
      /\ leftOut' = {}
      /\ UNCHANGED <<nvsBlobs, nvsNextId, promised, sound>> /\ RestoreTyped
  BY DEF PowerLoss, Boots, RestoreInv
<1>2. RestoreTyped'
  <2>1. workers' \in Seq(WorkerRec) /\ backup' \in Seq(Entry) /\ given' \in Seq(Entry)
    BY <1>1, EmptySeq
  <2> QED BY <1>1, <2>1 DEF RestoreTyped
<1> QED BY <1>1, <1>2, SameNvs DEF RestoreInv, Agrees, Added, Promised, Crowded

LEMMA SettingsErasedStep ==
    ASSUME RestoreInv, SettingsErased
    PROVE  RestoreInv'
<1>1. UNCHANGED <<workers, nextId, nvsBlobs, nvsNextId, doing, backup, given, leftOut, promised,
                   sound>>
      /\ doing = "none"
  BY DEF SettingsErased
<1> QED BY <1>1, SameNvs, QuietStep DEF RestoreInv, RestoreTyped, Added, Promised, Crowded

(***************************************************************************)
(* Steps of the registry.                                                  *)
(***************************************************************************)
\* What is left to show of a step that keeps NVS sound.
LEMMA AgreeingFits ==
    ASSUME RestoreTyped', Agrees', doing' # "booting"
    PROVE  Cardinality(StoredIds)' <= MaxRegistry
<1>1. IsFiniteSet(StoredIds') /\ Cardinality(StoredIds') \in Nat
  <2>1. IsFiniteSet(WorkerIds) /\ StoredIds' \in SUBSET WorkerIds
    BY RestoreConstants, FS_Interval DEF StoredIds
  <2>2. IsFiniteSet(StoredIds')
    BY <2>1, FS_Subset
  <2> QED BY <2>2, FS_CardinalityType
<1>2. workers' \in Seq(WorkerRec)
  BY DEF RestoreTyped
<1>3. Len(workers') \in Nat /\ DOMAIN workers' = 1..Len(workers')
  BY <1>2, LenProperties
<1>4. Len(workers') <= MaxRegistry /\ \A i \in StoredIds' : \E n \in 1..Len(workers') : workers'[n].id = i
  BY <1>3 DEF Agrees
<1>5. Cardinality(StoredIds') <= Len(workers')
  BY <1>1, <1>3, <1>4, Counted
<1> QED BY <1>1, <1>3, <1>4, <1>5, RestoreConstants

LEMMA CreateWorkerStep ==
    ASSUME RestoreInv, NEW p \in Owners, CreateWorker(p)
    PROVE  RestoreInv'
<1> DEFINE w == [id |-> nextId, peer |-> p]
<1>1. /\ doing # "booting" /\ Len(workers) < MaxRegistry /\ nextId <= MaxWorkerId
      /\ nvsBlobs' = [nvsBlobs EXCEPT ![nextId] = p]
      /\ workers' = Append(workers, w) /\ nextId' = nextId + 1
      /\ (nvsNextId' = nextId + 1 /\ UNCHANGED sound) \/ (sound' = FALSE /\ UNCHANGED nvsNextId)
      /\ UNCHANGED <<doing, backup, given, leftOut, promised>> /\ RestoreTyped
  BY DEF CreateWorker, Creates, handler, RestoreInv
<1>2. nextId \in WorkerIds /\ nextId \in Nat /\ w \in WorkerRec /\ p # NoOwner
  BY <1>1, RestoreConstants DEF RestoreTyped, WorkerRec
<1>3. /\ workers' \in Seq(WorkerRec) /\ Len(workers') = Len(workers) + 1
      /\ DOMAIN workers' = 1..Len(workers')
      /\ workers'[Len(workers) + 1] = w /\ \A n \in 1..Len(workers) : workers'[n] = workers[n]
  BY <1>1, <1>2, AppendProperties, LenProperties DEF RestoreTyped
<1>4. RestoreTyped'
  <2>1. sound' \in BOOLEAN
    BY <1>1, Zenon DEF RestoreTyped
  <2>2. nextId' \in Nat \ {0} /\ nvsNextId' \in Nat \ {0}
    BY <1>1, <1>2 DEF RestoreTyped
  <2>3. nvsBlobs' \in [WorkerIds -> Owners \cup {NoOwner}]
    BY <1>1 DEF RestoreTyped
  <2> QED BY <1>1, <1>3, <2>1, <2>2, <2>3 DEF RestoreTyped
<1>5. CASE ~sound'
  BY <1>4, <1>5 DEF RestoreInv
<1>6. CASE sound /\ sound' /\ nvsNextId' = nextId + 1
  <2>1. Beyond /\ Agrees /\ Added /\ Promised /\ nextId = nvsNextId
    BY <1>1, <1>6 DEF RestoreInv, Agrees
  <2>2. \A i \in WorkerIds : i \in Nat
    BY RestoreConstants
  <2>3. \A i \in WorkerIds : nvsBlobs'[i] = IF i = nextId THEN p ELSE nvsBlobs[i]
    BY <1>1 DEF RestoreTyped
  <2>4. StoredIds' = StoredIds \cup {nextId} /\ nextId \notin StoredIds
    <3>1. ASSUME NEW i \in WorkerIds PROVE (i < nvsNextId' <=> i < nvsNextId \/ i = nextId)
      <4>1. i \in Nat /\ nextId \in Nat /\ nvsNextId' = nextId + 1 /\ nvsNextId = nextId
        BY <1>2, <1>6, <2>1, <2>2
      <4> QED BY <4>1
    <3>2. ~(nextId < nvsNextId)
      BY <1>2, <2>1
    <3>3. p # NoOwner /\ nextId \in WorkerIds
      BY <1>2
    <3> QED BY <2>3, <3>1, <3>2, <3>3 DEF StoredIds, InNvs
  <2>5. \A e : InPlace(e) => InPlace(e)'
    BY <2>3, <2>4 DEF InPlace, StoredIds
  <2>6. Agrees'
    <3>1. Len(workers) \in Nat /\ DOMAIN workers = 1..Len(workers)
      BY <1>1, WorkersSeq
    <3>2. \A n \in 1..Len(workers) :
            /\ workers[n].id \in StoredIds /\ workers[n].peer = nvsBlobs[workers[n].id]
            /\ workers[n].id # nextId /\ workers[n].id \in WorkerIds
      BY <1>1, <2>1, <2>4, <3>1 DEF Agrees, StoredIds
    <3>3. \A n \in DOMAIN workers' : n \in 1..Len(workers) \/ n = Len(workers) + 1
      BY <1>3, <3>1
    <3>4. ASSUME NEW n \in DOMAIN workers'
          PROVE  workers'[n].id \in StoredIds' /\ workers'[n].peer = nvsBlobs'[workers'[n].id]
      <4>1. CASE n \in 1..Len(workers)
        BY <1>3, <2>3, <2>4, <3>2, <4>1
      <4>2. CASE n = Len(workers) + 1
        <5>1. workers'[n].id = nextId /\ workers'[n].peer = p
          BY <1>3, <4>2
        <5> QED BY <1>2, <2>3, <2>4, <5>1
      <4> QED BY <3>3, <4>1, <4>2
    <3>5. \A i \in StoredIds' : \E n \in DOMAIN workers' : workers'[n].id = i
      <4>1. 1..Len(workers) \subseteq DOMAIN workers' /\ Len(workers) + 1 \in DOMAIN workers'
        BY <1>3, <3>1
      <4> QED BY <1>1, <1>3, <2>1, <2>4, <3>1, <4>1 DEF Agrees
    <3>6. \A m, n \in DOMAIN workers' : workers'[m].id = workers'[n].id => m = n
      BY <1>1, <1>3, <2>1, <3>1, <3>2, <3>3 DEF Agrees
    <3>7. nextId' = nvsNextId' /\ Len(workers') <= MaxRegistry
      BY <1>1, <1>3, <1>6, <3>1, RestoreConstants
    <3> QED BY <1>1, <3>4, <3>5, <3>6, <3>7 DEF Agrees
  <2>7. Beyond'
    <3>1. \A i \in WorkerIds : i >= nextId + 1 => nvsBlobs'[i] = NoOwner
      <4> SUFFICES ASSUME NEW i \in WorkerIds, i >= nextId + 1 PROVE nvsBlobs'[i] = NoOwner
        OBVIOUS
      <4>1. i # nextId /\ i >= nextId
        BY <1>2, <2>2
      <4> QED BY <2>1, <2>3, <4>1 DEF Beyond
    <3> QED BY <1>1, <1>4, <1>6, <2>6, <3>1, AgreeingFits DEF Beyond
  <2>8. Added' /\ Promised'
    <3>1. Past' = Past
      BY <1>1 DEF Past
    <3>2. \A k : given'[k] = given[k]
      BY <1>1
    <3>3. \A k : InPlace(given[k]) => InPlace(given[k])'
      BY <2>5, <3>2 DEF InPlace
    <3> QED BY <1>1, <2>1, <2>5, <3>1, <3>3 DEF Added, Promised
  <2>9. Crowded'
    <3>1. Len(workers) \in Nat
      BY <1>1, WorkersSeq
    <3>2. leftOut = {}
      BY <1>1, <1>6, <3>1, RestoreConstants DEF RestoreInv, Crowded
    <3> QED BY <1>1, <3>2 DEF Crowded
  <2> QED BY <1>4, <2>6, <2>7, <2>8, <2>9 DEF RestoreInv
<1> QED BY <1>1, <1>5, <1>6

LEMMA CreateCutStep ==
    ASSUME RestoreInv, NEW p \in Owners, CreateCut(p)
    PROVE  RestoreInv'
<1>1. /\ nextId <= MaxWorkerId /\ nvsBlobs' = [nvsBlobs EXCEPT ![nextId] = p]
      /\ doing' = "booting" /\ workers' = <<>> /\ nextId' = 1 /\ backup' = <<>> /\ given' = <<>>
      /\ leftOut' = {} /\ sound' = FALSE /\ UNCHANGED nvsNextId /\ RestoreTyped
  BY DEF CreateCut, Creates, Boots, RestoreInv
<1>2. workers' \in Seq(WorkerRec) /\ backup' \in Seq(Entry) /\ given' \in Seq(Entry)
  BY <1>1, EmptySeq
<1>3. nvsBlobs' \in [WorkerIds -> Owners \cup {NoOwner}]
  BY <1>1 DEF RestoreTyped
<1>4. nextId' \in Nat \ {0} /\ nvsNextId' \in Nat \ {0}
  BY <1>1 DEF RestoreTyped
<1>5. sound' \in BOOLEAN
  BY <1>1
<1> QED BY <1>1, <1>2, <1>3, <1>4, <1>5 DEF RestoreInv, RestoreTyped

\* A worker leaves: the last one of the table takes its slot.
LEMMA DeletesWorkerStep ==
    ASSUME RestoreInv, NEW n \in 1..MaxRegistry, DeletesWorker(n)
    PROVE  RestoreInv'
<1> DEFINE L == Len(workers)
           gone == workers[n].id
<1>1. /\ doing = "none" /\ n \in DOMAIN workers /\ RestoreTyped
      /\ workers' = [k \in 1..(L - 1) |-> IF k = n THEN workers[L] ELSE workers[k]]
      /\ (nvsBlobs' = [nvsBlobs EXCEPT ![gone] = NoOwner] /\ UNCHANGED sound)
            \/ (sound' = FALSE /\ UNCHANGED nvsBlobs)
      /\ promised' = promised \ {workers[n]}
      /\ UNCHANGED <<nextId, nvsNextId, doing, backup, given, leftOut>>
  BY DEF DeletesWorker, handler, RestoreInv
<1>2. /\ L \in Nat /\ DOMAIN workers = 1..L /\ n \in 1..L
      /\ \A k \in 1..L : workers[k] \in WorkerRec /\ workers[k].id \in WorkerIds
                         /\ workers[k] = [id |-> workers[k].id, peer |-> workers[k].peer]
  BY <1>1, WorkersSeq, ElementOfSeq DEF RestoreTyped
<1>a. L \in Nat /\ n \in 1..L
  BY <1>2
<1>3. /\ DOMAIN workers' = 1..(L - 1) /\ L - 1 \in Nat
      /\ \A k \in 1..(L - 1) : workers'[k] = IF k = n THEN workers[L] ELSE workers[k]
  BY <1>1, <1>2
<1>4. workers' \in Seq(WorkerRec) /\ Len(workers') = L - 1
  <2>1. \A k \in 1..(L - 1) : workers'[k] \in WorkerRec
    BY <1>2, <1>3
  <2>2. workers' \in [1..(L - 1) -> WorkerRec]
    BY <1>1, <1>3, <2>1
  <2>3. workers' \in Seq(WorkerRec)
    BY <1>3, <2>2, IsASeq
  <2> QED BY <1>3, <2>3, LenProperties
<1>5. RestoreTyped'
  <2>1. sound' \in BOOLEAN
    BY <1>1, Zenon DEF RestoreTyped
  <2>2. nvsBlobs' \in [WorkerIds -> Owners \cup {NoOwner}]
    BY <1>1 DEF RestoreTyped
  <2> QED BY <1>1, <1>4, <2>1, <2>2 DEF RestoreTyped
<1>6. CASE ~sound'
  BY <1>5, <1>6 DEF RestoreInv
<1>7. CASE sound /\ sound' /\ nvsBlobs' = [nvsBlobs EXCEPT ![gone] = NoOwner]
  <2>1. Beyond /\ Agrees /\ Added /\ Promised
    BY <1>1, <1>7 DEF RestoreInv
  <2>2. \A i \in WorkerIds : nvsBlobs'[i] = IF i = gone THEN NoOwner ELSE nvsBlobs[i]
    BY <1>1, <1>7 DEF RestoreTyped
  <2>3. StoredIds' = StoredIds \ {gone}
    BY <1>1, <2>2 DEF StoredIds, InNvs
  <2>4. \A k \in 1..L : /\ workers[k].id \in StoredIds /\ workers[k].peer = nvsBlobs[workers[k].id]
                        /\ workers[k].id = gone => k = n
    BY <1>1, <1>2, <2>1 DEF Agrees
  <2>5. \A k \in 1..L : k # n => workers[k].id \in StoredIds' /\ workers[k].peer = nvsBlobs'[workers[k].id]
    BY <1>2, <2>2, <2>3, <2>4
  <2>6. Agrees'
    <3>1. \A k \in 1..(L - 1) : \E l \in 1..L : l # n /\ workers'[k] = workers[l]
                                               /\ l = (IF k = n THEN L ELSE k)
      <4> SUFFICES ASSUME NEW k \in 1..(L - 1)
                   PROVE  LET l == IF k = n THEN L ELSE k IN l \in 1..L /\ l # n /\ workers'[k] = workers[l]
        BY Zenon
      <4>1. L \in Nat /\ n \in Nat /\ n <= L /\ k \in Nat /\ 1 <= k /\ k < L
        BY <1>2
      <4>2. CASE k = n
        BY <1>3, <4>1, <4>2
      <4>3. CASE k # n
        BY <1>3, <4>1, <4>3
      <4> QED BY <4>2, <4>3
    <3>2. \A k \in DOMAIN workers' : workers'[k].id \in StoredIds' /\ workers'[k].peer = nvsBlobs'[workers'[k].id]
      BY <1>3, <2>5, <3>1
    <3>3. ASSUME NEW i \in StoredIds' PROVE \E k \in DOMAIN workers' : workers'[k].id = i
      <4>1. i \in StoredIds /\ i # gone
        BY <2>3
      <4>2. PICK l \in 1..L : workers[l].id = i
        BY <1>1, <1>2, <2>1, <4>1 DEF Agrees
      <4>3. l # n
        BY <4>1, <4>2
      <4>4. CASE l = L
        <5>1. n \in 1..(L - 1)
          <6>1. L \in Nat /\ n \in Nat /\ 1 <= n /\ n <= L /\ n # L
            BY <1>a, <4>3, <4>4
          <6> QED BY <6>1
        <5> QED BY <1>3, <4>2, <4>4, <5>1
      <4>5. CASE l # L
        <5>1. l \in 1..(L - 1)
          <6>1. L \in Nat /\ l \in Nat /\ 1 <= l /\ l <= L /\ l # L
            BY <1>a, <4>2, <4>5
          <6> QED BY <6>1
        <5> QED BY <1>3, <4>2, <4>3, <5>1
      <4> QED BY <4>4, <4>5
    <3>4. ASSUME NEW j \in 1..(L - 1), NEW k \in 1..(L - 1), workers'[j].id = workers'[k].id PROVE j = k
      <4>1. PICK a \in 1..L : a # n /\ workers'[j] = workers[a] /\ a = (IF j = n THEN L ELSE j)
        BY <3>1
      <4>2. PICK b \in 1..L : b # n /\ workers'[k] = workers[b] /\ b = (IF k = n THEN L ELSE k)
        BY <3>1
      <4>3. a = b
        BY <1>1, <1>2, <2>1, <3>4, <4>1, <4>2 DEF Agrees
      <4>4. j \in Int /\ k \in Int /\ j < L /\ k < L /\ L \in Int
        BY <1>2
      <4> QED BY <4>1, <4>2, <4>3, <4>4
    <3>5. Len(workers') <= MaxRegistry /\ nextId' = nvsNextId'
      BY <1>1, <1>2, <1>4, <2>1, RestoreConstants DEF Agrees
    <3> QED BY <1>1, <1>3, <3>2, <3>3, <3>4, <3>5 DEF Agrees
  <2>7. Beyond'
    BY <1>1, <1>5, <2>1, <2>2, <2>6, AgreeingFits DEF Beyond
  <2>8. Promised'
    <3>1. ASSUME NEW e \in promised' PROVE InPlace(e) /\ e.id # gone /\ e \in WorkerRec
      <4>1. e \in promised /\ e # workers[n] /\ InPlace(e) /\ e \in WorkerRec
        BY <1>1, <2>1 DEF Promised
      <4>2. e = [id |-> e.id, peer |-> e.peer]
        BY <4>1 DEF WorkerRec
      <4>3. ASSUME e.id = gone PROVE FALSE
        <5>1. e.peer = workers[n].peer
          BY <1>2, <2>4, <4>1, <4>3 DEF InPlace
        <5>2. workers[n] = [id |-> workers[n].id, peer |-> workers[n].peer]
          BY <1>2
        <5> QED BY <4>1, <4>2, <4>3, <5>1, <5>2
      <4> QED BY <4>1, <4>3
    <3>2. \A e \in promised' : e.id \in StoredIds' /\ nvsBlobs'[e.id] = e.peer /\ e \in WorkerRec
      BY <2>2, <2>3, <3>1 DEF InPlace, StoredIds
    <3> QED BY <1>1, <3>2 DEF Promised, InPlace
  <2>9. Crowded'
    BY <1>1 DEF RestoreTyped, Crowded
  <2> QED BY <1>1, <1>5, <2>6, <2>7, <2>8, <2>9 DEF RestoreInv, Added
<1> QED BY <1>1, <1>6, <1>7

\* A worker is stored again as it is.
LEMMA UpdateWorkerStep ==
    ASSUME RestoreInv, NEW n \in 1..MaxRegistry, UpdateWorker(n)
    PROVE  RestoreInv'
<1>1. /\ doing = "none" /\ n \in DOMAIN workers /\ RestoreTyped
      /\ nvsBlobs' = [nvsBlobs EXCEPT ![workers[n].id] = workers[n].peer]
      /\ UNCHANGED <<workers, nextId, nvsNextId, doing, backup, given, leftOut, promised, sound>>
  BY DEF UpdateWorker, handler, RestoreInv
<1>2. workers[n].id \in WorkerIds /\ workers[n].peer \in Owners
  BY <1>1, WorkersSeq
<1>3. RestoreTyped'
  <2>1. nvsBlobs' \in [WorkerIds -> Owners \cup {NoOwner}]
    BY <1>1, <1>2 DEF RestoreTyped
  <2> QED BY <1>1, <2>1 DEF RestoreTyped
<1>4. ASSUME sound PROVE Beyond' /\ Agrees' /\ Added' /\ Promised' /\ Crowded'
  <2>1. workers[n].peer = nvsBlobs[workers[n].id]
    BY <1>1, <1>4 DEF RestoreInv, Agrees
  <2>2. nvsBlobs' = nvsBlobs
    BY <1>1, <1>2, <2>1 DEF RestoreTyped
  <2> QED BY <1>1, <1>4, <2>2, SameNvs, QuietStep DEF RestoreInv, Added, Promised, Crowded
<1> QED BY <1>1, <1>3, <1>4 DEF RestoreInv

(***************************************************************************)
(* Steps of the restore, and the boot.                                     *)
(***************************************************************************)
LEMMA WorkersWipeStep ==
    ASSUME RestoreInv, WorkersWipe
    PROVE  RestoreInv'
<1>1. /\ doing = "wipe" /\ doing' = "add" /\ UNCHANGED <<backup, given, leftOut>> /\ RestoreTyped
      /\ backup = given
  BY DEF WorkersWipe, RestoreInv, RestoreTyped
<1>2. CASE sound' = FALSE /\ UNCHANGED <<workers, nextId, nvsBlobs, nvsNextId>>
  <2>1. sound' \in BOOLEAN
    BY <1>2
  <2> QED BY <1>1, <1>2, <2>1 DEF RestoreInv, RestoreTyped
<1>3. CASE /\ workers' = <<>> /\ nextId' = 1 /\ nvsBlobs' = Erased(nextId - 1) /\ nvsNextId' = 1
           /\ promised' = {}
           /\ sound' = (\A i \in WorkerIds : i >= nextId => nvsBlobs[i] = NoOwner)
  <2>1. RestoreTyped'
    <3>1. workers' \in Seq(WorkerRec)
      BY <1>3, EmptySeq
    <3>2. nvsBlobs' \in [WorkerIds -> Owners \cup {NoOwner}]
      BY <1>1, <1>3 DEF RestoreTyped, Erased
    <3>3. sound' \in BOOLEAN
      BY <1>3, Zenon
    <3>4. nextId' \in Nat \ {0} /\ nvsNextId' \in Nat \ {0}
      BY <1>3
    <3> QED BY <1>1, <3>1, <3>2, <3>3, <3>4 DEF RestoreTyped
  <2>2. Len(workers') = 0 /\ DOMAIN workers' = {}
    BY <1>3
  <2>3. StoredIds' = {}
    BY <1>3, RestoreConstants DEF StoredIds, InNvs
  <2>4. ASSUME sound' PROVE Beyond' /\ Agrees' /\ Added' /\ Promised' /\ Crowded'
    <3>1. Agrees'
      BY <1>1, <1>3, <2>2, <2>3, RestoreConstants DEF Agrees
    <3>2. \A i \in WorkerIds : nvsBlobs'[i] = NoOwner
      <4> SUFFICES ASSUME NEW i \in WorkerIds PROVE nvsBlobs'[i] = NoOwner
        OBVIOUS
      <4>1. i \in Nat /\ nextId \in Nat /\ (i <= nextId - 1 \/ i >= nextId)
        BY <1>1, RestoreConstants DEF RestoreTyped
      <4> QED BY <1>3, <2>4, <4>1 DEF Erased
    <3>3. Beyond'
      BY <1>1, <2>1, <3>1, <3>2, AgreeingFits DEF Beyond
    <3>4. Len(backup') \in Nat /\ Len(backup') = Len(given') /\ Past' = 0
      BY <1>1, BackupSeq DEF Past
    <3>5. \A k \in DOMAIN backup' : backup'[k] = given'[0 + k]
      BY <1>1, BackupSeq
    <3>6. Added'
      BY <3>4, <3>5 DEF Added
    <3>7. Crowded'
      BY <1>1 DEF RestoreTyped, Crowded
    <3> QED BY <1>3, <3>1, <3>3, <3>6, <3>7 DEF Promised
  <2> QED BY <2>1, <2>4 DEF RestoreInv
<1> QED BY <1>2, <1>3 DEF WorkersWipe

LEMMA WipeCutStep ==
    ASSUME RestoreInv, NEW upTo \in 0..MaxWorkerId, WipeCut(upTo)
    PROVE  RestoreInv'
<1>1. /\ nvsBlobs' = Erased(upTo) /\ promised' = {}
      /\ doing' = "booting" /\ workers' = <<>> /\ nextId' = 1 /\ backup' = <<>> /\ given' = <<>>
      /\ leftOut' = {} /\ UNCHANGED <<nvsNextId, sound>> /\ RestoreTyped
  BY DEF WipeCut, Boots, RestoreInv
<1>2. workers' \in Seq(WorkerRec) /\ backup' \in Seq(Entry) /\ given' \in Seq(Entry)
  BY <1>1, EmptySeq
<1>3. \A i \in WorkerIds : nvsBlobs'[i] = NoOwner \/ nvsBlobs'[i] = nvsBlobs[i]
  BY <1>1 DEF Erased
<1>4. RestoreTyped'
  <2>1. nvsBlobs' \in [WorkerIds -> Owners \cup {NoOwner}]
    BY <1>1 DEF RestoreTyped, Erased
  <2> QED BY <1>1, <1>2, <2>1 DEF RestoreTyped
<1>5. StoredIds' \in SUBSET StoredIds
  BY <1>1, <1>3 DEF StoredIds, InNvs
<1>6. IsFiniteSet(StoredIds') /\ Cardinality(StoredIds') <= Cardinality(StoredIds)
  BY <1>1, <1>5, StoredFinite, FS_Subset
<1>7. Cardinality(StoredIds') \in Nat
  BY <1>6, FS_CardinalityType
<1>8. sound => Beyond'
  BY <1>1, <1>3, <1>6, <1>7, StoredFinite, RestoreConstants DEF RestoreInv, Beyond
<1> QED BY <1>1, <1>4, <1>8 DEF RestoreInv, Agrees, Added, Promised, Crowded

\* A worker of the backup goes to the slot of its id, or to the next.
LEMMA PlacedSeq ==
    ASSUME RestoreTyped, NEW e \in WorkerRec
    PROVE  /\ Placed(e) \in Seq(WorkerRec)
           /\ SlotOfId(e.id) # {} =>
                /\ Len(Placed(e)) = Len(workers)
                /\ \A n \in 1..Len(workers) :
                        Placed(e)[n] = IF workers[n].id = e.id THEN e ELSE workers[n]
           /\ SlotOfId(e.id) = {} =>
                /\ Len(Placed(e)) = Len(workers) + 1
                /\ \A n \in 1..Len(workers) : Placed(e)[n] = workers[n] /\ workers[n].id # e.id
                /\ Placed(e)[Len(workers) + 1] = e
<1>1. Len(workers) \in Nat /\ DOMAIN workers = 1..Len(workers) /\ workers \in Seq(WorkerRec)
  BY WorkersSeq DEF RestoreTyped
<1>2. CASE SlotOfId(e.id) # {}
  <2> DEFINE seq == [n \in 1..Len(workers) |-> IF workers[n].id = e.id THEN e ELSE workers[n]]
  <2>1. Placed(e) = seq
    BY <1>1, <1>2 DEF Placed
  <2>2. seq \in [1..Len(workers) -> WorkerRec]
    BY <1>1, ElementOfSeq
  <2>3. seq \in Seq(WorkerRec) /\ Len(seq) = Len(workers)
    BY <1>1, <2>2, IsASeq, LenProperties
  <2> QED BY <1>2, <2>1, <2>3
<1>3. CASE SlotOfId(e.id) = {}
  <2>1. Placed(e) = Append(workers, e)
    BY <1>3 DEF Placed
  <2>2. /\ Append(workers, e) \in Seq(WorkerRec) /\ Len(Append(workers, e)) = Len(workers) + 1
        /\ \A n \in 1..Len(workers) : Append(workers, e)[n] = workers[n]
        /\ Append(workers, e)[Len(workers) + 1] = e
    BY <1>1, AppendProperties
  <2>3. \A n \in 1..Len(workers) : workers[n].id # e.id
    BY <1>1, <1>3 DEF SlotOfId
  <2> QED BY <1>3, <2>1, <2>2, <2>3
<1> QED BY <1>2, <1>3

LEMMA WorkerRestoreStep ==
    ASSUME RestoreInv, WorkerRestore
    PROVE  RestoreInv'
<1> DEFINE L == Len(workers)
<1>0. PICK e : e = Head(backup)
  OBVIOUS
<1>1. /\ doing = "add" /\ backup # <<>> /\ backup' = Tail(backup) /\ e.id # 0 /\ RestoreTyped
      /\ SlotOfId(e.id) # {} \/ L < MaxRegistry
      /\ workers' = Placed(e)
      /\ UNCHANGED <<doing, given, leftOut, promised>>
  BY <1>0 DEF WorkerRestore, Adding, RestoreInv
<1>2. e \in WorkerRec /\ e.id \in WorkerIds /\ e.peer \in Owners /\ backup' \in Seq(Entry)
  <2>1. e \in Entry /\ backup' \in Seq(Entry)
    BY <1>0, <1>1, HeadTailProperties DEF RestoreTyped
  <2> QED BY <1>1, <2>1, RestoreConstants DEF Entry, WorkerRec
<1>3. NextBeyond(e.id) \in Nat \ {0} /\ e.id < NextBeyond(e.id) /\ nextId <= NextBeyond(e.id)
  <2>1. e.id \in Nat /\ nextId \in Nat \ {0}
    BY <1>1, <1>2, RestoreConstants DEF RestoreTyped
  <2> QED BY <2>1 DEF NextBeyond
<1>4. CASE sound' = FALSE /\ UNCHANGED <<nextId, nvsBlobs, nvsNextId>>
  <2>1. sound' \in BOOLEAN /\ workers' \in Seq(WorkerRec)
    BY <1>1, <1>2, <1>4, PlacedSeq
  <2> QED BY <1>1, <1>2, <1>4, <2>1 DEF RestoreInv, RestoreTyped
<1>5. CASE /\ nvsBlobs' = [nvsBlobs EXCEPT ![e.id] = e.peer] /\ nextId' = NextBeyond(e.id)
           /\ \/ /\ nvsNextId' = (IF NextBeyond(e.id) = nextId THEN nvsNextId ELSE nextId')
                 /\ UNCHANGED sound
              \/ sound' = FALSE /\ UNCHANGED nvsNextId
  <2>1. RestoreTyped'
    <3>1. workers' \in Seq(WorkerRec)
      BY <1>1, <1>2, PlacedSeq
    <3>2. nvsBlobs' \in [WorkerIds -> Owners \cup {NoOwner}]
      BY <1>1, <1>2, <1>5 DEF RestoreTyped
    <3>3. nextId' \in Nat \ {0} /\ nvsNextId' \in Nat \ {0}
      BY <1>1, <1>3, <1>5 DEF RestoreTyped
    <3>4. sound' \in BOOLEAN
      BY <1>1, <1>5, Zenon DEF RestoreTyped
    <3> QED BY <1>1, <1>2, <3>1, <3>2, <3>3, <3>4 DEF RestoreTyped
  <2>2. CASE ~sound'
    BY <2>1, <2>2 DEF RestoreInv
  <2>3. CASE sound'
    <3>1. /\ sound /\ Beyond /\ Agrees /\ Added /\ Promised /\ nextId = nvsNextId
          /\ nvsNextId' = nextId' /\ nextId' = NextBeyond(e.id)
      BY <1>1, <1>5, <2>3 DEF RestoreInv, Agrees
    <3>2. \A i \in WorkerIds : nvsBlobs'[i] = IF i = e.id THEN e.peer ELSE nvsBlobs[i]
      BY <1>1, <1>5 DEF RestoreTyped
    <3>3. StoredIds' = StoredIds \cup {e.id}
      <4>1. e.id < nvsNextId' /\ e.peer # NoOwner
        BY <1>2, <1>3, <3>1, RestoreConstants
      <4>2. ASSUME NEW i \in WorkerIds, nvsBlobs[i] # NoOwner PROVE i < nvsNextId /\ i < nvsNextId'
        <5>1. i \in Nat /\ nvsNextId \in Nat /\ nvsNextId' \in Nat /\ nvsNextId <= nvsNextId'
          BY <1>1, <1>3, <3>1, RestoreConstants DEF RestoreTyped
        <5>2. ~(i >= nvsNextId)
          BY <3>1, <4>2 DEF Beyond
        <5> QED BY <5>1, <5>2
      <4> QED BY <1>2, <3>2, <4>1, <4>2 DEF StoredIds, InNvs
    <3>4. InPlace(e)' /\ \A x : InPlace(x) => InPlace(x)' \/ x.id = e.id
      <4>1. e.id \in StoredIds' /\ nvsBlobs'[e.id] = e.peer
        BY <1>2, <3>2, <3>3
      <4>2. \A x : InPlace(x) => (x.id \in StoredIds' /\ nvsBlobs'[x.id] = x.peer) \/ x.id = e.id
        BY <3>2, <3>3 DEF InPlace, StoredIds
      <4> QED BY <4>1, <4>2 DEF InPlace
    <3>5. Added'
      BY <1>0, <1>1, <3>1, <3>4, AddedStep
    <3>6. Promised'
      BY <1>1, <3>1 DEF Promised
    <3>7. /\ L \in Nat /\ DOMAIN workers = 1..L
          /\ \A n \in 1..L : /\ workers[n].id \in StoredIds /\ workers[n].id \in WorkerIds
                             /\ workers[n].peer = nvsBlobs[workers[n].id]
      BY <1>1, <3>1, WorkersSeq DEF Agrees
    <3>8. Agrees'
      <4>1. CASE SlotOfId(e.id) # {}
        <5>1. /\ DOMAIN workers' = 1..L /\ Len(workers') = L
              /\ \A n \in 1..L : /\ workers'[n].id = workers[n].id
                                 /\ workers[n].id = e.id => workers'[n].peer = e.peer
                                 /\ workers[n].id # e.id => workers'[n].peer = workers[n].peer
          <6>1. /\ workers' \in Seq(WorkerRec) /\ Len(workers') = L
                /\ \A n \in 1..L : workers'[n] = IF workers[n].id = e.id THEN e ELSE workers[n]
            BY <1>1, <1>2, <4>1, PlacedSeq
          <6>2. DOMAIN workers' = 1..L
            BY <3>7, <6>1, LenProperties
          <6> QED BY <6>1, <6>2
        <5>2. e.id \in StoredIds
          BY <3>7, <4>1 DEF SlotOfId
        <5>3. \A n \in 1..L : workers'[n].id \in StoredIds' /\ workers'[n].peer = nvsBlobs'[workers'[n].id]
          BY <3>2, <3>3, <3>7, <5>1
        <5> QED BY <1>1, <3>1, <3>3, <3>7, <5>1, <5>2, <5>3 DEF Agrees
      <4>2. CASE SlotOfId(e.id) = {}
        <5>1. /\ workers' \in Seq(WorkerRec) /\ Len(workers') = L + 1 /\ workers'[L + 1] = e
              /\ \A n \in 1..L : workers'[n] = workers[n] /\ workers[n].id # e.id
          BY <1>1, <1>2, <4>2, PlacedSeq
        <5>2. DOMAIN workers' = 1..(L + 1) /\ \A n \in 1..(L + 1) : n \in 1..L \/ n = L + 1
          BY <3>7, <5>1, LenProperties
        <5>3. ASSUME NEW n \in 1..(L + 1)
              PROVE  workers'[n].id \in StoredIds' /\ workers'[n].peer = nvsBlobs'[workers'[n].id]
          <6>1. CASE n \in 1..L
            BY <3>2, <3>3, <3>7, <5>1, <6>1
          <6>2. CASE n = L + 1
            BY <1>2, <3>2, <3>3, <5>1, <6>2
          <6> QED BY <5>2, <6>1, <6>2
        <5>4. \A i \in StoredIds' : \E n \in 1..(L + 1) : workers'[n].id = i
          <6>1. 1..L \subseteq 1..(L + 1) /\ L + 1 \in 1..(L + 1)
            BY <3>7
          <6> QED BY <1>1, <3>1, <3>3, <3>7, <5>1, <6>1 DEF Agrees
        <5>5. \A m, n \in 1..(L + 1) : workers'[m].id = workers'[n].id => m = n
          <6>1. \A m, n \in 1..L : workers[m].id = workers[n].id => m = n
            BY <1>1, <3>1, <3>7 DEF Agrees
          <6> QED BY <5>1, <5>2, <6>1
        <5>6. L + 1 <= MaxRegistry
          BY <1>1, <3>7, <4>2, RestoreConstants
        <5>7. nextId' = nvsNextId' /\ doing' # "booting"
          BY <1>1, <3>1
        <5> QED BY <5>1, <5>2, <5>3, <5>4, <5>5, <5>6, <5>7, SMTT(30) DEF Agrees
      <4> QED BY <4>1, <4>2
    <3>9. Beyond'
      <4>1. \A i \in WorkerIds : i >= nvsNextId' => nvsBlobs'[i] = NoOwner
        <5> SUFFICES ASSUME NEW i \in WorkerIds, i >= nvsNextId' PROVE nvsBlobs'[i] = NoOwner
          OBVIOUS
        <5>1. /\ i \in Nat /\ nvsNextId \in Nat /\ nvsNextId' \in Nat /\ nvsNextId <= nvsNextId'
              /\ e.id \in Nat /\ e.id < nvsNextId'
          BY <1>1, <1>2, <1>3, <3>1, RestoreConstants DEF RestoreTyped
        <5>2. i # e.id /\ i >= nvsNextId
          BY <5>1
        <5> QED BY <3>1, <3>2, <5>2 DEF Beyond
      <4> QED BY <1>1, <2>1, <3>8, <4>1, AgreeingFits DEF Beyond
    <3>10. Crowded'
      <4>1. Crowded /\ Registry(given)' = Registry(given)
        BY <1>1, <3>1 DEF RestoreInv, Registry
      <4>2. ASSUME leftOut # {} PROVE Len(workers') = MaxRegistry /\ e.id \in StoredIds
        <5>1. L = MaxRegistry /\ ~(L < MaxRegistry)
          <6>1. L = MaxRegistry
            BY <4>1, <4>2, Zenon DEF Crowded
          <6> QED BY <3>7, <6>1
        <5>2. SlotOfId(e.id) # {}
          BY <1>1, <5>1
        <5>3. Len(workers') = L
          BY <1>1, <1>2, <5>2, PlacedSeq
        <5>4. PICK n \in SlotOfId(e.id) : TRUE
          BY <5>2
        <5>5. n \in DOMAIN workers /\ workers[n].id = e.id
          BY <5>4, Zenon DEF SlotOfId
        <5> QED BY <3>7, <5>1, <5>3, <5>5
      <4> QED BY <1>1, <3>3, <4>1, <4>2 DEF Crowded
    <3> QED BY <2>1, <3>5, <3>6, <3>8, <3>9, <3>10 DEF RestoreInv
  <2> QED BY <2>2, <2>3
<1> QED BY <1>0, <1>4, <1>5 DEF WorkerRestore

LEMMA LoadableFinite ==
    ASSUME RestoreTyped
    PROVE  /\ IsFiniteSet(Loadable) /\ Cardinality(Loadable) \in Nat
           /\ Cardinality(Loadable) <= Cardinality(StoredIds)
           /\ Loadable \subseteq WorkerRec
           /\ \A w \in Loadable : w.id \in StoredIds /\ w.peer = nvsBlobs[w.id]
<1>1. \A w \in Loadable : /\ w.id \in StoredIds /\ w.peer = nvsBlobs[w.id]
                          /\ w = [id |-> w.id, peer |-> nvsBlobs[w.id]]
  BY DEF Loadable, StoredIds
<1>2. \A w \in Loadable : w.id \in WorkerIds /\ w.peer \in Owners
  BY <1>1 DEF RestoreTyped, StoredIds, InNvs
<1> DEFINE f == [w \in Loadable |-> w.id]
<1>3. f \in [Loadable -> StoredIds] /\ \A v, w \in Loadable : f[v] = f[w] => v = w
  BY <1>1
<1>4. f \in Injection(Loadable, StoredIds)
  BY <1>3, Fun_IsInj
<1>5. IsFiniteSet(Loadable) /\ Cardinality(Loadable) <= Cardinality(StoredIds)
  BY <1>4, StoredFinite, FS_Injection
<1>6. Cardinality(Loadable) \in Nat
  BY <1>5, FS_CardinalityType
<1>7. Loadable \subseteq WorkerRec
  BY <1>1, <1>2 DEF WorkerRec
<1> QED BY <1>1, <1>5, <1>6, <1>7

\* The boot loads all that is stored.
LEMMA RegistryInitStep ==
    ASSUME RestoreInv, RegistryInit
    PROVE  RestoreInv'
<1> DEFINE C == Cardinality(Loadable)
<1>1. /\ doing = "booting" /\ doing' = "none" /\ nextId' = nvsNextId /\ RestoreTyped
      /\ UNCHANGED <<nvsBlobs, nvsNextId, backup, given, leftOut, promised, sound>>
  BY DEF RegistryInit, RestoreInv
<1>2. /\ workers' \in [1..C -> Loadable]
      /\ \A m, n \in DOMAIN workers' : m < n => workers'[m].id < workers'[n].id
  BY DEF RegistryInit
<1>3. DOMAIN workers' = 1..C /\ C \in Nat /\ Loadable \subseteq WorkerRec
  BY <1>1, <1>2, LoadableFinite
<1>4. workers' \in Seq(WorkerRec) /\ Len(workers') = C
  <2>1. workers' \in [1..C -> WorkerRec]
    BY <1>2, <1>3
  <2>2. workers' \in Seq(WorkerRec)
    BY <1>3, <2>1, IsASeq
  <2> QED BY <1>3, <2>2, LenProperties
<1>5. RestoreTyped'
  BY <1>1, <1>4 DEF RestoreTyped
<1>6. ASSUME sound PROVE Beyond' /\ Agrees' /\ Added' /\ Promised' /\ Crowded'
  <2>1. Beyond' /\ Cardinality(StoredIds) <= MaxRegistry /\ StoredIds' = StoredIds
    BY <1>1, <1>6, SameNvs DEF RestoreInv, Beyond
  <2>2. Loadable = {[id |-> i, peer |-> nvsBlobs[i]] : i \in StoredIds}
    BY <1>1, <2>1, AllLoadable
  <2>3. \A n \in 1..C : /\ workers'[n] \in Loadable /\ workers'[n].id \in StoredIds
                        /\ workers'[n].peer = nvsBlobs[workers'[n].id] /\ workers'[n].id \in Nat
    BY <1>1, <1>2, LoadableFinite, RestoreConstants DEF StoredIds
  <2>4. ASSUME NEW m \in 1..C, NEW n \in 1..C, workers'[m].id = workers'[n].id PROVE m = n
    <3>1. m \in Int /\ n \in Int /\ (m < n \/ n < m \/ m = n)
      OBVIOUS
    <3>2. ~(m < n) /\ ~(n < m)
      BY <1>2, <1>3, <2>3, <2>4
    <3> QED BY <3>1, <3>2
  <2>5. ASSUME NEW i \in StoredIds PROVE \E n \in 1..C : workers'[n].id = i
    <3>1. \A m, n \in 1..C : workers'[m] = workers'[n] => m = n
      BY <2>4
    <3>2. workers' \in Injection(1..C, Loadable)
      BY <1>2, <3>1, Fun_IsInj
    <3>3. Cardinality(1..C) = C
      BY <1>3, FS_Interval
    <3>4. workers' \in Surjection(1..C, Loadable)
      BY <1>1, <3>2, <3>3, LoadableFinite, FS_Injection
    <3>5. PICK n \in 1..C : workers'[n] = [id |-> i, peer |-> nvsBlobs[i]]
      BY <2>2, <3>4 DEF Surjection
    <3> QED BY <3>5
  <2>6. C <= MaxRegistry
    BY <1>1, <1>3, <2>1, LoadableFinite, StoredFinite, RestoreConstants
  <2>7. Agrees'
    BY <1>1, <1>3, <1>4, <2>1, <2>3, <2>4, <2>5, <2>6 DEF Agrees
  <2>8. Crowded'
    BY <1>1 DEF RestoreTyped, Crowded
  <2> QED BY <1>1, <1>6, <2>1, <2>7, <2>8, SameNvs DEF RestoreInv, Added, Promised
<1> QED BY <1>1, <1>5, <1>6 DEF RestoreInv

\* The invariant, of every reachable state.
THEOREM RestoreInvAlways == RestoreSpec => []RestoreInv
<1>1. RestoreInv /\ [RestoreNext]_restoreVars => RestoreInv'
  <2> SUFFICES ASSUME RestoreInv, [RestoreNext]_restoreVars PROVE RestoreInv'
    OBVIOUS
  <2>1. CASE UNCHANGED restoreVars
    <3>1. UNCHANGED <<workers, nextId, nvsBlobs, nvsNextId, doing, backup, given, leftOut, promised,
                   sound>>
      BY <2>1 DEF restoreVars, handler
    <3> QED BY <3>1 DEF RestoreInv, RestoreTyped, Beyond, StoredIds, InNvs, Agrees, Added, Past, InPlace,
                        Promised, Crowded, Registry
  <2> QED BY <2>1, CreateWorkerStep, CreateCutStep, DeletesWorkerStep, UpdateWorkerStep, RestoreBeginStep,
             WipeCutStep, WorkersWipeStep, WorkerRestoreStep, WorkerNotRestoredStep, RestoreAnswerStep,
             PowerLossStep, RegistryInitStep, SettingsErasedStep DEF RestoreNext
<1> QED BY <1>1, RestoreInvInit, PTL DEF RestoreSpec

\* The workers in RAM are the ones stored.
LEMMA RegistryIsLoadable ==
    ASSUME RestoreTyped, Beyond, Agrees, doing # "booting"
    PROVE  Registry(workers) = Loadable
<1>1. Loadable = {[id |-> i, peer |-> nvsBlobs[i]] : i \in StoredIds}
  BY AllLoadable DEF Beyond
<1>2. \A n \in DOMAIN workers : /\ workers[n] = [id |-> workers[n].id, peer |-> nvsBlobs[workers[n].id]]
                                /\ workers[n].id \in StoredIds
  BY WorkersSeq DEF Agrees
<1>3. Registry(workers) \subseteq Loadable
  BY <1>1, <1>2 DEF Registry
<1>4. ASSUME NEW i \in StoredIds PROVE [id |-> i, peer |-> nvsBlobs[i]] \in Registry(workers)
  <2>1. PICK n \in DOMAIN workers : workers[n].id = i
    BY DEF Agrees
  <2> QED BY <1>2, <2>1 DEF Registry
<1> QED BY <1>1, <1>3, <1>4

\* However a restore goes on or ends, what is in RAM is what the next boot finds, unless
\* a write failed or was cut off from its partner (dd_worker_restore, dd_worker_wipe).
THEOREM RestoredInNvsAlways == RestoreSpec => []RestoredInNvs
<1>1. RestoreInv => RestoredInNvs
  BY RegistryIsLoadable DEF RestoreInv, Agrees, RestoredInNvs
<1> QED BY <1>1, RestoreInvAlways, PTL

\* A worker is left out only if there are too many: the table is full of others, and if
\* those are all of the backup, that has more ids than there are slots.
LEMMA LeftOutOfTooMany ==
    ASSUME RestoreTyped, Agrees, Crowded, leftOut # {}
    PROVE  Cardinality(Ids(given)) > MaxRegistry \/ ~(Ids(workers) \subseteq Ids(given))
<1> DEFINE L == Len(workers)
<1>1. PICK e \in leftOut : TRUE
  OBVIOUS
<1>2. doing # "booting" /\ L = MaxRegistry /\ e.id \notin StoredIds /\ e.id # 0 /\ e \in Registry(given)
  BY <1>1 DEF RestoreTyped, Crowded
<1>3. /\ DOMAIN workers = 1..L /\ L \in Nat
      /\ \A n \in 1..L : workers[n].id \in StoredIds /\ workers[n].id \in WorkerIds
      /\ \A m, n \in 1..L : workers[m].id = workers[n].id => m = n
  BY <1>2, WorkersSeq DEF Agrees
<1>4. SUFFICES ASSUME Ids(workers) \subseteq Ids(given) PROVE Cardinality(Ids(given)) > MaxRegistry
  OBVIOUS
<1>5. e.id \in Ids(given)
  BY <1>2 DEF Registry, Ids
<1>6. \A n \in 1..L : workers[n].id \in Ids(given) /\ workers[n].id # e.id
  <2>1. \A i \in WorkerIds : i # 0
    BY RestoreConstants
  <2> QED BY <1>2, <1>3, <1>4, <2>1 DEF Ids
<1>7. IsFiniteSet(Ids(given)) /\ Cardinality(Ids(given)) \in Nat
  <2>1. DOMAIN given = 1..Len(given) /\ Len(given) \in Nat
        /\ \A k \in 1..Len(given) : given[k].id \in 0..MaxWorkerId
    <3>1. \A k \in 1..Len(given) : given[k] \in Entry
      BY ElementOfSeq DEF RestoreTyped
    <3> QED BY <3>1, BackupSeq DEF Entry
  <2>2. Ids(given) \subseteq 0..MaxWorkerId
    BY <2>1 DEF Ids
  <2>3. IsFiniteSet(0..MaxWorkerId)
    BY RestoreConstants, FS_Interval
  <2> QED BY <2>2, <2>3, FS_Subset, FS_CardinalityType
<1> DEFINE f == [n \in 1..(L + 1) |-> IF n = L + 1 THEN e.id ELSE workers[n].id]
<1>8. \A n \in 1..(L + 1) : n \in 1..L \/ n = L + 1
  BY <1>3
<1>9. f \in [1..(L + 1) -> Ids(given)] /\ \A m, n \in 1..(L + 1) : f[m] = f[n] => m = n
  <2>1. \A n \in 1..(L + 1) : f[n] \in Ids(given)
    BY <1>5, <1>6, <1>8
  <2>2. ASSUME NEW m \in 1..(L + 1), NEW n \in 1..(L + 1), f[m] = f[n] PROVE m = n
    <3>1. ~(L + 1 \in 1..L)
      BY <1>3
    <3> QED BY <1>3, <1>6, <1>8, <2>2, <3>1
  <2> QED BY <2>1, <2>2
<1> HIDE DEF f
<1>10. f \in Injection(1..(L + 1), Ids(given))
  BY <1>9, Fun_IsInj
<1>11. IsFiniteSet(1..(L + 1)) /\ Cardinality(1..(L + 1)) = L + 1
  BY <1>3, FS_Interval
<1>12. L + 1 <= Cardinality(Ids(given))
  BY <1>7, <1>10, <1>11, FS_Injection
<1> QED BY <1>2, <1>3, <1>7, <1>12

\* The workers of a restore that was answered are in their places under their own ids,
\* in RAM and for the next boot, and nobody takes an id of theirs; and one of the backup is
\* left out only if the table had no room for it (restore_post).
THEOREM RestoredIsKeptAlways == RestoreSpec => []RestoredIsKept
<1>1. RestoreInv => RestoredIsKept
  <2> SUFFICES ASSUME RestoreInv, sound PROVE RestoredIsKept
    BY DEF RestoredIsKept
  <2>1. RestoreTyped /\ Beyond /\ Agrees /\ Promised /\ Crowded
    BY DEF RestoreInv
  <2>2. Loadable = {[id |-> i, peer |-> nvsBlobs[i]] : i \in StoredIds}
    BY <2>1, AllLoadable DEF Beyond
  <2>3. \A e \in promised : e = [id |-> e.id, peer |-> nvsBlobs[e.id]] /\ e.id \in StoredIds
    BY <2>1 DEF Promised, WorkerRec, InPlace
  <2>4. Registry(workers) \subseteq Loadable
    <3>1. CASE doing = "booting"
      <4>1. workers = <<>>
        BY <2>1, <3>1 DEF Agrees
      <4> QED BY <4>1 DEF Registry
    <3> QED BY <2>1, <3>1, RegistryIsLoadable
  <2>5. promised \subseteq Loadable
    BY <2>2, <2>3
  <2>6. doing = "none" => promised \subseteq Registry(workers)
    BY <2>1, <2>5, RegistryIsLoadable
  <2>7. \A e \in promised, w \in Loadable \cup Registry(workers) : w.id = e.id => w = e
    BY <2>2, <2>3, <2>4
  <2>8. leftOut # {} => Cardinality(Ids(given)) > MaxRegistry \/ ~(Ids(workers) \subseteq Ids(given))
    BY <2>1, LeftOutOfTooMany
  <2> QED BY <2>5, <2>6, <2>7, <2>8 DEF RestoredIsKept
<1> QED BY <1>1, RestoreInvAlways, PTL
===============================================================================
