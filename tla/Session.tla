------------------------------- MODULE Session -------------------------------
(***************************************************************************)
(* Who may use the device: the administrator's password in NVS             *)
(* (components/config), the sessions in RAM (components/session), and the  *)
(* handlers that set, check, change, restore and erase them                *)
(* (components/http_app).                                                  *)
(*                                                                         *)
(* Handlers run one at a time on the httpd task; the boot button's task,   *)
(* the power and a scheduled restart do not wait for them.  A password is  *)
(* two entries of NVS, the salt and the hash, each of which is written     *)
(* whole or not at all; random salts and tokens never coincide.            *)
(***************************************************************************)
EXTENDS Naturals, Sequences, FiniteSets

CONSTANTS
    Passwords,
    NoPassword,
    MaxSessions,    \* MAX_SESSIONS
    Ttl,            \* TTL_USEC
    MaxTime,        \* bound of the model: how long a boot lasts
    MaxLogins       \* bound of the model: logins of a boot

ASSUME SessionAssumption ==
    /\ NoPassword \notin Passwords
    /\ MaxSessions \in Nat \ {0} /\ Ttl \in Nat \ {0}

VARIABLES
    salt,       \* NVS: none, the one of the hash, another
    hash,       \* NVS: the password the hash was made from
    slots,      \* s_slots
    clock,      \* esp_timer_get_time
    writing,    \* the handler that is writing a password
    leaving,    \* a restart is scheduled
    logins,     \* history: the sessions of this boot, in their order
    closed,     \* history: those of them that were logged out
    wanted,     \* history: the password last confirmed and not erased since
    cut         \* history: a hash was left without its salt

sessionVars == <<salt, hash, slots, clock, writing, leaving, logins, closed, wanted, cut>>
password == <<salt, hash, writing, wanted, cut>>
history == <<logins, closed>>

Slot == 1..MaxSessions
Empty == [token |-> 0, expires |-> 0]
NotWriting == [by |-> "none", pw |-> NoPassword, salted |-> FALSE]

SessionInit ==
    /\ salt = "none" /\ hash = NoPassword
    /\ slots = [i \in Slot |-> Empty]
    /\ clock = 0
    /\ writing = NotWriting
    /\ leaving = FALSE
    /\ logins = <<>> /\ closed = {}
    /\ wanted = NoPassword /\ cut = FALSE

HasAdmin == hash # NoPassword
Verified(pw) == HasAdmin /\ salt = "own" /\ pw = hash

\* dd_session_is_valid.  A token is the number of its login.
Valid(t) == \E i \in Slot : slots[i].token = t /\ slots[i].expires > clock
Sessions == {t \in DOMAIN logins : Valid(t)}
Ready == writing = NotWriting

(***************************************************************************)
(* Sessions.                                                               *)
(***************************************************************************)
\* find_slot_locked: the first that is free or has expired, or the one to expire first.
Unused(now) == {i \in Slot : slots[i].expires < now}
FirstToExpire == {i \in Slot : \A j \in Slot : slots[i].expires <= slots[j].expires}
AnySlot(now) == IF Unused(now) # {} THEN Unused(now) ELSE Slot          \* mutant
Candidates(now) == IF Unused(now) # {} THEN Unused(now) ELSE FirstToExpire

\* auth_login_post and dd_session_create.  Hashing the password takes a while, so that
\* no two sessions begin at the same time.
Login(pw) ==
    /\ Ready /\ Verified(pw)
    /\ clock < MaxTime /\ Len(logins) < MaxLogins
    /\ clock' = clock + 1
    /\ \E i \in Slot :
        /\ i \in Candidates(clock') /\ \A j \in Candidates(clock') : i <= j
        /\ slots' = [slots EXCEPT ![i] = [token |-> Len(logins) + 1, expires |-> clock' + Ttl]]
    /\ logins' = Append(logins, [pw |-> pw, at |-> clock'])
    /\ UNCHANGED <<password, leaving, closed>>

\* auth_logout_post: by anybody who shows the token.
Logout(t) ==
    /\ Ready
    /\ slots' = [i \in Slot |-> IF slots[i].token = t THEN Empty ELSE slots[i]]
    /\ closed' = closed \cup {t}
    /\ UNCHANGED <<password, clock, leaving, logins>>

Time ==
    /\ clock < MaxTime
    /\ clock' = clock + 1
    /\ UNCHANGED <<password, slots, leaving, history>>

(***************************************************************************)
(* The password: dd_config_set_admin_password and _set_admin_blob.         *)
(***************************************************************************)
Starts(by, pw) ==
    /\ writing' = [by |-> by, pw |-> pw, salted |-> FALSE]
    /\ UNCHANGED <<salt, hash, slots, clock, leaving, history, wanted, cut>>

\* setup_post and restore_post, while there is no password.
Setup(pw) == Ready /\ ~HasAdmin /\ Starts("setup", pw)
Restored(pw) == Ready /\ ~HasAdmin /\ Starts("restore", pw)

\* auth_change_password_post asks for a session and for the old password.
Change(old, new) == Ready /\ Sessions # {} /\ Verified(old) /\ Starts("change", new)

WriteSalt ==
    /\ ~Ready /\ ~writing.salted
    /\ salt' = "other"
    /\ writing' = [writing EXCEPT !.salted = TRUE]
    /\ UNCHANGED <<hash, slots, clock, leaving, history, wanted, cut>>

\* A change ends all sessions; a set-up and a restore end in a restart, but for a set-up
\* whose credentials for the network cannot be written.
KeptSessions == slots                                                   \* mutant
AfterChange == IF writing.by = "change" THEN [i \in Slot |-> Empty] ELSE slots

StaleSalt == salt                                                       \* mutant
SaltOfHash == IF salt = "none" THEN "none" ELSE "own"

WriteHash ==
    /\ ~Ready /\ writing.salted
    /\ hash' = writing.pw
    /\ salt' = SaltOfHash
    /\ wanted' = writing.pw
    /\ cut' = (salt = "none")
    /\ slots' = AfterChange
    /\ \/ writing.by # "change" /\ leaving' = TRUE
       \/ writing.by # "restore" /\ UNCHANGED leaving
    /\ writing' = NotWriting
    /\ UNCHANGED <<clock, history>>

\* A write fails: a set-up or a change says so, a restore goes on and restarts.
WriteFails ==
    /\ ~Ready
    /\ cut' = (cut \/ (writing.salted /\ HasAdmin))
    /\ leaving' = (leaving \/ writing.by = "restore")
    /\ writing' = NotWriting
    /\ UNCHANGED <<salt, hash, slots, clock, history, wanted>>

(***************************************************************************)
(* The end of it all.                                                      *)
(***************************************************************************)
\* dd_config_factory_reset, from the web or by the button held for five seconds.  It
\* erases entry by entry, either of which it may leave, because it fails or because the
\* power does; what it returns is ignored and the device restarts.  The sessions are
\* left to that restart.
FactoryReset ==
    /\ salt' \in {salt, "none"} /\ hash' \in {hash, NoPassword}
    /\ wanted' = hash'
    /\ cut' = (hash' # NoPassword /\ (cut \/ salt' = "none"))
    /\ leaving' = TRUE
    /\ UNCHANGED <<slots, clock, writing, history>>

ResetPost == Ready /\ Sessions # {} /\ FactoryReset

\* The boot button's task also comes between the two writes of a handler.
ResetButton == FactoryReset

\* RAM after a reset.
Gone ==
    /\ slots' = [i \in Slot |-> Empty]
    /\ clock' = 0
    /\ writing' = NotWriting
    /\ leaving' = FALSE
    /\ logins' = <<>> /\ closed' = {}

\* A restart, a crash or a loss of power at any moment.
Reboot ==
    /\ Gone
    /\ cut' = (cut \/ (writing.salted /\ HasAdmin))
    /\ UNCHANGED <<salt, hash, wanted>>

SessionNext ==
    \/ \E pw \in Passwords : Login(pw) \/ Setup(pw) \/ Restored(pw)
    \/ \E old, new \in Passwords : Change(old, new)
    \/ \E t \in DOMAIN logins : Logout(t)
    \/ Time \/ WriteSalt \/ WriteHash \/ WriteFails
    \/ ResetPost \/ ResetButton \/ Reboot

SessionSpec == SessionInit /\ [][SessionNext]_sessionVars
-----------------------------------------------------------------------------
(***************************************************************************)
(* Properties.                                                             *)
(***************************************************************************)
\* Whoever is let in logged in during this boot, no longer than the TTL ago, has not
\* logged out, and did so with the password that is in force: a change of the password
\* shuts everybody out.  A factory reset does so only with the restart that follows
\* (auth_change_password_post, factory_reset_post).
SessionsAreEarned ==
    \A t \in Sessions :
        /\ t \notin closed
        /\ clock - logins[t].at < Ttl
        /\ ~leaving => logins[t].pw = hash

\* A login shuts somebody else out only when all slots are taken by sessions that are
\* still valid, and then the one who logged in first (find_slot_locked).
EvictsTheOldest ==
    [][\A pw \in Passwords : Login(pw) =>
        \A t \in Sessions : ~Valid(t)' /\ clock' - logins[t].at < Ttl =>
            /\ Cardinality({s \in Sessions : clock' - logins[s].at < Ttl}) = MaxSessions
            /\ \A s \in Sessions : clock' - logins[s].at < Ttl => t <= s]_sessionVars

\* The password last confirmed and not erased since, and no other, is let in, and
\* without one the device can be set up.  A crash, a failing write, the button and a
\* reset that fails or is interrupted may come between any two steps; they do harm only
\* where they leave the hash with a salt that is not its own, between the two writes
\* of dd_config_set_admin_password and between the two erasures of a reset.
PasswordWorks ==
    Ready /\ ~cut =>
        /\ wanted = NoPassword => ~HasAdmin
        /\ \A pw \in Passwords : Verified(pw) = (pw = wanted)
=============================================================================
