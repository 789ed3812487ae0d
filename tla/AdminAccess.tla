---------------------------- MODULE AdminAccess ----------------------------
(***************************************************************************)
(* How the administrator gets in: passkeys and their challenges, one-time  *)
(* recovery credentials, the sessions they open, the lock of the site, and *)
(* the operator's commands, which run in processes of their own.           *)
(*                                                                         *)
(* A request takes the row locks of locks and keeps them until it commits  *)
(* or is rolled back; a locking statement waits for a lock and then sees   *)
(* what the holder committed.  A row that an open transaction inserts is   *)
(* not seen before its commit.  The locks of session rows are left out:    *)
(* every statement on them revokes sessions, and a session that is revoked *)
(* twice is revoked.  A deadlock ends in the rollback of one request.      *)
(***************************************************************************)
EXTENDS FiniteSets, Naturals

CONSTANTS
    Passkey, Device, Session, Req,
    Authentication, Registration,   \* webauthn_challenges by purpose
    Recovery,                       \* admin_recovery_credentials
    Site,                           \* the lock of the site_settings row
    NoKey, NoToken, NoDevice, NoSession

Challenge == Authentication \cup Registration
Token == Challenge \cup Recovery
Lock == Passkey \cup Token \cup Device \cup {Site}

ASSUME AdminAccessAssumption ==
    /\ Authentication \cap Registration = {} /\ Challenge \cap Recovery = {}
    /\ Passkey \cap (Token \cup Device \cup {Site}) = {}
    /\ Token \cap (Device \cup {Site}) = {}
    /\ Site \notin Device
    /\ NoKey \notin Passkey /\ NoToken \notin Token
    /\ NoDevice \notin Device /\ NoSession \notin Session

VARIABLES
    ready,      \* the administrator has been initialized
    locked,     \* admin_locked_at is set
    passkey,    \* admin_passkeys
    token,      \* webauthn_challenges and admin_recovery_credentials
    sess,       \* auth_sessions of the administrator
    req         \* open requests and commands

vars == <<ready, locked, passkey, token, sess, req>>

KeyStatus == {"none", "active", "revoked"}
TokenStatus == {"none", "open", "used", "revoked", "expired"}
Entry == [state : {"live", "revoked"}, key : Passkey \cup {NoKey},
          token : Token, dev : Device]
Commands == {"init", "recover", "reset", "lock", "unlock", "end_all"}
Request == [op : {"none", "login", "recovery", "register", "revoke"} \cup Commands,
            step : {"idle", "device", "passkey", "site", "flush", "keys",
                    "sessions", "issue", "commit"},
            sess : Session \cup {NoSession}, key : Passkey \cup {NoKey},
            token : Token \cup {NoToken}, dev : Device \cup {NoDevice},
            locks : SUBSET Lock, ends : SUBSET Session]
NoEntry == [state |-> "none", key |-> NoKey, token |-> NoToken, dev |-> NoDevice]
Idle == [op |-> "none", step |-> "idle", sess |-> NoSession, key |-> NoKey,
         token |-> NoToken, dev |-> NoDevice,
         locks |-> {}, ends |-> {}]

TypeOK ==
    /\ ready \in BOOLEAN /\ locked \in BOOLEAN
    /\ passkey \in [Passkey -> KeyStatus]
    /\ token \in [Token -> TokenStatus]
    /\ sess \in [Session -> Entry \cup {NoEntry}]
    /\ req \in [Req -> Request]

Init ==
    /\ ready = FALSE /\ locked = FALSE
    /\ passkey = [k \in Passkey |-> "none"]
    /\ token = [t \in Token |-> "none"]
    /\ sess = [s \in Session |-> NoEntry]
    /\ req = [p \in Req |-> Idle]

Active == {k \in Passkey : passkey[k] = "active"}
Live == {s \in Session : sess[s].state = "live"}
Open == {r \in Recovery : token[r] = "open"}

\* Recovery credentials that are neither used nor revoked.
Unspent == {r \in Recovery : token[r] \in {"open", "expired"}}

\* No other request holds one of these locks.
Free(p, locks) == \A q \in Req \ {p} : req[q].locks \cap locks = {}

\* active_context: a recovery session needs no passkey and ignores the lock.
Valid(s) ==
    /\ sess[s].state = "live"
    /\ sess[s].key # NoKey => ~locked /\ passkey[sess[s].key] = "active"

Begin(p, r) == req[p] = Idle /\ req' = [req EXCEPT ![p] = r]
End(p) == req' = [req EXCEPT ![p] = Idle]

\* The request takes locks, notes the sessions it revokes and goes on.
Take(p, locks, ends, step) ==
    /\ Free(p, locks)
    /\ req' = [req EXCEPT ![p].locks = @ \cup locks, ![p].ends = @ \cup ends,
                          ![p].step = step]

\* The sessions after a commit that revokes what the request has noted.
Ended(p) ==
    [s \in Session |-> IF s \in req[p].ends THEN [sess[s] EXCEPT !.state = "revoked"]
                       ELSE sess[s]]

\* ... and that also opens a new one.
WithNew(p, s, key, dev) ==
    [Ended(p) EXCEPT ![s] = [state |-> "live", key |-> key,
                             token |-> req[p].token, dev |-> dev]]

-----------------------------------------------------------------------------
(* Challenges.                                                             *)

AuthenticationOptions(c) ==
    /\ ready /\ token[c] = "none"
    /\ token' = [token EXCEPT ![c] = "open"]
    /\ UNCHANGED <<ready, locked, passkey, sess, req>>

RegistrationOptions(s, c) ==
    /\ Valid(s) /\ token[c] = "none"
    /\ token' = [token EXCEPT ![c] = "open"]
    /\ UNCHANGED <<ready, locked, passkey, sess, req>>

\* An answer that does not verify uses its challenge up.
InvalidResponse(p, c) ==
    /\ req[p] = Idle /\ Free(p, {c}) /\ token[c] = "open"
    /\ token' = [token EXCEPT ![c] = "used"]
    /\ UNCHANGED <<ready, locked, passkey, sess, req>>

\* Time passes over a challenge or a recovery credential.
Expire(t) ==
    /\ token[t] = "open"
    /\ token' = [token EXCEPT ![t] = "expired"]
    /\ UNCHANGED <<ready, locked, passkey, sess, req>>

-----------------------------------------------------------------------------
(* Logging in with a passkey or a recovery credential.                     *)

\* Mutant: the passkey is read without FOR UPDATE.
LoginCheck_NoLock(p, k, c, d) ==
    /\ passkey[k] = "active" /\ token[c] = "open" /\ ~locked
    /\ Free(p, {c})
    /\ Begin(p, [Idle EXCEPT !.op = "login", !.step = "device", !.key = k,
                             !.token = c, !.dev = d, !.locks = {c}])
    /\ UNCHANGED <<ready, locked, passkey, token, sess>>

\* The passkey and the challenge FOR UPDATE, and the site as it is now.
LoginCheck(p, k, c, d) ==
    /\ passkey[k] = "active" /\ token[c] = "open" /\ ~locked
    /\ Free(p, {k, c})
    /\ Begin(p, [Idle EXCEPT !.op = "login", !.step = "device", !.key = k,
                             !.token = c, !.dev = d, !.locks = {k, c}])
    /\ UNCHANGED <<ready, locked, passkey, token, sess>>

\* Mutant: the recovery credential is read without FOR UPDATE.
RecoveryCheck_NoLock(p, r, d) ==
    /\ token[r] = "open"
    /\ Begin(p, [Idle EXCEPT !.op = "recovery", !.step = "device",
                             !.token = r, !.dev = d])
    /\ UNCHANGED <<ready, locked, passkey, token, sess>>

\* The recovery credential FOR UPDATE.
RecoveryCheck(p, r, d) ==
    /\ token[r] = "open" /\ Free(p, {r})
    /\ Begin(p, [Idle EXCEPT !.op = "recovery", !.step = "device",
                             !.token = r, !.dev = d, !.locks = {r}])
    /\ UNCHANGED <<ready, locked, passkey, token, sess>>

\* Mutant: the device is not written before its sessions are read.
TakeDevice_NoLock(p) ==
    /\ req[p].step = "device"
    /\ Take(p, {}, {s \in Live : sess[s].dev = req[p].dev}, "commit")
    /\ UNCHANGED <<ready, locked, passkey, token, sess>>

\* The device is written, which locks its row, and its sessions are revoked.
TakeDevice(p) ==
    /\ req[p].step = "device"
    /\ Take(p, {req[p].dev}, {s \in Live : sess[s].dev = req[p].dev}, "commit")
    /\ UNCHANGED <<ready, locked, passkey, token, sess>>

LoginCommit(p, s) ==
    /\ req[p].op \in {"login", "recovery"} /\ req[p].step = "commit"
    /\ sess[s] = NoEntry
    /\ sess' = WithNew(p, s, req[p].key, req[p].dev)
    /\ token' = [token EXCEPT ![req[p].token] = "used"]
    /\ End(p)
    /\ UNCHANGED <<ready, locked, passkey>>

\* The administrator logs out, or ends one session.
Logout(s) ==
    /\ s \in Live
    /\ sess' = [sess EXCEPT ![s].state = "revoked"]
    /\ UNCHANGED <<ready, locked, passkey, token, req>>

-----------------------------------------------------------------------------
(* Registering a passkey, which completes a recovery.                      *)

\* The caller's session is checked.
RegisterCheck(p, s) ==
    /\ Valid(s)
    /\ Begin(p, [Idle EXCEPT !.op = "register", !.step = "passkey",
                             !.sess = s])
    /\ UNCHANGED <<ready, locked, passkey, token, sess>>

\* The session under which the request runs is a recovery session.
Recovering(p) == sess[req[p].sess].key = NoKey

\* The challenge FOR UPDATE and the insert of the passkey.  The completion of
\* a recovery then revokes every session and waits for the site row.
RegisterPasskey(p, c, k) ==
    /\ req[p].op = "register" /\ req[p].step = "passkey"
    /\ token[c] = "open" /\ passkey[k] = "none" /\ Free(p, {c, k})
    /\ req' = [req EXCEPT ![p].token = c, ![p].key = k, ![p].locks = {c, k},
                          ![p].ends = IF Recovering(p) THEN Live ELSE {},
                          ![p].step = IF Recovering(p) THEN "site" ELSE "commit"]
    /\ UNCHANGED <<ready, locked, passkey, token, sess>>

TakeSite(p) ==
    /\ req[p].step = "site"
    /\ Take(p, {Site}, {}, "commit")
    /\ UNCHANGED <<ready, locked, passkey, token, sess>>

RegisterCommit(p) ==
    /\ req[p].op = "register" /\ req[p].step = "commit" /\ ~Recovering(p)
    /\ passkey' = [passkey EXCEPT ![req[p].key] = "active"]
    /\ token' = [token EXCEPT ![req[p].token] = "used"]
    /\ End(p)
    /\ UNCHANGED <<ready, locked, sess>>

\* Mutant: the new session has no device.
RecoveryCommit_NoDevice(p, s) ==
    /\ req[p].op = "register" /\ req[p].step = "commit" /\ Recovering(p)
    /\ sess[s] = NoEntry
    /\ passkey' = [passkey EXCEPT ![req[p].key] = "active"]
    /\ token' = [token EXCEPT ![req[p].token] = "used"]
    /\ sess' = WithNew(p, s, req[p].key, req[p].dev)
    /\ locked' = FALSE
    /\ End(p)
    /\ UNCHANGED ready

\* upgrade_recovery_session, which also clears the lock of the site.
RecoveryCommit(p, s) ==
    /\ req[p].op = "register" /\ req[p].step = "commit" /\ Recovering(p)
    /\ sess[s] = NoEntry
    /\ passkey' = [passkey EXCEPT ![req[p].key] = "active"]
    /\ token' = [token EXCEPT ![req[p].token] = "used"]
    /\ sess' = WithNew(p, s, req[p].key, sess[req[p].sess].dev)
    /\ locked' = FALSE
    /\ End(p)
    /\ UNCHANGED ready

-----------------------------------------------------------------------------
(* Revoking a passkey.                                                     *)

\* The caller, the passkey and the number of active ones, without a lock.
RevokeCheck(p, s, k) ==
    /\ Valid(s) /\ sess[s].key # NoKey
    /\ passkey[k] = "active" /\ Cardinality(Active) > 1
    /\ Begin(p, [Idle EXCEPT !.op = "revoke", !.step = "flush", !.key = k])
    /\ UNCHANGED <<ready, locked, passkey, token, sess>>

\* The passkey row is written, then its sessions are read.
RevokeFlush(p) ==
    /\ req[p].step = "flush"
    /\ Take(p, {req[p].key}, {s \in Live : sess[s].key = req[p].key}, "commit")
    /\ UNCHANGED <<ready, locked, passkey, token, sess>>

RevokeCommit(p) ==
    /\ req[p].op = "revoke" /\ req[p].step = "commit"
    /\ passkey' = [passkey EXCEPT ![req[p].key] = "revoked"]
    /\ sess' = Ended(p)
    /\ End(p)
    /\ UNCHANGED <<ready, locked, token>>

-----------------------------------------------------------------------------
(* The operator's commands; each locks the site row first.                 *)

\* The first step of a command after the site row.
FirstStep(op) ==
    CASE op \in {"init", "recover"} -> "issue"
      [] op = "reset" -> "keys"
      [] op \in {"lock", "end_all"} -> "sessions"
      [] op = "unlock" -> "commit"

Command(p, op) ==
    /\ ready = (op # "init")
    /\ Free(p, {Site})
    /\ Begin(p, [Idle EXCEPT !.op = op, !.step = FirstStep(op), !.locks = {Site}])
    /\ UNCHANGED <<ready, locked, passkey, token, sess>>

\* reset_credentials: the active passkeys are revoked ...
ResetKeys(p) ==
    /\ req[p].step = "keys"
    /\ Take(p, Active, {}, "sessions")
    /\ UNCHANGED <<ready, locked, passkey, token, sess>>

\* ... revoke_user_sessions ...
RevokeSessions(p) ==
    /\ req[p].step = "sessions"
    /\ Take(p, {}, Live, IF req[p].op = "reset" THEN "issue" ELSE "commit")
    /\ UNCHANGED <<ready, locked, passkey, token, sess>>

\* Mutant: the unspent credentials are left alone.
IssueRecovery_KeepOpen(p, r) ==
    /\ req[p].step = "issue" /\ token[r] = "none"
    /\ req' = [req EXCEPT ![p].token = r, ![p].step = "commit"]
    /\ UNCHANGED <<ready, locked, passkey, token, sess>>

\* ... _issue_recovery: the unspent credentials are revoked, a new one is made.
IssueRecovery(p, r) ==
    /\ req[p].step = "issue" /\ token[r] = "none" /\ Free(p, Unspent)
    /\ req' = [req EXCEPT ![p].token = r, ![p].locks = @ \cup Unspent,
                          ![p].step = "commit"]
    /\ UNCHANGED <<ready, locked, passkey, token, sess>>

CommandCommit(p) ==
    /\ req[p].op \in Commands
    /\ req[p].step = "commit"
    /\ ready' = TRUE
    /\ locked' = CASE req[p].op = "lock" -> TRUE
                   [] req[p].op = "unlock" -> FALSE
                   [] OTHER -> locked
    /\ passkey' = [k \in Passkey |-> IF k \in req[p].locks THEN "revoked" ELSE passkey[k]]
    /\ token' = [t \in Token |-> IF t = req[p].token THEN "open"
                                 ELSE IF t \in req[p].locks THEN "revoked" ELSE token[t]]
    /\ sess' = Ended(p)
    /\ End(p)

-----------------------------------------------------------------------------
\* A request fails, its client goes away, or it loses a deadlock.
Rollback(p) ==
    /\ req[p] # Idle
    /\ End(p)
    /\ UNCHANGED <<ready, locked, passkey, token, sess>>

Login(p) ==
    \/ \E k \in Passkey, c \in Authentication, d \in Device : LoginCheck(p, k, c, d)
    \/ \E r \in Recovery, d \in Device : RecoveryCheck(p, r, d)
    \/ TakeDevice(p)
    \/ \E s \in Session : LoginCommit(p, s)

Register(p) ==
    \/ \E s \in Session : RegisterCheck(p, s)
    \/ \E c \in Registration, k \in Passkey : RegisterPasskey(p, c, k)
    \/ TakeSite(p) \/ RegisterCommit(p)
    \/ \E s \in Session : RecoveryCommit(p, s)

Revoke(p) ==
    \/ \E s \in Session, k \in Passkey : RevokeCheck(p, s, k)
    \/ RevokeFlush(p) \/ RevokeCommit(p)

Operate(p) ==
    \/ \E op \in Commands : Command(p, op)
    \/ ResetKeys(p) \/ RevokeSessions(p)
    \/ \E r \in Recovery : IssueRecovery(p, r)
    \/ CommandCommit(p)

Next ==
    \/ \E c \in Authentication : AuthenticationOptions(c)
    \/ \E s \in Session, c \in Registration : RegistrationOptions(s, c)
    \/ \E p \in Req, c \in Challenge : InvalidResponse(p, c)
    \/ \E t \in Token : Expire(t)
    \/ \E s \in Session : Logout(s)
    \/ \E p \in Req : Login(p) \/ Register(p) \/ Revoke(p) \/ Operate(p) \/ Rollback(p)

Spec == Init /\ [][Next]_vars

-----------------------------------------------------------------------------
(* Properties.                                                             *)

\* No session of a passkey is live once the passkey is revoked, by the
\* administrator or by a reset, however a login with it overlaps
\* (revoke_passkey, reset_credentials, verify_authentication).
RevokedPasskeyHasNoLiveSession ==
    \A s \in Live : sess[s].key # NoKey => passkey[sess[s].key] = "active"

\* A challenge or a recovery credential opens at most one session, also when it
\* is presented twice at the same time (_challenge, login).
TokenOpensOneSession ==
    \A s, t \in Session : sess[s].token = sess[t].token /\ sess[s] # NoEntry => s = t

\* At most one recovery credential can be used (_issue_recovery).
OneOpenRecovery == \A r, s \in Open : r = s

\* Two logins, with a passkey or a recovery credential, never leave two live
\* sessions on one device, although they lock different credentials: each writes
\* the device before it reads the sessions to revoke (_admin_device,
\* revoke_device_sessions).
OneLoginPerDevice ==
    \A s, t \in Live : /\ sess[s].dev = sess[t].dev
                       /\ {sess[s].token, sess[t].token} \cap Registration = {}
                       => s = t

\* Once there is a passkey one stays, unless the operator resets the credentials
\* (revoke_passkey counts the active passkeys before it revokes one).
LastPasskeyStays ==
    [][Active # {} /\ Active' = {} =>
         \E p \in Req : CommandCommit(p) /\ req[p].op = "reset"]_vars
=============================================================================
