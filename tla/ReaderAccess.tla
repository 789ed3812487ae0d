---------------------------- MODULE ReaderAccess ----------------------------
(***************************************************************************)
(* Access of the readers of a novel-platform site: access credentials,     *)
(* the devices a credential authorises, sessions and rotating refresh      *)
(* tokens.  Each HTTP request runs one PostgreSQL transaction (READ        *)
(* COMMITTED).  The variables cred, dev, sess and tok are the COMMITTED    *)
(* rows; req is what every open transaction has read, the rows it has      *)
(* locked and the rows its current statement waits for.  The writes of a   *)
(* transaction appear all at once, in its commit action.                   *)
(*                                                                         *)
(* Two simplifications keep the granularity at row locks:                  *)
(*   - statements between which no other transaction can change what the   *)
(*     later one does are one action;                                      *)
(*   - a request that is refused without a change of these tables (a wrong *)
(*     secret, an unknown or revoked token, a full device list, a 404 or   *)
(*     a 409) is a stuttering step and has no action.                      *)
(***************************************************************************)
EXTENDS Integers, FiniteSets

CONSTANTS
    Reader,     \* users with role member
    Cred,       \* ids of reader_access_credentials rows
    Dev,        \* ids of devices rows
    Sess,       \* ids of auth_sessions rows
    Tok,        \* ids of refresh_tokens rows
    Req,        \* request handlers that can be open at the same time
    NoReader, NoCred, NoDev, NoSess, NoTok,
    MaxClock,   \* bound: the clock stops here
    TTL,        \* settings.auth_refresh_token_ttl_days, in ticks
    Limits      \* the values an administrator gives max_devices

Time == 0 .. MaxClock + 1      \* MaxClock + 1 does not pass within the run

ASSUME ReaderAccessAssumption ==
    /\ MaxClock \in Nat /\ TTL \in Nat \ {0}
    /\ Limits \subseteq Nat \ {0}
    /\ NoReader \notin Reader /\ NoCred \notin Cred /\ NoDev \notin Dev
    /\ NoSess \notin Sess /\ NoTok \notin Tok
    /\ Cred \cap Dev = {} /\ Cred \cap Sess = {} /\ Cred \cap Tok = {}
    /\ Dev \cap Sess = {} /\ Dev \cap Tok = {} /\ Sess \cap Tok = {}

VARIABLES
    cred,       \* reader_access_credentials
    dev,        \* devices
    sess,       \* auth_sessions
    tok,        \* refresh_tokens
    req,        \* open transactions
    clock

vars == <<cred, dev, sess, tok, req, clock>>
tables == <<cred, dev, sess, tok>>

CredStatus == {"none", "active", "suspended", "revoked"}
Ops == {"none", "login", "suspend", "revoke", "reissue", "update",
        "revokeDevice", "revokeSessions", "rotate"}
Steps == {"idle", "read", "device", "tokens", "sessions", "sweep",
          "sweepTokens", "commit"}
Row == Cred \cup Dev \cup Sess \cup Tok

Credential == [owner : Reader \cup {NoReader}, status : CredStatus,
               expires : Time, max : Nat, allow : BOOLEAN]
Device == [cred : Cred \cup {NoCred}, revoked : BOOLEAN]
Session == [dev : Dev \cup {NoDev}, cred : Cred \cup {NoCred},
            expires : Time, revoked : BOOLEAN]
RefreshToken == [sess : Sess \cup {NoSess}, used : BOOLEAN, revoked : BOOLEAN]
Request == [op : Ops, step : Steps, reader : Reader \cup {NoReader},
            cred : Cred \cup {NoCred}, dev : Dev \cup {NoDev},
            tok : Tok \cup {NoTok}, expires : Time,
            todo : SUBSET Sess, wait : SUBSET Row, held : SUBSET Row]

Idle == [op |-> "none", step |-> "idle", reader |-> NoReader, cred |-> NoCred,
         dev |-> NoDev, tok |-> NoTok, expires |-> 0,
         todo |-> {}, wait |-> {}, held |-> {}]

TypeOK ==
    /\ cred \in [Cred -> Credential]
    /\ dev \in [Dev -> Device]
    /\ sess \in [Sess -> Session]
    /\ tok \in [Tok -> RefreshToken]
    /\ req \in [Req -> Request]
    /\ clock \in 0 .. MaxClock

Init ==
    /\ cred = [c \in Cred |-> [owner |-> NoReader, status |-> "none",
                               expires |-> 0, max |-> 1, allow |-> FALSE]]
    /\ dev = [d \in Dev |-> [cred |-> NoCred, revoked |-> FALSE]]
    /\ sess = [s \in Sess |-> [dev |-> NoDev, cred |-> NoCred,
                               expires |-> 0, revoked |-> FALSE]]
    /\ tok = [t \in Tok |-> [sess |-> NoSess, used |-> FALSE, revoked |-> FALSE]]
    /\ req = [p \in Req |-> Idle]
    /\ clock = 0

-----------------------------------------------------------------------------
(* Rows.                                                                   *)

FreshCred == {c \in Cred : cred[c].status = "none"}
FreshDev == {d \in Dev : dev[d].cred = NoCred}
FreshSess == {s \in Sess : sess[s].dev = NoDev}
FreshTok == {t \in Tok : tok[t].sess = NoSess}

\* The non-revoked credential of a reader, if it has one.
CurrentCreds(r) ==
    {c \in Cred : cred[c].owner = r /\ cred[c].status \in {"active", "suspended"}}

ActiveDevices(c) == {d \in Dev : dev[d].cred = c /\ ~dev[d].revoked}

LiveSessionsOfCred(c) == {s \in Sess : sess[s].cred = c /\ ~sess[s].revoked}
\* Mutant: only the sessions that expired anyway.
LiveSessionsOfDevice_Expired(d) ==
    {s \in Sess : sess[s].dev = d /\ ~sess[s].revoked /\ sess[s].expires <= clock}
LiveSessionsOfDevice(d) == {s \in Sess : sess[s].dev = d /\ ~sess[s].revoked}
LiveTokens(S) == {t \in Tok : tok[t].sess \in S /\ ~tok[t].revoked}
SessionsOfDevice(d) == {s \in Sess : sess[s].dev = d}

\* Row locks: no other open transaction holds one of the rows.
Free(p, rows) == \A q \in Req \ {p} : req[q].held \cap rows = {}

\* Mutant: the row is read without FOR UPDATE.
LoginRow_NoLock(p, c) == TRUE

\* SELECT ... FOR UPDATE of the credential row a login presents.
LoginRow(p, c) == Free(p, {c})

\* Mutant: the row is read without FOR UPDATE.
RefreshRow_NoLock(p, t) == TRUE

\* SELECT ... FOR UPDATE of the refresh token a refresh presents.
RefreshRow(p, t) == Free(p, {t})

ReaderCredentialValid(c, now) ==
    cred[c].status = "active" /\ cred[c].expires > now

\* The device whose secret cookie came with the login, when it may be reused.
PresentedDevice(c, d) == d \in ActiveDevices(c)

\* What every protected request and every refresh demands of a session.
ActiveContext(s) ==
    LET d == sess[s].dev
        c == sess[s].cred
    IN  /\ s \notin FreshSess
        /\ ~sess[s].revoked /\ sess[s].expires > clock
        /\ ~dev[d].revoked
        /\ cred[c].status = "active" /\ cred[c].expires > clock
        /\ dev[d].cred = c

\* Mutant: the credential's expiry does not cap the session's.
Earlier_NoCap(a, b) == b
Earlier(a, b) == IF a < b THEN a ELSE b

-----------------------------------------------------------------------------
(* Transactions.                                                           *)

\* Bound: a request that will insert a row starts only while the instance has
\* an unused id for it and for every other open request.
Room(fresh) == Cardinality(fresh) > Cardinality({q \in Req : req[q].op # "none"})

Move(p, r) == req' = [req EXCEPT ![p] = r]

Begin(p, r) == req[p].op = "none" /\ Move(p, r)

Close(p) == Move(p, Idle)

\* UPDATE ... SET revoked_at of the sessions and tokens the transaction locked.
RevokeHeld(p) ==
    /\ sess' = [s \in Sess |-> IF s \in req[p].held
                               THEN [sess[s] EXCEPT !.revoked = TRUE] ELSE sess[s]]
    /\ tok' = [t \in Tok |-> IF t \in req[p].held
                             THEN [tok[t] EXCEPT !.revoked = TRUE] ELSE tok[t]]

-----------------------------------------------------------------------------
(* Statements in the middle of a transaction.                              *)

\* The device row is updated (revoked_at of a revocation, last_seen_at of a
\* login with a known device); the UPDATE of the tokens then chooses its rows.
DeviceLock(p) ==
    LET d == req[p].dev
    IN  /\ req[p].step = "device"
        /\ Free(p, {d})
        /\ Move(p, [req[p] EXCEPT !.step = "tokens",
                                  !.held = @ \cup {d},
                                  !.wait = LiveTokens(SessionsOfDevice(d))])
        /\ UNCHANGED <<tables, clock>>

\* The UPDATE of the tokens has its rows; the UPDATE of the sessions chooses.
TokensLock(p) ==
    /\ req[p].step = "tokens"
    /\ Free(p, req[p].wait)
    /\ Move(p, [req[p] EXCEPT !.step = "sessions",
                              !.held = @ \cup req[p].wait,
                              !.wait = LiveSessionsOfDevice(req[p].dev)])
    /\ UNCHANGED <<tables, clock>>

SessionsLock(p) ==
    /\ req[p].step = "sessions"
    /\ Free(p, req[p].wait)
    /\ Move(p, [req[p] EXCEPT !.step = "commit",
                              !.held = @ \cup req[p].wait,
                              !.wait = {}])
    /\ UNCHANGED <<tables, clock>>

\* revoke_session in the loop over the sessions read before: the session row
\* is updated, then the UPDATE of its tokens chooses its rows and waits.
SweepSession(p, s) ==
    /\ req[p].step = "sweep"
    /\ s \in req[p].todo
    /\ Free(p, {s})
    /\ Move(p, [req[p] EXCEPT !.step = "sweepTokens",
                              !.todo = @ \ {s},
                              !.held = @ \cup {s},
                              !.wait = LiveTokens({s})])
    /\ UNCHANGED <<tables, clock>>

SweepTokens(p) ==
    /\ req[p].step = "sweepTokens"
    /\ Free(p, req[p].wait)
    /\ Move(p, [req[p] EXCEPT !.step = "sweep",
                              !.held = @ \cup req[p].wait,
                              !.wait = {}])
    /\ UNCHANGED <<tables, clock>>

\* A transaction that revoked sessions one by one is ready to commit.
SweepDone(p, op) == /\ req[p].op = op
                    /\ req[p].step = "sweep"
                    /\ req[p].todo = {}

-----------------------------------------------------------------------------
(* credential_login.  "now" was read when the request arrived, before it   *)
(* waited for the credential row.                                          *)

LoginKnownDevice(p, c, d, now) ==
    /\ Room(FreshSess) /\ Room(FreshTok)
    /\ LoginRow(p, c)
    /\ ReaderCredentialValid(c, now)
    /\ PresentedDevice(c, d)
    /\ Begin(p, [Idle EXCEPT !.op = "login", !.step = "device", !.cred = c,
                             !.dev = d, !.held = {c},
                             !.expires = Earlier(cred[c].expires, now + TTL)])
    /\ UNCHANGED <<tables, clock>>

\* No reusable device secret was presented: a new device, within the limit.
LoginNewDevice(p, c, now) ==
    /\ Room(FreshSess) /\ Room(FreshTok) /\ Room(FreshDev)
    /\ LoginRow(p, c)
    /\ ReaderCredentialValid(c, now)
    /\ cred[c].allow
    /\ Cardinality(ActiveDevices(c)) < cred[c].max
    /\ Begin(p, [Idle EXCEPT !.op = "login", !.step = "commit", !.cred = c,
                             !.held = {c},
                             !.expires = Earlier(cred[c].expires, now + TTL)])
    /\ UNCHANGED <<tables, clock>>

\* _new_session: the rows a successful login leaves.
LoginCommit(p, d, s, t) ==
    LET r == req[p]
    IN  /\ r.op = "login" /\ r.step = "commit"
        /\ IF r.dev = NoDev THEN d \in FreshDev ELSE d = r.dev
        /\ s \in FreshSess /\ t \in FreshTok
        /\ dev' = [dev EXCEPT ![d].cred = r.cred]
        /\ sess' = [[x \in Sess |-> IF x \in r.held
                                    THEN [sess[x] EXCEPT !.revoked = TRUE]
                                    ELSE sess[x]]
                    EXCEPT ![s] = [dev |-> d, cred |-> r.cred,
                                   expires |-> r.expires, revoked |-> FALSE]]
        /\ tok' = [[x \in Tok |-> IF x \in r.held
                                  THEN [tok[x] EXCEPT !.revoked = TRUE]
                                  ELSE tok[x]]
                   EXCEPT ![t] = [sess |-> s, used |-> FALSE, revoked |-> FALSE]]
        /\ Close(p)
        /\ UNCHANGED <<cred, clock>>

-----------------------------------------------------------------------------
(* refresh.  The request presents token t and the secret of its device.    *)

RefreshStart(p, t, d) ==
    /\ RefreshRow(p, t)
    /\ tok[t].sess # NoSess
    /\ d = sess[tok[t].sess].dev /\ ~dev[d].revoked

\* The token was already exchanged: the whole session is revoked.
RefreshReuse(p, t, d) ==
    /\ RefreshStart(p, t, d)
    /\ tok[t].used
    /\ Begin(p, [Idle EXCEPT !.op = "revokeSessions", !.step = "sweep",
                             !.held = {t}, !.todo = {tok[t].sess}])
    /\ UNCHANGED <<tables, clock>>

RefreshExpired(p, t, d) ==
    /\ RefreshStart(p, t, d)
    /\ req[p].op = "none"
    /\ ~tok[t].used
    /\ sess[tok[t].sess].expires <= clock
    /\ tok' = [tok EXCEPT ![t].revoked = TRUE]
    /\ UNCHANGED <<cred, dev, sess, req, clock>>

RefreshRotate(p, t, d) ==
    /\ Room(FreshTok)
    /\ RefreshStart(p, t, d)
    /\ ~tok[t].used /\ ~tok[t].revoked
    /\ ActiveContext(tok[t].sess)
    /\ Begin(p, [Idle EXCEPT !.op = "rotate", !.step = "commit",
                             !.dev = d, !.tok = t, !.held = {t}])
    /\ UNCHANGED <<tables, clock>>

\* Mutant: a refresh does not write the session and device rows.
RotateRows_None(p) == {}

\* The flush at commit updates last_seen_at of the session and of the device.
RotateRows(p) == {tok[req[p].tok].sess, req[p].dev}

RotateCommit(p, t) ==
    /\ req[p].op = "rotate"
    /\ Free(p, RotateRows(p))
    /\ t \in FreshTok
    /\ tok' = [tok EXCEPT ![req[p].tok].used = TRUE,
                          ![t] = [sess |-> tok[req[p].tok].sess,
                                  used |-> FALSE, revoked |-> FALSE]]
    /\ Close(p)
    /\ UNCHANGED <<cred, dev, sess, clock>>

-----------------------------------------------------------------------------
(* Revocations a reader asks for: logout, revoke_session, revoke_others,   *)
(* revoke_device; and the administrator's revoke_all_sessions.             *)

RevokeSession(p, s) ==
    /\ s \notin FreshSess
    /\ Begin(p, [Idle EXCEPT !.op = "revokeSessions", !.step = "sweep", !.todo = {s}])
    /\ UNCHANGED <<tables, clock>>

RevokeOtherSessions(p, s) ==
    /\ ActiveContext(s)
    /\ Begin(p, [Idle EXCEPT !.op = "revokeSessions", !.step = "sweep",
                 !.todo = {x \in Sess \ {s} :
                               /\ x \notin FreshSess /\ ~sess[x].revoked
                               /\ cred[sess[x].cred].owner = cred[sess[s].cred].owner}])
    /\ UNCHANGED <<tables, clock>>

RevokeAllSessions(p, c) ==
    /\ cred[c].status \in {"active", "suspended"}
    /\ Begin(p, [Idle EXCEPT !.op = "revokeSessions", !.step = "sweep",
                             !.todo = LiveSessionsOfCred(c)])
    /\ UNCHANGED <<tables, clock>>

RevokeSessionsCommit(p) ==
    /\ SweepDone(p, "revokeSessions")
    /\ RevokeHeld(p)
    /\ Close(p)
    /\ UNCHANGED <<cred, dev, clock>>

RevokeDevice(p, d) ==
    /\ d \notin FreshDev
    /\ Begin(p, [Idle EXCEPT !.op = "revokeDevice", !.step = "device", !.dev = d])
    /\ UNCHANGED <<tables, clock>>

RevokeDeviceCommit(p) ==
    /\ req[p].op = "revokeDevice" /\ req[p].step = "commit"
    /\ dev' = [dev EXCEPT ![req[p].dev].revoked = TRUE]
    /\ RevokeHeld(p)
    /\ Close(p)
    /\ UNCHANGED <<cred, clock>>

-----------------------------------------------------------------------------
(* Operations of the administrator on a reader's credential.               *)

NewCredential(r, e, m, a) ==
    [owner |-> r, status |-> "active", expires |-> e, max |-> m, allow |-> a]

\* create_reader: a user without any credential, and its first credential.
CreateReader(r, c, e, m, a) ==
    /\ \A x \in Cred : cred[x].owner # r
    /\ c \in FreshCred /\ e > clock /\ m \in Limits
    /\ cred' = [cred EXCEPT ![c] = NewCredential(r, e, m, a)]
    /\ UNCHANGED <<dev, sess, tok, req, clock>>

\* Mutant: the row is read without FOR UPDATE.
CurrentForUpdate_NoLock(p, c) == cred[c].status \in {"active", "suspended"}

\* _current_for_update: the current credential of the reader, read under its
\* row lock (PostgreSQL evaluates status <> 'revoked' again after the wait).
CurrentForUpdate(p, c) ==
    /\ Free(p, {c})
    /\ cred[c].status \in {"active", "suspended"}

SuspendLock(p, c) ==
    /\ CurrentForUpdate(p, c)
    /\ Begin(p, [Idle EXCEPT !.op = "suspend", !.step = "sweep", !.cred = c,
                             !.held = {c}, !.todo = LiveSessionsOfCred(c)])
    /\ UNCHANGED <<tables, clock>>

SuspendCommit(p) ==
    /\ SweepDone(p, "suspend")
    /\ cred' = [cred EXCEPT ![req[p].cred].status = "suspended"]
    /\ RevokeHeld(p)
    /\ Close(p)
    /\ UNCHANGED <<dev, clock>>

\* Nothing is read or written after the row lock but the row itself.
Resume(p, c) ==
    /\ req[p].op = "none"
    /\ CurrentForUpdate(p, c)
    /\ cred[c].status = "suspended"
    /\ cred' = [cred EXCEPT ![c].status = "active"]
    /\ UNCHANGED <<dev, sess, tok, req, clock>>

RevokeLock(p, c) ==
    /\ CurrentForUpdate(p, c)
    /\ Begin(p, [Idle EXCEPT !.op = "revoke", !.step = "sweep", !.cred = c,
                             !.held = {c}, !.todo = LiveSessionsOfCred(c)])
    /\ UNCHANGED <<tables, clock>>

\* The devices of a credential, revoked by one UPDATE of _revoke_credential.
DevicesRevoked(c) ==
    [d \in Dev |-> IF dev[d].cred = c THEN [dev[d] EXCEPT !.revoked = TRUE] ELSE dev[d]]

RevokeCommit(p) ==
    /\ SweepDone(p, "revoke")
    /\ Free(p, ActiveDevices(req[p].cred))
    /\ cred' = [cred EXCEPT ![req[p].cred].status = "revoked"]
    /\ dev' = DevicesRevoked(req[p].cred)
    /\ RevokeHeld(p)
    /\ Close(p)
    /\ UNCHANGED clock

\* reissue reads the current credential without a lock ...
ReissueRead(p, r, e) ==
    /\ Room(FreshCred)
    /\ \E x \in Cred : cred[x].owner = r
    /\ e > clock
    /\ \/ \E c \in CurrentCreds(r) :
            Begin(p, [Idle EXCEPT !.op = "reissue", !.step = "read",
                                  !.reader = r, !.cred = c, !.expires = e])
       \/ /\ CurrentCreds(r) = {}
          /\ Begin(p, [Idle EXCEPT !.op = "reissue", !.step = "sweep",
                                   !.reader = r, !.expires = e])
    /\ UNCHANGED <<tables, clock>>

\* ... and its first UPDATE of that credential takes the row lock.
ReissueLock(p) ==
    LET c == req[p].cred
    IN  /\ req[p].op = "reissue" /\ req[p].step = "read"
        /\ Free(p, {c})
        /\ Move(p, [req[p] EXCEPT !.step = "sweep", !.held = {c},
                                  !.todo = LiveSessionsOfCred(c)])
        /\ UNCHANGED <<tables, clock>>

\* uq_reader_access_credentials_current: the insert of a second non-revoked
\* credential of the reader fails, and the transaction rolls back (Rollback).
ReissueCommit(p, n, m, a) ==
    LET c == req[p].cred
        r == req[p].reader
    IN  /\ SweepDone(p, "reissue")
        /\ Free(p, ActiveDevices(c))
        /\ n \in FreshCred /\ m \in Limits
        /\ CurrentCreds(r) \subseteq {c}
        /\ cred' = [x \in Cred |->
                      IF x = n THEN NewCredential(r, req[p].expires, m, a)
                      ELSE IF x = c THEN [cred[x] EXCEPT !.status = "revoked"]
                      ELSE cred[x]]
        /\ dev' = IF c = NoCred THEN dev ELSE DevicesRevoked(c)
        /\ RevokeHeld(p)
        /\ Close(p)
        /\ UNCHANGED clock

\* update_reader reads the current credential without a lock and validates;
\* e is the expiry the row will have (the present one when it is not set).
UpdateRead(p, c, e) ==
    /\ cred[c].status \in {"active", "suspended"}
    /\ Begin(p, [Idle EXCEPT !.op = "update", !.cred = c, !.expires = e,
                             !.step = IF e <= clock THEN "read" ELSE "commit"])
    /\ UNCHANGED <<tables, clock>>

\* Mutant: the whole row is written back as it was read.
UpdateFields_WholeRow(c, e, m, a) ==
    [cred EXCEPT ![c].expires = e, ![c].max = m, ![c].allow = a, ![c].status = "active"]

UpdateFields(c, e, m, a) ==
    [cred EXCEPT ![c].expires = e, ![c].max = m, ![c].allow = a]

\* Mutant: the update waits for the credential to be current again.
UpdateCommit_OnlyCurrent(p, m, a) ==
    LET c == req[p].cred
    IN  /\ req[p].op = "update" /\ req[p].step = "commit"
        /\ Free(p, {c})
        /\ cred[c].status # "revoked"
        /\ m \in Limits
        /\ cred' = UpdateFields(c, req[p].expires, m, a)
        /\ Close(p)
        /\ UNCHANGED <<dev, sess, tok, clock>>

UpdateCommit(p, m, a) ==
    LET c == req[p].cred
    IN  /\ req[p].op = "update" /\ req[p].step = "commit"
        /\ Free(p, {c})
        /\ m \in Limits
        /\ cred' = UpdateFields(c, req[p].expires, m, a)
        /\ Close(p)
        /\ UNCHANGED <<dev, sess, tok, clock>>

\* The new expiry is not in the future: the sessions are revoked as well.
ExpireLock(p) ==
    LET c == req[p].cred
    IN  /\ req[p].op = "update" /\ req[p].step = "read"
        /\ Free(p, {c})
        /\ Move(p, [req[p] EXCEPT !.step = "sweep", !.held = {c},
                                  !.todo = LiveSessionsOfCred(c)])
        /\ UNCHANGED <<tables, clock>>

ExpireCommit(p, m, a) ==
    /\ SweepDone(p, "update")
    /\ m \in Limits
    /\ cred' = UpdateFields(req[p].cred, req[p].expires, m, a)
    /\ RevokeHeld(p)
    /\ Close(p)
    /\ UNCHANGED <<dev, clock>>

-----------------------------------------------------------------------------
(* Failure and time.                                                       *)

\* An open transaction ends without effect: a lost connection, a crash of the
\* server, an IntegrityError, or the choice of PostgreSQL's deadlock detector.
Rollback(p) ==
    /\ req[p].op # "none"
    /\ Close(p)
    /\ UNCHANGED <<tables, clock>>

Tick == /\ clock < MaxClock
        /\ clock' = clock + 1
        /\ UNCHANGED <<tables, req>>

-----------------------------------------------------------------------------
(* The specification.                                                      *)

Login(p) ==
    \/ \E c \in Cred, now \in 0 .. clock :
         \/ \E d \in Dev : LoginKnownDevice(p, c, d, now)
         \/ LoginNewDevice(p, c, now)
    \/ \E d \in Dev, s \in Sess, t \in Tok : LoginCommit(p, d, s, t)

Refresh(p) ==
    \/ \E t \in Tok, d \in Dev : \/ RefreshReuse(p, t, d)
                                 \/ RefreshExpired(p, t, d)
                                 \/ RefreshRotate(p, t, d)
    \/ \E t \in Tok : RotateCommit(p, t)

Revocation(p) ==
    \/ \E s \in Sess : RevokeSession(p, s) \/ RevokeOtherSessions(p, s)
    \/ \E c \in Cred : RevokeAllSessions(p, c)
    \/ RevokeSessionsCommit(p)
    \/ \E d \in Dev : RevokeDevice(p, d)
    \/ RevokeDeviceCommit(p)

Lifecycle(p) ==
    \/ \E c \in Cred : SuspendLock(p, c) \/ Resume(p, c) \/ RevokeLock(p, c)
    \/ SuspendCommit(p)
    \/ RevokeCommit(p)
    \/ \E r \in Reader, e \in Time : ReissueRead(p, r, e)
    \/ ReissueLock(p)
    \/ \E n \in Cred, m \in Limits, a \in BOOLEAN : ReissueCommit(p, n, m, a)

Update(p) ==
    \/ \E c \in Cred, e \in Time : UpdateRead(p, c, e)
    \/ ExpireLock(p)
    \/ \E m \in Limits, a \in BOOLEAN : UpdateCommit(p, m, a) \/ ExpireCommit(p, m, a)

Statement(p) ==
    \/ DeviceLock(p) \/ TokensLock(p) \/ SessionsLock(p)
    \/ \E s \in Sess : SweepSession(p, s)
    \/ SweepTokens(p)

Next ==
    \/ \E p \in Req : \/ Login(p) \/ Refresh(p) \/ Revocation(p)
                      \/ Lifecycle(p) \/ Update(p) \/ Statement(p) \/ Rollback(p)
    \/ \E r \in Reader, c \in Cred, e \in Time, m \in Limits, a \in BOOLEAN :
         CreateReader(r, c, e, m, a)
    \/ Tick

Spec == Init /\ [][Next]_vars

\* The rows the next statement of an open transaction locks.
Wants(p) ==
    LET r == req[p]
    IN  CASE r.step = "device" -> {r.dev}
          [] r.step \in {"tokens", "sessions", "sweepTokens"} -> r.wait
          [] r.step = "read" -> {r.cred}
          [] r.step = "sweep" /\ r.todo # {} -> r.todo
          [] r.step = "sweep" /\ r.op \in {"revoke", "reissue"} -> ActiveDevices(r.cred)
          [] r.op = "rotate" -> RotateRows(p)
          [] r.op = "update" /\ r.step = "commit" -> {r.cred}
          [] OTHER -> {}

\* q waits: for a sweep, no session row it still has to update is free.
Waiting(q) ==
    IF req[q].step = "sweep" /\ req[q].todo # {}
    THEN \A s \in req[q].todo : ~Free(q, {s})
    ELSE ~Free(q, Wants(q))

\* PostgreSQL finds the transactions that wait for each other in a circle.
Deadlocked(p) ==
    \E Q \in SUBSET Req :
        /\ p \in Q
        /\ \A q \in Q : /\ Waiting(q)
                        /\ \E x \in Q \ {q} : req[x].held \cap Wants(q) # {}

DeadlockVictim(p) == Deadlocked(p) /\ Rollback(p)

\* What an open transaction does next.
Progress(p) ==
    \/ Statement(p)
    \/ \E d \in Dev, s \in Sess, t \in Tok : LoginCommit(p, d, s, t)
    \/ \E t \in Tok : RotateCommit(p, t)
    \/ RevokeSessionsCommit(p) \/ RevokeDeviceCommit(p)
    \/ SuspendCommit(p) \/ RevokeCommit(p)
    \/ ReissueLock(p)
    \/ \E n \in Cred, m \in Limits, a \in BOOLEAN : ReissueCommit(p, n, m, a)
    \/ ExpireLock(p)
    \/ \E m \in Limits, a \in BOOLEAN : UpdateCommit(p, m, a) \/ ExpireCommit(p, m, a)

\* The insert of a second current credential is refused (unique index).
ReissueRefused(p) ==
    /\ SweepDone(p, "reissue")
    /\ ~(CurrentCreds(req[p].reader) \subseteq {req[p].cred})
    /\ Rollback(p)

\* A handler keeps executing; a waiting transaction gets its row when it is
\* released again and again (row locks are queued); deadlocks are broken.
Fairness == \A p \in Req : /\ SF_vars(Progress(p))
                           /\ WF_vars(DeadlockVictim(p))
                           /\ WF_vars(ReissueRefused(p))

FairSpec == Spec /\ Fairness

-----------------------------------------------------------------------------
(* Properties.                                                             *)

\* While a credential is suspended or revoked every session established with
\* it is revoked.  A login that is in flight when the administrator suspends
\* must not leave a session behind: resume makes the credential active again
\* without touching sessions, and would bring that session back to life.
InactiveCredentialHasNoLiveSession ==
    \A s \in Sess : \A c \in Cred :
        sess[s].cred = c /\ cred[c].status \in {"suspended", "revoked"}
            => sess[s].revoked

\* Revocation and reissue end the authorisation of every device of the old
\* credential, including one that a concurrent login was about to add.
RevokedCredentialHasNoActiveDevice ==
    \A c \in Cred : cred[c].status = "revoked" => ActiveDevices(c) = {}

\* A revoked session has no refresh token left that is not revoked: a refresh
\* that overlaps the revocation cannot slip a replacement token past it.
RevokedSessionHasNoLiveToken ==
    \A t \in Tok : \A s \in Sess :
        tok[t].sess = s /\ sess[s].revoked => tok[t].revoked

\* Refresh tokens rotate once: a session never has two tokens that a refresh
\* would still exchange.
OneExchangeableToken ==
    \A t, u \in Tok :
        /\ tok[t].sess \in Sess /\ tok[t].sess = tok[u].sess
        /\ ~tok[t].used /\ ~tok[u].used
        => t = u

\* An explicit login on a device replaces its session, whatever overlaps it.
OneLiveSessionPerDevice ==
    \A s, u \in Sess :
        /\ sess[s].dev \in Dev /\ sess[s].dev = sess[u].dev
        /\ ~sess[s].revoked /\ ~sess[u].revoked
        => s = u

\* A step that authorises a new device leaves the credential within its
\* device limit (lowering the limit later may leave more devices than that).
DeviceLimitAtAuthorization ==
    [][\A c \in Cred : \A d \in FreshDev :
          d \in ActiveDevices(c)' => Cardinality(ActiveDevices(c)') <= cred[c].max]_vars

\* Revocation is final: of a credential, a device, a session, a token.
RevocationIsFinal ==
    [][/\ \A c \in Cred : cred[c].status = "revoked" => cred'[c].status = "revoked"
       /\ \A d \in Dev : dev[d].revoked => dev'[d].revoked
       /\ \A s \in Sess : sess[s].revoked => sess'[s].revoked
       /\ \A t \in Tok : tok[t].revoked => tok'[t].revoked]_vars

\* What docs/architecture.md says of expiry: "Reader Session and refresh expiry
\* never exceed credential expiry."
SessionWithinCredential ==
    \A s \in Sess : \A c \in Cred :
        sess[s].cred = c /\ ~sess[s].revoked => sess[s].expires <= cred[c].expires

\* Every request ends: the transactions take the rows of a session, its tokens
\* and its device in different orders (a refresh locks the token first, a
\* logout the session first), so they can wait for each other in a circle.
RequestsEnd == \A p \in Req : req[p].op # "none" ~> req[p].op = "none"

\* The devices that are authorised, and the sessions that may be used until they expire.
Trusted == {d \in Dev : dev[d].cred # NoCred /\ ~dev[d].revoked}
Open == {s \in Sess : sess[s].dev \in Trusted /\ ~sess[s].revoked}

\* The rows as AccessRights sees them.
Rights == INSTANCE AccessRights
    WITH owner <- [c \in Cred |-> cred[c].owner],
         status <- [c \in Cred |-> cred[c].status],
         holder <- [d \in Dev |-> dev[d].cred],
         trusted <- Trusted,
         place <- [s \in Sess |-> sess[s].dev],
         open <- Open

\* Each transaction of the two services, however long it waits for its locks and
\* whatever commits meanwhile, changes who may use what only by its COMMIT, and
\* that as the operation would in one step (AccessRights).
OperationsAreAtomic == Rights!RightsSpec
=============================================================================
