------------------------- MODULE ReaderAccessProofs -------------------------
(* Theorems about ReaderAccess for every number of readers, credentials,   *)
(* devices, sessions, tokens and open requests.                            *)
EXTENDS ReaderAccess, FiniteSetTheorems, TLAPS


LEMMA IdleIsRequest == Idle \in Request
  BY ReaderAccessAssumption DEF Idle, Request, Ops, Steps, Time, Row

\* What an open request looks like: the rows a step works on are known.
RequestShape(r) ==
  /\ r.op = "none" => r = Idle
  /\ r.step \in {"device", "tokens", "sessions"} => r.dev \in Dev
  /\ r.step = "read" => r.cred \in Cred
  /\ r.op \in {"login", "suspend", "revoke", "update"} => r.cred \in Cred
  /\ r.op = "revokeDevice" => r.dev \in Dev
  /\ r.op = "rotate" => r.tok \in Tok /\ tok[r.tok].sess \in Sess
  /\ r.op = "reissue" => r.reader \in Reader

Shape == \A p \in Req : RequestShape(req[p])

TypeInv == TypeOK /\ Shape

\* The initial rows and requests have their types.
LEMMA InitTypeInv == Init => TypeInv
  <1> SUFFICES ASSUME Init PROVE TypeInv
    OBVIOUS
  <1>1. 0 \in Time /\ 0 \in 0 .. MaxClock
    BY ReaderAccessAssumption DEF Time
  <1> QED
    BY <1>1, IdleIsRequest
    DEF Init, TypeInv, TypeOK, Shape, RequestShape, Idle, Credential, Device, Session, RefreshToken, CredStatus

-----------------------------------------------------------------------------
(* Type correctness.                                                       *)

\* A step that only moves a request on keeps the types.
LEMMA MoveType ==
  ASSUME TypeInv, NEW p \in Req, NEW r \in Request, RequestShape(r),
         Move(p, r), UNCHANGED <<tables, clock>>
  PROVE  TypeInv'
  BY DEF TypeInv, TypeOK, Shape, RequestShape, Move, tables

\* A step that ends a request with well-typed rows keeps the types.
LEMMA CloseType ==
  ASSUME TypeInv, NEW p \in Req, Close(p), UNCHANGED clock,
         cred' \in [Cred -> Credential], dev' \in [Dev -> Device],
         sess' \in [Sess -> Session], tok' \in [Tok -> RefreshToken],
         \A t \in Tok : tok[t].sess \in Sess => tok'[t].sess = tok[t].sess
  PROVE  TypeInv'
  <1>1. RequestShape(Idle)'
    BY DEF RequestShape, Idle
  <1> QED
    BY <1>1, IdleIsRequest DEF TypeInv, TypeOK, Shape, RequestShape, Close, Move

\* Revoking the locked rows keeps the two tables typed.
LEMMA RevokeHeldType ==
  ASSUME TypeOK, NEW p \in Req, RevokeHeld(p)
  PROVE  /\ sess' \in [Sess -> Session] /\ tok' \in [Tok -> RefreshToken]
         /\ \A t \in Tok : tok'[t].sess = tok[t].sess
  BY DEF TypeOK, RevokeHeld, Session, RefreshToken

\* The fields of a request have their types.
LEMMA RequestFields ==
  ASSUME TypeInv, NEW p \in Req
  PROVE  /\ req[p] \in Request
         /\ req[p].op \in Ops /\ req[p].step \in Steps
         /\ req[p].reader \in Reader \cup {NoReader}
         /\ req[p].cred \in Cred \cup {NoCred}
         /\ req[p].dev \in Dev \cup {NoDev}
         /\ req[p].tok \in Tok \cup {NoTok}
         /\ req[p].expires \in Time
         /\ req[p].todo \in SUBSET Sess
         /\ req[p].wait \in SUBSET Row /\ req[p].held \in SUBSET Row
         /\ RequestShape(req[p])
  BY DEF TypeInv, TypeOK, Shape, Request

\* The sets of rows a statement chooses are sets of rows.
LEMMA ChosenRows ==
  /\ \A S : LiveTokens(S) \in SUBSET Row
  /\ \A d : LiveSessionsOfDevice(d) \in SUBSET Row
  /\ \A c : LiveSessionsOfCred(c) \in SUBSET Sess
  BY DEF LiveTokens, LiveSessionsOfDevice, LiveSessionsOfCred, Row

\* The statements in the middle of a transaction only move the request on.
LEMMA StatementType ==
  ASSUME TypeInv, NEW p \in Req, Statement(p)
  PROVE  TypeInv'
  <1>0. /\ req[p] \in Request /\ RequestShape(req[p])
        /\ req[p].held \in SUBSET Row /\ req[p].wait \in SUBSET Row
        /\ req[p].todo \in SUBSET Sess
    BY RequestFields
  <1>1. CASE DeviceLock(p)
    <2> DEFINE r == [req[p] EXCEPT !.step = "tokens", !.held = @ \cup {req[p].dev},
                                   !.wait = LiveTokens(SessionsOfDevice(req[p].dev))]
    <2>1. req[p].dev \in Dev /\ req[p].op # "none"
      BY <1>0, <1>1 DEF DeviceLock, RequestShape, Idle
    <2>2. req[p].held \cup {req[p].dev} \in SUBSET Row
      BY <1>0, <2>1 DEF Row
    <2>3. r \in Request
      BY <1>0, <2>2, ChosenRows DEF Request, Steps
    <2>4. RequestShape(r)
      BY <1>0, <2>1 DEF Request, RequestShape
    <2> QED
      BY <1>1, <2>3, <2>4, MoveType DEF DeviceLock
  <1>2. CASE TokensLock(p)
    <2> DEFINE r == [req[p] EXCEPT !.step = "sessions", !.held = @ \cup req[p].wait,
                                   !.wait = LiveSessionsOfDevice(req[p].dev)]
    <2>1. req[p].dev \in Dev /\ req[p].op # "none"
      BY <1>0, <1>2 DEF TokensLock, RequestShape, Idle
    <2>3. r \in Request
      BY <1>0, ChosenRows DEF Request, Steps
    <2>4. RequestShape(r)
      BY <1>0, <2>1 DEF Request, RequestShape
    <2> QED
      BY <1>2, <2>3, <2>4, MoveType DEF TokensLock
  <1>3. CASE SessionsLock(p)
    <2> DEFINE r == [req[p] EXCEPT !.step = "commit", !.held = @ \cup req[p].wait,
                                   !.wait = {}]
    <2>1. req[p].op # "none"
      BY <1>0, <1>3 DEF SessionsLock, RequestShape, Idle
    <2>3. r \in Request
      BY <1>0 DEF Request, Steps
    <2>4. RequestShape(r)
      BY <1>0, <2>1 DEF Request, RequestShape
    <2> QED
      BY <1>3, <2>3, <2>4, MoveType DEF SessionsLock
  <1>4. ASSUME NEW s \in Sess, SweepSession(p, s) PROVE TypeInv'
    <2> DEFINE r == [req[p] EXCEPT !.step = "sweepTokens", !.todo = @ \ {s},
                                   !.held = @ \cup {s}, !.wait = LiveTokens({s})]
    <2>1. req[p].op # "none"
      BY <1>0, <1>4 DEF SweepSession, RequestShape, Idle
    <2>2. req[p].held \cup {s} \in SUBSET Row
      BY <1>0 DEF Row
    <2>3. r \in Request
      BY <1>0, <2>2, ChosenRows DEF Request, Steps
    <2>4. RequestShape(r)
      BY <1>0, <2>1 DEF Request, RequestShape
    <2> QED
      BY <1>4, <2>3, <2>4, MoveType DEF SweepSession
  <1>5. CASE SweepTokens(p)
    <2> DEFINE r == [req[p] EXCEPT !.step = "sweep", !.held = @ \cup req[p].wait,
                                   !.wait = {}]
    <2>1. req[p].op # "none"
      BY <1>0, <1>5 DEF SweepTokens, RequestShape, Idle
    <2>3. r \in Request
      BY <1>0 DEF Request, Steps
    <2>4. RequestShape(r)
      BY <1>0, <2>1 DEF Request, RequestShape
    <2> QED
      BY <1>5, <2>3, <2>4, MoveType DEF SweepTokens
  <1> QED
    BY <1>1, <1>2, <1>3, <1>4, <1>5 DEF Statement

\* A request that opens keeps the types.
LEMMA BeginType ==
  ASSUME TypeInv, NEW p \in Req, NEW r \in Request, RequestShape(r),
         Begin(p, r), UNCHANGED <<tables, clock>>
  PROVE  TypeInv'
  BY MoveType DEF Begin

LEMMA LoginType ==
  ASSUME TypeInv, NEW p \in Req, Login(p)
  PROVE  TypeInv'
  <1>1. ASSUME NEW c \in Cred, NEW now \in 0 .. clock
        PROVE  Earlier(cred[c].expires, now + TTL) \in Time /\ {c} \in SUBSET Row
    <2>1. cred[c].expires \in Time
      BY DEF TypeInv, TypeOK, Credential
    <2>2. clock \in Nat
      BY ReaderAccessAssumption DEF TypeInv, TypeOK
    <2> QED
      BY <2>1, <2>2, ReaderAccessAssumption DEF Earlier, Time, Row
  <1>2. ASSUME NEW c \in Cred, NEW now \in 0 .. clock, NEW d \in Dev,
               LoginKnownDevice(p, c, d, now)
        PROVE  TypeInv'
    <2> DEFINE r == [Idle EXCEPT !.op = "login", !.step = "device", !.cred = c,
                                 !.dev = d, !.held = {c},
                                 !.expires = Earlier(cred[c].expires, now + TTL)]
    <2>1. r \in Request
      BY <1>1, IdleIsRequest DEF Request, Ops, Steps, Idle
    <2>2. RequestShape(r)
      BY DEF RequestShape, Idle
    <2> QED
      BY <1>2, <2>1, <2>2, BeginType DEF LoginKnownDevice
  <1>3. ASSUME NEW c \in Cred, NEW now \in 0 .. clock, LoginNewDevice(p, c, now)
        PROVE  TypeInv'
    <2> DEFINE r == [Idle EXCEPT !.op = "login", !.step = "commit", !.cred = c,
                                 !.held = {c},
                                 !.expires = Earlier(cred[c].expires, now + TTL)]
    <2>1. r \in Request
      BY <1>1, IdleIsRequest DEF Request, Ops, Steps, Idle
    <2>2. RequestShape(r)
      BY DEF RequestShape, Idle
    <2> QED
      BY <1>3, <2>1, <2>2, BeginType DEF LoginNewDevice
  <1>4. ASSUME NEW d \in Dev, NEW s \in Sess, NEW t \in Tok, LoginCommit(p, d, s, t)
        PROVE  TypeInv'
    <2>1. req[p].cred \in Cred /\ req[p].expires \in Time
      BY <1>4, RequestFields DEF LoginCommit, RequestShape
    <2>2. cred' \in [Cred -> Credential] /\ dev' \in [Dev -> Device]
      BY <1>4, <2>1 DEF LoginCommit, TypeInv, TypeOK, Device
    <2>3. sess' \in [Sess -> Session]
      BY <1>4, <2>1 DEF LoginCommit, TypeInv, TypeOK, Session
    <2>4. tok' \in [Tok -> RefreshToken]
      BY <1>4 DEF LoginCommit, TypeInv, TypeOK, RefreshToken
    <2>5. \A u \in Tok : tok[u].sess \in Sess => tok'[u].sess = tok[u].sess
      BY <1>4, ReaderAccessAssumption DEF LoginCommit, TypeInv, TypeOK, RefreshToken, FreshTok
    <2> QED
      BY <1>4, <2>2, <2>3, <2>4, <2>5, CloseType DEF LoginCommit
  <1> QED
    BY <1>2, <1>3, <1>4 DEF Login

LEMMA RefreshType ==
  ASSUME TypeInv, NEW p \in Req, Refresh(p)
  PROVE  TypeInv'
  <1>1. ASSUME NEW t \in Tok, tok[t].sess # NoSess
        PROVE  tok[t].sess \in Sess
    BY <1>1 DEF TypeInv, TypeOK, RefreshToken
  <1>2. ASSUME NEW t \in Tok, NEW d \in Dev, RefreshReuse(p, t, d)
        PROVE  TypeInv'
    <2> DEFINE r == [Idle EXCEPT !.op = "revokeSessions", !.step = "sweep",
                                 !.held = {t}, !.todo = {tok[t].sess}]
    <2>1. {tok[t].sess} \in SUBSET Sess /\ {t} \in SUBSET Row
      BY <1>1, <1>2 DEF RefreshReuse, RefreshStart, Row
    <2>2. r \in Request
      BY <2>1, IdleIsRequest DEF Request, Ops, Steps, Idle
    <2>3. RequestShape(r)
      BY DEF RequestShape, Idle
    <2> QED
      BY <1>2, <2>2, <2>3, BeginType DEF RefreshReuse
  <1>3. ASSUME NEW t \in Tok, NEW d \in Dev, RefreshExpired(p, t, d)
        PROVE  TypeInv'
    <2>1. /\ tok' \in [Tok -> RefreshToken]
          /\ \A u \in Tok : tok'[u].sess = tok[u].sess
      BY <1>3 DEF RefreshExpired, TypeInv, TypeOK, RefreshToken
    <2> QED
      BY <1>3, <2>1 DEF RefreshExpired, TypeInv, TypeOK, Shape, RequestShape
  <1>4. ASSUME NEW t \in Tok, NEW d \in Dev, RefreshRotate(p, t, d)
        PROVE  TypeInv'
    <2> DEFINE r == [Idle EXCEPT !.op = "rotate", !.step = "commit",
                                 !.dev = d, !.tok = t, !.held = {t}]
    <2>1. r \in Request
      BY IdleIsRequest DEF Request, Ops, Steps, Idle, Row
    <2>2. RequestShape(r)
      BY <1>1, <1>4 DEF RequestShape, Idle, RefreshRotate, RefreshStart
    <2> QED
      BY <1>4, <2>1, <2>2, BeginType DEF RefreshRotate
  <1>5. ASSUME NEW t \in Tok, RotateCommit(p, t)
        PROVE  TypeInv'
    <2>1. req[p].tok \in Tok /\ tok[req[p].tok].sess \in Sess
      BY <1>5, RequestFields DEF RotateCommit, RequestShape
    <2>2. tok' \in [Tok -> RefreshToken]
      BY <1>5, <2>1 DEF RotateCommit, TypeInv, TypeOK, RefreshToken
    <2>3. \A u \in Tok : tok[u].sess \in Sess => tok'[u].sess = tok[u].sess
      BY <1>5, <2>1, ReaderAccessAssumption
      DEF RotateCommit, TypeInv, TypeOK, RefreshToken, FreshTok
    <2> QED
      BY <1>5, <2>2, <2>3, CloseType DEF RotateCommit, TypeInv, TypeOK
  <1> QED
    BY <1>2, <1>3, <1>4, <1>5 DEF Refresh

\* Revocations of sessions and devices keep the types.
LEMMA RevocationType ==
  ASSUME TypeInv, NEW p \in Req, Revocation(p)
  PROVE  TypeInv'
  <1>1. ASSUME NEW S \in SUBSET Sess, UNCHANGED <<tables, clock>>,
               Begin(p, [Idle EXCEPT !.op = "revokeSessions", !.step = "sweep", !.todo = S])
        PROVE  TypeInv'
    <2> DEFINE r == [Idle EXCEPT !.op = "revokeSessions", !.step = "sweep", !.todo = S]
    <2>1. r \in Request /\ RequestShape(r)
      BY IdleIsRequest DEF Request, Ops, Steps, Idle, RequestShape
    <2> QED
      BY <1>1, <2>1, BeginType
  <1>2. ASSUME NEW s \in Sess, RevokeSession(p, s) PROVE TypeInv'
    BY <1>1, <1>2 DEF RevokeSession
  <1>3. ASSUME NEW s \in Sess, RevokeOtherSessions(p, s) PROVE TypeInv'
    BY <1>1, <1>3 DEF RevokeOtherSessions
  <1>4. ASSUME NEW c \in Cred, RevokeAllSessions(p, c) PROVE TypeInv'
    BY <1>1, <1>4, ChosenRows DEF RevokeAllSessions
  <1>5. CASE RevokeSessionsCommit(p)
    BY <1>5, RevokeHeldType, CloseType DEF RevokeSessionsCommit, TypeInv, TypeOK
  <1>6. ASSUME NEW d \in Dev, RevokeDevice(p, d) PROVE TypeInv'
    <2> DEFINE r == [Idle EXCEPT !.op = "revokeDevice", !.step = "device", !.dev = d]
    <2>1. r \in Request /\ RequestShape(r)
      BY IdleIsRequest DEF Request, Ops, Steps, Idle, RequestShape
    <2> QED
      BY <1>6, <2>1, BeginType DEF RevokeDevice
  <1>7. CASE RevokeDeviceCommit(p)
    <2>1. dev' \in [Dev -> Device]
      BY <1>7 DEF RevokeDeviceCommit, TypeInv, TypeOK, Device
    <2> QED
      BY <1>7, <2>1, RevokeHeldType, CloseType DEF RevokeDeviceCommit, TypeInv, TypeOK
  <1> QED
    BY <1>2, <1>3, <1>4, <1>5, <1>6, <1>7 DEF Revocation

\* A request that begins with the lock of a credential has its type.
LEMMA CredentialLockShape ==
  ASSUME NEW c \in Cred, NEW o \in {"suspend", "revoke"}
  PROVE  LET r == [Idle EXCEPT !.op = o, !.step = "sweep", !.cred = c,
                               !.held = {c}, !.todo = LiveSessionsOfCred(c)]
         IN  r \in Request /\ RequestShape(r)
  <1> DEFINE r == [Idle EXCEPT !.op = o, !.step = "sweep", !.cred = c,
                               !.held = {c}, !.todo = LiveSessionsOfCred(c)]
  <1>1. {c} \in SUBSET Row
    BY DEF Row
  <1>2. r \in Request
    BY <1>1, IdleIsRequest, ChosenRows DEF Request, Ops, Steps, Idle
  <1>3. RequestShape(r)
    BY DEF RequestShape, Idle
  <1> QED
    BY <1>2, <1>3

LEMMA LifecycleType ==
  ASSUME TypeInv, NEW p \in Req, Lifecycle(p)
  PROVE  TypeInv'
  <1>1. ASSUME NEW c \in Cred, SuspendLock(p, c) PROVE TypeInv'
    BY <1>1, CredentialLockShape, BeginType DEF SuspendLock
  <1>2. ASSUME NEW c \in Cred, Resume(p, c) PROVE TypeInv'
    <2>1. cred' \in [Cred -> Credential]
      BY <1>2 DEF Resume, TypeInv, TypeOK, Credential, CredStatus
    <2> QED
      BY <1>2, <2>1 DEF Resume, TypeInv, TypeOK, Shape, RequestShape
  <1>3. ASSUME NEW c \in Cred, RevokeLock(p, c) PROVE TypeInv'
    BY <1>3, CredentialLockShape, BeginType DEF RevokeLock
  <1>4. CASE SuspendCommit(p)
    <2>1. cred' \in [Cred -> Credential]
      BY <1>4 DEF SuspendCommit, TypeInv, TypeOK, Credential, CredStatus
    <2> QED
      BY <1>4, <2>1, RevokeHeldType, CloseType DEF SuspendCommit, TypeInv, TypeOK
  <1>5. \A c : DevicesRevoked(c) \in [Dev -> Device]
    BY DEF DevicesRevoked, TypeInv, TypeOK, Device
  <1>6. CASE RevokeCommit(p)
    <2>1. cred' \in [Cred -> Credential]
      BY <1>6 DEF RevokeCommit, TypeInv, TypeOK, Credential, CredStatus
    <2> QED
      BY <1>5, <1>6, <2>1, RevokeHeldType, CloseType DEF RevokeCommit, TypeInv, TypeOK
  <1>7. ASSUME NEW r \in Reader, NEW e \in Time, ReissueRead(p, r, e) PROVE TypeInv'
    <2>1. ASSUME NEW c \in Cred,
                 Begin(p, [Idle EXCEPT !.op = "reissue", !.step = "read",
                                       !.reader = r, !.cred = c, !.expires = e])
          PROVE  TypeInv'
      <3> DEFINE x == [Idle EXCEPT !.op = "reissue", !.step = "read",
                                   !.reader = r, !.cred = c, !.expires = e]
      <3>1. x \in Request /\ RequestShape(x)
        BY IdleIsRequest DEF Request, Ops, Steps, Idle, RequestShape
      <3> QED
        BY <1>7, <2>1, <3>1, BeginType DEF ReissueRead
    <2>2. ASSUME Begin(p, [Idle EXCEPT !.op = "reissue", !.step = "sweep",
                                       !.reader = r, !.expires = e])
          PROVE  TypeInv'
      <3> DEFINE x == [Idle EXCEPT !.op = "reissue", !.step = "sweep",
                                   !.reader = r, !.expires = e]
      <3>1. x \in Request /\ RequestShape(x)
        BY IdleIsRequest DEF Request, Ops, Steps, Idle, RequestShape
      <3> QED
        BY <1>7, <2>2, <3>1, BeginType DEF ReissueRead
    <2> QED
      BY <1>7, <2>1, <2>2 DEF ReissueRead, CurrentCreds
  <1>8. CASE ReissueLock(p)
    <2> DEFINE r == [req[p] EXCEPT !.step = "sweep", !.held = {req[p].cred},
                                   !.todo = LiveSessionsOfCred(req[p].cred)]
    <2>1. req[p] \in Request /\ RequestShape(req[p]) /\ req[p].cred \in Cred
      BY <1>8, RequestFields DEF ReissueLock, RequestShape
    <2>2. {req[p].cred} \in SUBSET Row
      BY <2>1 DEF Row
    <2>3. r \in Request
      BY <2>1, <2>2, ChosenRows DEF Request, Steps
    <2>4. RequestShape(r)
      BY <1>8, <2>1 DEF Request, RequestShape, ReissueLock
    <2> QED
      BY <1>8, <2>3, <2>4, MoveType DEF ReissueLock
  <1>9. ASSUME NEW n \in Cred, NEW m \in Limits, NEW a \in BOOLEAN, ReissueCommit(p, n, m, a)
        PROVE  TypeInv'
    <2>1. req[p].reader \in Reader /\ req[p].expires \in Time
      BY <1>9, RequestFields DEF ReissueCommit, SweepDone, RequestShape
    <2>2. NewCredential(req[p].reader, req[p].expires, m, a) \in Credential
      BY <2>1, ReaderAccessAssumption DEF NewCredential, Credential, CredStatus
    <2>3. cred' \in [Cred -> Credential]
      BY <1>9, <2>2 DEF ReissueCommit, TypeInv, TypeOK, Credential, CredStatus
    <2>4. dev' \in [Dev -> Device]
      BY <1>9, <1>5 DEF ReissueCommit, TypeInv, TypeOK
    <2> QED
      BY <1>9, <2>3, <2>4, RevokeHeldType, CloseType DEF ReissueCommit, TypeInv, TypeOK
  <1> QED
    BY <1>1, <1>2, <1>3, <1>4, <1>6, <1>7, <1>8, <1>9 DEF Lifecycle

LEMMA UpdateType ==
  ASSUME TypeInv, NEW p \in Req, Update(p)
  PROVE  TypeInv'
  <1>1. ASSUME NEW c \in Cred, NEW e \in Time, UpdateRead(p, c, e) PROVE TypeInv'
    <2> DEFINE r == [Idle EXCEPT !.op = "update", !.cred = c, !.expires = e,
                                 !.step = IF e <= clock THEN "read" ELSE "commit"]
    <2>1. r \in Request
      BY IdleIsRequest DEF Request, Ops, Steps, Idle
    <2>2. RequestShape(r)
      BY DEF RequestShape, Idle
    <2> QED
      BY <1>1, <2>1, <2>2, BeginType DEF UpdateRead
  <1>2. CASE ExpireLock(p)
    <2> DEFINE r == [req[p] EXCEPT !.step = "sweep", !.held = {req[p].cred},
                                   !.todo = LiveSessionsOfCred(req[p].cred)]
    <2>1. req[p] \in Request /\ RequestShape(req[p]) /\ req[p].cred \in Cred
      BY <1>2, RequestFields DEF ExpireLock, RequestShape
    <2>2. {req[p].cred} \in SUBSET Row
      BY <2>1 DEF Row
    <2>3. r \in Request
      BY <2>1, <2>2, ChosenRows DEF Request, Steps
    <2>4. RequestShape(r)
      BY <1>2, <2>1 DEF Request, RequestShape, ExpireLock
    <2> QED
      BY <1>2, <2>3, <2>4, MoveType DEF ExpireLock
  <1>3. ASSUME NEW m \in Limits, NEW a \in BOOLEAN, NEW c \in Cred, NEW e \in Time
        PROVE  UpdateFields(c, e, m, a) \in [Cred -> Credential]
    <2>1. cred \in [Cred -> Credential] /\ cred[c] \in Credential
      BY DEF TypeInv, TypeOK
    <2>2. m \in Nat
      BY ReaderAccessAssumption
    <2>3. [cred[c] EXCEPT !.expires = e, !.max = m, !.allow = a] \in Credential
      BY <2>1, <2>2 DEF Credential
    <2>4. UpdateFields(c, e, m, a)
            = [cred EXCEPT ![c] = [cred[c] EXCEPT !.expires = e, !.max = m, !.allow = a]]
      BY <2>1 DEF UpdateFields, Credential
    <2> QED
      BY <2>1, <2>3, <2>4
  <1>4. req[p].expires \in Time /\ (req[p].op = "update" => req[p].cred \in Cred)
    BY RequestFields DEF RequestShape
  <1>5. ASSUME NEW m \in Limits, NEW a \in BOOLEAN, UpdateCommit(p, m, a) PROVE TypeInv'
    <2>1. cred' \in [Cred -> Credential]
      BY <1>3, <1>4, <1>5 DEF UpdateCommit
    <2> QED
      BY <1>5, <2>1, CloseType DEF UpdateCommit, TypeInv, TypeOK
  <1>6. ASSUME NEW m \in Limits, NEW a \in BOOLEAN, ExpireCommit(p, m, a) PROVE TypeInv'
    <2>1. cred' \in [Cred -> Credential]
      BY <1>3, <1>4, <1>6 DEF ExpireCommit, SweepDone
    <2> QED
      BY <1>6, <2>1, RevokeHeldType, CloseType DEF ExpireCommit, TypeInv, TypeOK
  <1> QED
    BY <1>1, <1>2, <1>5, <1>6 DEF Update

\* Every step keeps the types.
LEMMA NextType == TypeInv /\ [Next]_vars => TypeInv'
  <1> SUFFICES ASSUME TypeInv, [Next]_vars PROVE TypeInv'
    OBVIOUS
  <1>1. ASSUME NEW p \in Req, Rollback(p) PROVE TypeInv'
    BY <1>1, CloseType DEF Rollback, TypeInv, TypeOK, tables
  <1>2. ASSUME NEW r \in Reader, NEW c \in Cred, NEW e \in Time, NEW m \in Limits,
               NEW a \in BOOLEAN, CreateReader(r, c, e, m, a)
        PROVE  TypeInv'
    <2>1. NewCredential(r, e, m, a) \in Credential
      BY ReaderAccessAssumption DEF NewCredential, Credential, CredStatus
    <2> QED
      BY <1>2, <2>1 DEF CreateReader, TypeInv, TypeOK, Shape, RequestShape
  <1>3. CASE Tick
    BY <1>3, ReaderAccessAssumption DEF Tick, TypeInv, TypeOK, Shape, RequestShape, tables
  <1>4. CASE UNCHANGED vars
    BY <1>4 DEF vars, TypeInv, TypeOK, Shape, RequestShape
  <1> QED
    BY <1>1, <1>2, <1>3, <1>4, LoginType, RefreshType, RevocationType, LifecycleType,
       UpdateType, StatementType DEF Next

\* TypeCorrect: every reachable state has well-typed rows and requests, so the
\* model never reads a row or a request field that does not exist.
THEOREM TypeCorrect == Spec => []TypeOK
  <1>1. Spec => []TypeInv
    BY InitTypeInv, NextType, PTL DEF Spec
  <1>2. TypeInv => TypeOK
    BY DEF TypeInv
  <1> QED
    BY <1>1, <1>2, PTL

-----------------------------------------------------------------------------
(* The inductive invariant.                                                *)

\* Row locks are exclusive.
Exclusive == \A p, q \in Req : p # q => req[p].held \cap req[q].held = {}

\* A request that will leave its credential suspended or revoked, from the
\* moment it has the credential's row lock.
EndsCredential(r) ==
  \/ r.op \in {"suspend", "revoke"}
  \/ r.op = "reissue" /\ r.step # "read" /\ r.cred \in Cred

\* What an open request may rely on while it holds its rows: they exist, a
\* login has locked an active credential, and a request that ends a credential
\* has every live session of it on its list or already locked.
Work(r) ==
  /\ r.cred \notin FreshCred
  /\ (r.held \cup r.wait \cup r.todo) \cap (FreshCred \cup FreshSess \cup FreshTok) = {}
  /\ r.op = "login" => r.cred \in r.held /\ cred[r.cred].status = "active"
  /\ r.op \in {"suspend", "revoke"} => cred[r.cred].status # "revoked"
  /\ EndsCredential(r) =>
       r.cred \in r.held /\ LiveSessionsOfCred(r.cred) \subseteq r.todo \cup r.held

\* Rows that are not inserted yet carry no trace of a revocation.
CleanRows ==
  /\ \A s \in FreshSess : ~sess[s].revoked /\ sess[s].cred = NoCred
  /\ \A t \in FreshTok : ~tok[t].revoked

IInv ==
  /\ TypeInv
  /\ Exclusive
  /\ \A p \in Req : Work(req[p])
  /\ CleanRows
  /\ InactiveCredentialHasNoLiveSession
  /\ RevokedCredentialHasNoActiveDevice

LEMMA InitIInv == Init => IInv
  <1> SUFFICES ASSUME Init PROVE IInv
    OBVIOUS
  <1>1. \A p \in Req : req[p] = Idle
    BY DEF Init
  <1>2. Exclusive
    BY <1>1 DEF Exclusive, Idle
  <1>3. \A p \in Req : Work(req[p])
    BY <1>1, ReaderAccessAssumption DEF Work, EndsCredential, Idle, FreshCred
  <1>4. CleanRows
    BY DEF Init, CleanRows, FreshSess, FreshTok
  <1>5. InactiveCredentialHasNoLiveSession /\ RevokedCredentialHasNoActiveDevice
    BY DEF Init, InactiveCredentialHasNoLiveSession, RevokedCredentialHasNoActiveDevice
  <1> QED
    BY <1>2, <1>3, <1>4, <1>5, InitTypeInv DEF IInv

\* A step that only moves request p on keeps the invariant, when the rows it
\* has locked afterwards are free of the other requests.
LEMMA MoveSafe ==
  ASSUME IInv, TypeInv', NEW p \in Req, NEW r, Move(p, r), UNCHANGED <<tables, clock>>,
         Work(r), Free(p, r.held)
  PROVE  IInv'
  <1>1. req' = [req EXCEPT ![p] = r] /\ req \in [Req -> Request]
    BY DEF Move, IInv, TypeInv, TypeOK
  <1>2. Exclusive'
    BY <1>1 DEF IInv, Exclusive, Free
  <1>3. (\A q \in Req : Work(req[q]))'
    BY <1>1 DEF IInv, Work, tables, FreshCred, FreshSess, FreshTok, LiveSessionsOfCred
  <1>4. /\ CleanRows' /\ InactiveCredentialHasNoLiveSession'
        /\ RevokedCredentialHasNoActiveDevice'
    BY DEF IInv, CleanRows, tables, FreshSess, FreshTok, ActiveDevices,
           InactiveCredentialHasNoLiveSession, RevokedCredentialHasNoActiveDevice
  <1> QED
    BY <1>2, <1>3, <1>4 DEF IInv

\* A step that changes the tables and leaves the requests alone, or ends
\* request p, keeps the invariant when it disturbs no credential another
\* request has locked.
LEMMA TableSafe ==
  ASSUME IInv, TypeInv', UNCHANGED req \/ (\E p \in Req : Close(p)),
         \A q \in Req : req'[q] = req[q] =>
            \A c \in Cred \cap req[q].held :
               /\ cred'[c].status = cred[c].status
               /\ LiveSessionsOfCred(c)' \subseteq LiveSessionsOfCred(c),
         FreshCred' \subseteq FreshCred, FreshSess' \subseteq FreshSess,
         FreshTok' \subseteq FreshTok, CleanRows',
         InactiveCredentialHasNoLiveSession', RevokedCredentialHasNoActiveDevice'
  PROVE  IInv'
  <1>1. req \in [Req -> Request] /\ \A q \in Req : req'[q] = req[q] \/ req'[q] = Idle
    BY DEF Close, Move, IInv, TypeInv, TypeOK
  <1>2. Exclusive'
    BY <1>1 DEF IInv, Exclusive, Idle
  <1>3. Work(Idle)'
    BY ReaderAccessAssumption DEF Work, EndsCredential, Idle, FreshCred
  <1>4. ASSUME NEW q \in Req, req'[q] = req[q] PROVE Work(req[q])'
    <2>1. Work(req[q]) /\ RequestShape(req[q])
      BY DEF IInv, TypeInv, Shape
    <2>2. req[q].op \in {"login", "suspend", "revoke"} \/ EndsCredential(req[q])
            => req[q].cred \in Cred \cap req[q].held
      BY <2>1 DEF Work, EndsCredential, RequestShape
    <2>3. req[q].op \in {"login", "suspend", "revoke"} \/ EndsCredential(req[q])
            => /\ cred'[req[q].cred].status = cred[req[q].cred].status
               /\ LiveSessionsOfCred(req[q].cred)' \subseteq LiveSessionsOfCred(req[q].cred)
      BY <1>4, <2>2
    <2> QED
      BY <1>4, <2>1, <2>2, <2>3 DEF Work, EndsCredential
  <1> QED
    BY <1>1, <1>2, <1>3, <1>4 DEF IInv

\* The rows a statement chooses have been inserted.
LEMMA ChosenRowsExist ==
  ASSUME IInv
  PROVE  /\ \A S \in SUBSET Sess : LiveTokens(S) \cap (FreshCred \cup FreshSess \cup FreshTok) = {}
         /\ \A d \in Dev : LiveSessionsOfDevice(d) \cap (FreshCred \cup FreshSess \cup FreshTok) = {}
         /\ \A c \in Cred : LiveSessionsOfCred(c) \cap (FreshCred \cup FreshSess \cup FreshTok) = {}
  BY ReaderAccessAssumption
  DEF IInv, CleanRows, LiveTokens, LiveSessionsOfDevice, LiveSessionsOfCred,
      FreshCred, FreshSess, FreshTok

LEMMA StatementSafe ==
  ASSUME IInv, NEW p \in Req, Statement(p)
  PROVE  IInv'
  <1>0. /\ req[p] \in Request /\ RequestShape(req[p]) /\ Work(req[p])
        /\ req[p].held \in SUBSET Row /\ req[p].wait \in SUBSET Row
        /\ req[p].todo \in SUBSET Sess
    BY RequestFields DEF IInv
  <1>f. Free(p, req[p].held)
    BY DEF IInv, Exclusive, Free
  <1>t. TypeInv'
    BY StatementType DEF IInv
  <1>1. CASE DeviceLock(p)
    <2> DEFINE r == [req[p] EXCEPT !.step = "tokens", !.held = @ \cup {req[p].dev},
                                   !.wait = LiveTokens(SessionsOfDevice(req[p].dev))]
    <2>1. req[p].dev \in Dev
      BY <1>0, <1>1 DEF DeviceLock, RequestShape
    <2>2. SessionsOfDevice(req[p].dev) \in SUBSET Sess
      BY DEF SessionsOfDevice
    <2>3. req[p].dev \notin FreshCred \cup FreshSess \cup FreshTok
      BY <2>1, ReaderAccessAssumption DEF FreshCred, FreshSess, FreshTok
    <2>4. Work(r)
      BY <1>0, <1>1, <2>2, <2>3, ChosenRowsExist DEF Work, EndsCredential, Request, DeviceLock
    <2>5. Free(p, r.held)
      BY <1>0, <1>1, <1>f DEF Free, DeviceLock, Request
    <2> QED
      BY <1>1, <1>t, <2>4, <2>5, MoveSafe DEF DeviceLock
  <1>2. CASE TokensLock(p)
    <2> DEFINE r == [req[p] EXCEPT !.step = "sessions", !.held = @ \cup req[p].wait,
                                   !.wait = LiveSessionsOfDevice(req[p].dev)]
    <2>1. req[p].dev \in Dev
      BY <1>0, <1>2 DEF TokensLock, RequestShape
    <2>4. Work(r)
      BY <1>0, <1>2, <2>1, ChosenRowsExist DEF Work, EndsCredential, Request, TokensLock
    <2>5. Free(p, r.held)
      BY <1>0, <1>2, <1>f DEF Free, TokensLock, Request
    <2> QED
      BY <1>2, <1>t, <2>4, <2>5, MoveSafe DEF TokensLock
  <1>3. CASE SessionsLock(p)
    <2> DEFINE r == [req[p] EXCEPT !.step = "commit", !.held = @ \cup req[p].wait,
                                   !.wait = {}]
    <2>4. Work(r)
      BY <1>0, <1>3 DEF Work, EndsCredential, Request, SessionsLock
    <2>5. Free(p, r.held)
      BY <1>0, <1>3, <1>f DEF Free, SessionsLock, Request
    <2> QED
      BY <1>3, <1>t, <2>4, <2>5, MoveSafe DEF SessionsLock
  <1>4. ASSUME NEW s \in Sess, SweepSession(p, s) PROVE IInv'
    <2> DEFINE r == [req[p] EXCEPT !.step = "sweepTokens", !.todo = @ \ {s},
                                   !.held = @ \cup {s}, !.wait = LiveTokens({s})]
    <2>1. {s} \in SUBSET Sess /\ s \in req[p].todo
      BY <1>4 DEF SweepSession
    <2>4. Work(r)
      BY <1>0, <1>4, <2>1, ChosenRowsExist DEF Work, EndsCredential, Request, SweepSession
    <2>5. Free(p, r.held)
      BY <1>0, <1>4, <1>f DEF Free, SweepSession, Request
    <2> QED
      BY <1>4, <1>t, <2>4, <2>5, MoveSafe DEF SweepSession
  <1>5. CASE SweepTokens(p)
    <2> DEFINE r == [req[p] EXCEPT !.step = "sweep", !.held = @ \cup req[p].wait,
                                   !.wait = {}]
    <2>4. Work(r)
      BY <1>0, <1>5 DEF Work, EndsCredential, Request, SweepTokens
    <2>5. Free(p, r.held)
      BY <1>0, <1>5, <1>f DEF Free, SweepTokens, Request
    <2> QED
      BY <1>5, <1>t, <2>4, <2>5, MoveSafe DEF SweepTokens
  <1> QED
    BY <1>1, <1>2, <1>3, <1>4, <1>5 DEF Statement

\* What revoking the locked rows changes.
LEMMA RevokeHeldRows ==
  ASSUME IInv, NEW p \in Req, RevokeHeld(p)
  PROVE  /\ \A s \in Sess : /\ sess'[s].cred = sess[s].cred /\ sess'[s].dev = sess[s].dev
                            /\ sess'[s].revoked <=> sess[s].revoked \/ s \in req[p].held
         /\ \A t \in Tok : /\ tok'[t].sess = tok[t].sess
                           /\ tok'[t].revoked <=> tok[t].revoked \/ t \in req[p].held
         /\ FreshSess' = FreshSess /\ FreshTok' = FreshTok
         /\ CleanRows'
         /\ \A c : LiveSessionsOfCred(c)' = LiveSessionsOfCred(c) \ req[p].held
  <1>1. \A s \in Sess : sess[s] \in Session
    BY DEF IInv, TypeInv, TypeOK
  <1>2. \A t \in Tok : tok[t] \in RefreshToken
    BY DEF IInv, TypeInv, TypeOK
  <1>3. \A s \in Sess : /\ sess'[s].cred = sess[s].cred /\ sess'[s].dev = sess[s].dev
                        /\ sess'[s].revoked <=> sess[s].revoked \/ s \in req[p].held
    BY <1>1 DEF RevokeHeld, Session
  <1>4. \A t \in Tok : /\ tok'[t].sess = tok[t].sess
                       /\ tok'[t].revoked <=> tok[t].revoked \/ t \in req[p].held
    BY <1>2 DEF RevokeHeld, RefreshToken
  <1>5. FreshSess' = FreshSess /\ FreshTok' = FreshTok
    BY <1>3, <1>4 DEF FreshSess, FreshTok
  <1>6. req[p].held \cap (FreshSess \cup FreshTok) = {}
    BY DEF IInv, Work
  <1>7. CleanRows'
    BY <1>3, <1>4, <1>5, <1>6 DEF IInv, CleanRows, FreshSess, FreshTok
  <1>8. \A c : LiveSessionsOfCred(c)' = LiveSessionsOfCred(c) \ req[p].held
    BY <1>3 DEF LiveSessionsOfCred
  <1> QED
    BY <1>3, <1>4, <1>5, <1>7, <1>8

\* A request that opens keeps the invariant.
LEMMA BeginSafe ==
  ASSUME IInv, TypeInv', NEW p \in Req, NEW r, Begin(p, r), UNCHANGED <<tables, clock>>,
         Work(r), Free(p, r.held)
  PROVE  IInv'
  BY MoveSafe DEF Begin

LEMMA LoginSafe ==
  ASSUME IInv, NEW p \in Req, Login(p)
  PROVE  IInv'
  <1>t. TypeInv'
    BY LoginType DEF IInv
  <1>1. ASSUME NEW c \in Cred, NEW now \in 0 .. clock, NEW d \in Dev,
               LoginKnownDevice(p, c, d, now)
        PROVE  IInv'
    <2> DEFINE r == [Idle EXCEPT !.op = "login", !.step = "device", !.cred = c,
                                 !.dev = d, !.held = {c},
                                 !.expires = Earlier(cred[c].expires, now + TTL)]
    <2>1. Work(r)
      BY <1>1, ReaderAccessAssumption
      DEF Work, EndsCredential, Idle, LoginKnownDevice, ReaderCredentialValid,
          FreshCred, FreshSess, FreshTok
    <2>2. Free(p, r.held)
      BY <1>1 DEF LoginKnownDevice, LoginRow, Idle
    <2> QED
      BY <1>1, <1>t, <2>1, <2>2, BeginSafe DEF LoginKnownDevice
  <1>2. ASSUME NEW c \in Cred, NEW now \in 0 .. clock, LoginNewDevice(p, c, now)
        PROVE  IInv'
    <2> DEFINE r == [Idle EXCEPT !.op = "login", !.step = "commit", !.cred = c,
                                 !.held = {c},
                                 !.expires = Earlier(cred[c].expires, now + TTL)]
    <2>1. Work(r)
      BY <1>2, ReaderAccessAssumption
      DEF Work, EndsCredential, Idle, LoginNewDevice, ReaderCredentialValid,
          FreshCred, FreshSess, FreshTok
    <2>2. Free(p, r.held)
      BY <1>2 DEF LoginNewDevice, LoginRow, Idle
    <2> QED
      BY <1>2, <1>t, <2>1, <2>2, BeginSafe DEF LoginNewDevice
  <1>3. ASSUME NEW d \in Dev, NEW s \in Sess, NEW t \in Tok, LoginCommit(p, d, s, t)
        PROVE  IInv'
    <2> DEFINE c == req[p].cred
    <2>1. /\ c \in Cred /\ c \in req[p].held /\ cred[c].status = "active"
          /\ req[p].held \cap (FreshSess \cup FreshTok) = {}
      BY <1>3, RequestFields DEF IInv, Work, LoginCommit, RequestShape
    <2>2. \A x \in Sess : sess[x] \in Session
      BY DEF IInv, TypeInv, TypeOK
    <2>3. \A x \in Tok : tok[x] \in RefreshToken
      BY DEF IInv, TypeInv, TypeOK
    <2>4. /\ sess'[s].cred = c /\ sess'[s].dev = d
          /\ \A x \in Sess \ {s} :
               /\ sess'[x].cred = sess[x].cred /\ sess'[x].dev = sess[x].dev
               /\ sess'[x].revoked <=> sess[x].revoked \/ x \in req[p].held
      BY <1>3, <2>2 DEF LoginCommit, Session
    <2>5. /\ tok'[t].sess = s
          /\ \A x \in Tok \ {t} :
               /\ tok'[x].sess = tok[x].sess
               /\ tok'[x].revoked <=> tok[x].revoked \/ x \in req[p].held
      BY <1>3, <2>3 DEF LoginCommit, RefreshToken
    <2>6. FreshSess' \subseteq FreshSess \ {s} /\ FreshTok' \subseteq FreshTok \ {t}
      BY <2>4, <2>5, ReaderAccessAssumption DEF FreshSess, FreshTok
    <2>7. CleanRows'
      BY <2>1, <2>4, <2>5, <2>6 DEF IInv, CleanRows, FreshSess, FreshTok
    <2>8. \A x \in Cred \ {c} : LiveSessionsOfCred(x)' \subseteq LiveSessionsOfCred(x)
      BY <2>4 DEF LiveSessionsOfCred
    <2>9. \A q \in Req : req'[q] = req[q] => c \notin req[q].held
      <3>1. req'[p] = Idle
        BY <1>3 DEF LoginCommit, Close, Move, IInv, TypeInv, TypeOK
      <3>2. req[p] # Idle
        BY <1>3 DEF LoginCommit, Idle
      <3> QED
        BY <2>1, <3>1, <3>2 DEF IInv, Exclusive
    <2>10. InactiveCredentialHasNoLiveSession'
      BY <1>3, <2>1, <2>4 DEF IInv, InactiveCredentialHasNoLiveSession, LoginCommit
    <2>11. RevokedCredentialHasNoActiveDevice'
      <3>1. dev \in [Dev -> Device]
        BY DEF IInv, TypeInv, TypeOK
      <3>2. \A x \in Cred \ {c} : ActiveDevices(x)' \subseteq ActiveDevices(x)
        BY <1>3, <3>1 DEF ActiveDevices, LoginCommit, Device
      <3>3. cred' = cred
        BY <1>3 DEF LoginCommit
      <3> QED
        BY <2>1, <3>2, <3>3 DEF IInv, RevokedCredentialHasNoActiveDevice
    <2>12. FreshCred' \subseteq FreshCred /\ cred' = cred
      BY <1>3 DEF FreshCred, LoginCommit
    <2>13. Close(p)
      BY <1>3 DEF LoginCommit
    <2> QED
      BY <1>t, <2>6, <2>7, <2>8, <2>9, <2>10, <2>11, <2>12, <2>13, TableSafe
  <1> QED
    BY <1>1, <1>2, <1>3 DEF Login

LEMMA RefreshSafe ==
  ASSUME IInv, NEW p \in Req, Refresh(p)
  PROVE  IInv'
  <1>t. TypeInv'
    BY RefreshType DEF IInv
  <1>1. ASSUME NEW t \in Tok, NEW d \in Dev, RefreshReuse(p, t, d)
        PROVE  IInv'
    <2> DEFINE r == [Idle EXCEPT !.op = "revokeSessions", !.step = "sweep",
                                 !.held = {t}, !.todo = {tok[t].sess}]
    <2>1. t \notin FreshTok /\ tok[t].sess \in Sess /\ tok[t].sess \notin FreshSess
      BY <1>1, ReaderAccessAssumption
      DEF RefreshReuse, RefreshStart, FreshTok, FreshSess, IInv, TypeInv, TypeOK, RefreshToken
    <2>2. Work(r)
      BY <2>1, ReaderAccessAssumption
      DEF Work, EndsCredential, Idle, FreshCred, FreshSess, FreshTok
    <2>3. Free(p, r.held)
      BY <1>1 DEF RefreshReuse, RefreshStart, RefreshRow, Idle
    <2> QED
      BY <1>1, <1>t, <2>2, <2>3, BeginSafe DEF RefreshReuse
  <1>2. ASSUME NEW t \in Tok, NEW d \in Dev, RefreshRotate(p, t, d)
        PROVE  IInv'
    <2> DEFINE r == [Idle EXCEPT !.op = "rotate", !.step = "commit",
                                 !.dev = d, !.tok = t, !.held = {t}]
    <2>1. t \notin FreshTok
      BY <1>2 DEF RefreshRotate, RefreshStart, FreshTok
    <2>2. Work(r)
      BY <2>1, ReaderAccessAssumption
      DEF Work, EndsCredential, Idle, FreshCred, FreshSess, FreshTok
    <2>3. Free(p, r.held)
      BY <1>2 DEF RefreshRotate, RefreshStart, RefreshRow, Idle
    <2> QED
      BY <1>2, <1>t, <2>2, <2>3, BeginSafe DEF RefreshRotate
  <1>3. ASSUME UNCHANGED req \/ Close(p), UNCHANGED <<cred, dev, sess>>,
               \A t \in Tok : tok[t].sess # NoSess => tok'[t].sess # NoSess,
               CleanRows'
        PROVE  IInv'
    <2>1. FreshCred' = FreshCred /\ FreshSess' = FreshSess /\ FreshTok' \subseteq FreshTok
      BY <1>3 DEF FreshCred, FreshSess, FreshTok
    <2>2. \A c : LiveSessionsOfCred(c)' = LiveSessionsOfCred(c)
      BY <1>3 DEF LiveSessionsOfCred
    <2>3. InactiveCredentialHasNoLiveSession' /\ RevokedCredentialHasNoActiveDevice'
      BY <1>3 DEF IInv, InactiveCredentialHasNoLiveSession,
                  RevokedCredentialHasNoActiveDevice, ActiveDevices
    <2> QED
      BY <1>3, <1>t, <2>1, <2>2, <2>3, TableSafe
  <1>4. ASSUME NEW t \in Tok, NEW d \in Dev, RefreshExpired(p, t, d)
        PROVE  IInv'
    <2>1. /\ \A u \in Tok : tok'[u].sess = tok[u].sess
          /\ \A u \in Tok \ {t} : tok'[u].revoked = tok[u].revoked
          /\ tok[t].sess # NoSess /\ sess' = sess
      BY <1>4 DEF RefreshExpired, RefreshStart, IInv, TypeInv, TypeOK, RefreshToken
    <2>2. CleanRows'
      BY <2>1 DEF IInv, CleanRows, FreshSess, FreshTok
    <2> QED
      BY <1>3, <1>4, <2>1, <2>2 DEF RefreshExpired
  <1>5. ASSUME NEW t \in Tok, RotateCommit(p, t)
        PROVE  IInv'
    <2>1. req[p].tok \in Tok /\ tok[req[p].tok].sess \in Sess
      BY <1>5, RequestFields DEF IInv, RotateCommit, RequestShape
    <2>2. tok[req[p].tok].sess # NoSess
      BY <2>1, ReaderAccessAssumption
    <2>3. /\ \A u \in Tok \ {t} : tok'[u].sess = tok[u].sess /\ tok'[u].revoked = tok[u].revoked
          /\ tok'[t].sess # NoSess /\ sess' = sess
      BY <1>5, <2>1, <2>2 DEF RotateCommit, IInv, TypeInv, TypeOK, RefreshToken
    <2>4. CleanRows'
      BY <2>3 DEF IInv, CleanRows, FreshSess, FreshTok
    <2> QED
      BY <1>3, <1>5, <2>3, <2>4 DEF RotateCommit
  <1> QED
    BY <1>1, <1>2, <1>4, <1>5 DEF Refresh

LEMMA RevocationSafe ==
  ASSUME IInv, NEW p \in Req, Revocation(p)
  PROVE  IInv'
  <1>t. TypeInv'
    BY RevocationType DEF IInv
  <1>1. ASSUME NEW S \in SUBSET Sess, UNCHANGED <<tables, clock>>, S \cap FreshSess = {},
               Begin(p, [Idle EXCEPT !.op = "revokeSessions", !.step = "sweep", !.todo = S])
        PROVE  IInv'
    <2> DEFINE r == [Idle EXCEPT !.op = "revokeSessions", !.step = "sweep", !.todo = S]
    <2>1. Work(r)
      BY <1>1, ReaderAccessAssumption DEF Work, EndsCredential, Idle, FreshCred, FreshTok
    <2>2. Free(p, r.held)
      BY DEF Free, Idle
    <2> QED
      BY <1>1, <1>t, <2>1, <2>2, BeginSafe
  <1>2. ASSUME NEW s \in Sess, RevokeSession(p, s) PROVE IInv'
    <2>1. {s} \in SUBSET Sess /\ {s} \cap FreshSess = {}
      BY <1>2 DEF RevokeSession
    <2> QED
      BY <1>1, <1>2, <2>1 DEF RevokeSession
  <1>3. ASSUME NEW s \in Sess, RevokeOtherSessions(p, s) PROVE IInv'
    <2> DEFINE S == {x \in Sess \ {s} :
                       /\ x \notin FreshSess /\ ~sess[x].revoked
                       /\ cred[sess[x].cred].owner = cred[sess[s].cred].owner}
    <2>1. S \in SUBSET Sess /\ S \cap FreshSess = {}
      OBVIOUS
    <2>2. Begin(p, [Idle EXCEPT !.op = "revokeSessions", !.step = "sweep", !.todo = S])
      BY <1>3 DEF RevokeOtherSessions
    <2> HIDE DEF S
    <2> QED
      BY <1>1, <1>3, <2>1, <2>2 DEF RevokeOtherSessions
  <1>4. ASSUME NEW c \in Cred, RevokeAllSessions(p, c) PROVE IInv'
    <2>1. LiveSessionsOfCred(c) \in SUBSET Sess /\ LiveSessionsOfCred(c) \cap FreshSess = {}
      BY ChosenRows, ChosenRowsExist
    <2> QED
      BY <1>1, <1>4, <2>1 DEF RevokeAllSessions
  <1>5. ASSUME Close(p), RevokeHeld(p), UNCHANGED <<cred, clock>>,
               \A c \in Cred : ActiveDevices(c)' \subseteq ActiveDevices(c)
        PROVE  IInv'
    <2>1. InactiveCredentialHasNoLiveSession'
      BY <1>5, RevokeHeldRows DEF IInv, InactiveCredentialHasNoLiveSession
    <2>2. RevokedCredentialHasNoActiveDevice'
      BY <1>5 DEF IInv, RevokedCredentialHasNoActiveDevice
    <2>3. FreshCred' = FreshCred
      BY <1>5 DEF FreshCred
    <2> QED
      BY <1>5, <1>t, <2>1, <2>2, <2>3, RevokeHeldRows, TableSafe
  <1>6. CASE RevokeSessionsCommit(p)
    BY <1>5, <1>6 DEF RevokeSessionsCommit, ActiveDevices
  <1>7. ASSUME NEW d \in Dev, RevokeDevice(p, d) PROVE IInv'
    <2> DEFINE r == [Idle EXCEPT !.op = "revokeDevice", !.step = "device", !.dev = d]
    <2>1. Work(r)
      BY ReaderAccessAssumption DEF Work, EndsCredential, Idle, FreshCred
    <2>2. Free(p, r.held)
      BY DEF Free, Idle
    <2> QED
      BY <1>7, <1>t, <2>1, <2>2, BeginSafe DEF RevokeDevice
  <1>8. CASE RevokeDeviceCommit(p)
    <2>1. \A c \in Cred : ActiveDevices(c)' \subseteq ActiveDevices(c)
      BY <1>8 DEF RevokeDeviceCommit, ActiveDevices, IInv, TypeInv, TypeOK, Device
    <2> QED
      BY <1>5, <1>8, <2>1 DEF RevokeDeviceCommit
  <1> QED
    BY <1>2, <1>3, <1>4, <1>6, <1>7, <1>8 DEF Revocation

\* A request that takes the lock of a credential with all its live sessions on
\* its list has done its part of the invariant.
LEMMA CredentialLockWork ==
  ASSUME IInv, NEW c \in Cred, c \notin FreshCred, NEW r,
         r.cred = c, r.held = {c}, r.wait = {}, r.todo = LiveSessionsOfCred(c),
         r.op \in {"suspend", "revoke"} => cred[c].status # "revoked", r.op # "login"
  PROVE  Work(r)
  BY ChosenRowsExist, ReaderAccessAssumption
  DEF Work, EndsCredential, FreshCred, FreshSess, FreshTok

\* Ending a credential: with every live session of it locked and every device
\* of it revoked, nothing of the credential stays usable.
LEMMA EndSafe ==
  ASSUME IInv, TypeInv', NEW p \in Req, Close(p), RevokeHeld(p), EndsCredential(req[p]),
         req[p].todo = {}, req[p].op # "none", NEW c \in Cred, c = req[p].cred,
         \A x \in Cred \ {c} :
            \/ cred'[x].status = cred[x].status
            \/ x \in FreshCred /\ cred'[x].status = "active",
         FreshCred' \subseteq FreshCred,
         \A x \in Cred : ActiveDevices(x)' \subseteq ActiveDevices(x),
         cred'[c].status = "revoked" => ActiveDevices(c)' = {}
  PROVE  IInv'
  <1>1. c \in req[p].held /\ LiveSessionsOfCred(c) \subseteq req[p].held
    BY DEF IInv, Work
  <1>2. LiveSessionsOfCred(c)' = {}
    BY <1>1, RevokeHeldRows
  <1>3. InactiveCredentialHasNoLiveSession'
    <2>1. \A s \in Sess : sess'[s].cred = sess[s].cred /\ (sess[s].revoked => sess'[s].revoked)
      BY RevokeHeldRows
    <2>2. \A s \in Sess : sess'[s].cred = c => sess'[s].revoked
      BY <1>2 DEF LiveSessionsOfCred
    <2> QED
      BY <2>1, <2>2 DEF IInv, InactiveCredentialHasNoLiveSession
  <1>4. RevokedCredentialHasNoActiveDevice'
    <2>1. ASSUME NEW x \in Cred, cred'[x].status = "revoked" PROVE ActiveDevices(x)' = {}
      BY <2>1 DEF IInv, RevokedCredentialHasNoActiveDevice
    <2> QED
      BY <2>1 DEF RevokedCredentialHasNoActiveDevice
  <1>5. ASSUME NEW q \in Req, req'[q] = req[q], NEW x \in Cred \cap req[q].held
        PROVE  cred'[x].status = cred[x].status
    <2>1. q # p
      BY <1>5 DEF Close, Move, Idle, IInv, TypeInv, TypeOK
    <2>2. x # c
      BY <1>1, <1>5, <2>1 DEF IInv, Exclusive
    <2>3. x \notin FreshCred
      BY <1>5 DEF IInv, Work
    <2> QED
      BY <2>2, <2>3
  <1>6. \A x \in Cred : LiveSessionsOfCred(x)' \subseteq LiveSessionsOfCred(x)
    BY RevokeHeldRows
  <1>7. FreshSess' = FreshSess /\ FreshTok' = FreshTok /\ CleanRows'
    BY RevokeHeldRows
  <1> QED
    BY <1>3, <1>4, <1>5, <1>6, <1>7, TableSafe

\* The UPDATE of the devices leaves none of the credential's active.
LEMMA DevicesRevokedRows ==
  ASSUME IInv, NEW c \in Cred, dev' = DevicesRevoked(c)
  PROVE  /\ ActiveDevices(c)' = {}
         /\ \A x \in Cred : ActiveDevices(x)' \subseteq ActiveDevices(x)
  BY DEF DevicesRevoked, ActiveDevices, IInv, TypeInv, TypeOK, Device

LEMMA LifecycleSafe ==
  ASSUME IInv, NEW p \in Req, Lifecycle(p)
  PROVE  IInv'
  <1>t. TypeInv'
    BY LifecycleType DEF IInv
  <1>1. ASSUME NEW c \in Cred, NEW o \in {"suspend", "revoke"}, CurrentForUpdate(p, c),
               Begin(p, [Idle EXCEPT !.op = o, !.step = "sweep", !.cred = c,
                                     !.held = {c}, !.todo = LiveSessionsOfCred(c)]),
               UNCHANGED <<tables, clock>>
        PROVE  IInv'
    <2> DEFINE r == [Idle EXCEPT !.op = o, !.step = "sweep", !.cred = c,
                                 !.held = {c}, !.todo = LiveSessionsOfCred(c)]
    <2>1. cred[c].status \in {"active", "suspended"} /\ c \notin FreshCred /\ Free(p, {c})
      BY <1>1 DEF CurrentForUpdate, FreshCred
    <2>2. /\ r.cred = c /\ r.held = {c} /\ r.wait = {} /\ r.todo = LiveSessionsOfCred(c)
          /\ r.op = o
      BY DEF Idle
    <2>3. Work(r)
      BY <2>1, <2>2, CredentialLockWork
    <2> QED
      BY <1>1, <1>t, <2>1, <2>2, <2>3, BeginSafe
  <1>2. ASSUME NEW c \in Cred, SuspendLock(p, c) PROVE IInv'
    BY <1>1, <1>2 DEF SuspendLock
  <1>3. ASSUME NEW c \in Cred, RevokeLock(p, c) PROVE IInv'
    BY <1>1, <1>3 DEF RevokeLock
  <1>4. ASSUME NEW c \in Cred, Resume(p, c) PROVE IInv'
    <2>1. /\ \A x \in Cred \ {c} : cred'[x] = cred[x]
          /\ cred[c].status = "suspended" /\ cred'[c].status = "active"
          /\ UNCHANGED <<dev, sess, tok, req>>
      BY <1>4 DEF Resume, IInv, TypeInv, TypeOK, Credential
    <2>2. \A q \in Req : c \notin req[q].held
      <3>1. req[p] = Idle
        BY <1>4, RequestFields DEF Resume, RequestShape, IInv
      <3> QED
        BY <1>4, <3>1 DEF Resume, CurrentForUpdate, Free, Idle
    <2>3. InactiveCredentialHasNoLiveSession'
      BY <2>1 DEF IInv, InactiveCredentialHasNoLiveSession
    <2>4. RevokedCredentialHasNoActiveDevice'
      BY <2>1 DEF IInv, RevokedCredentialHasNoActiveDevice, ActiveDevices
    <2>5. /\ FreshCred' \subseteq FreshCred /\ FreshSess' = FreshSess
          /\ FreshTok' = FreshTok /\ CleanRows'
      BY <2>1 DEF FreshCred, FreshSess, FreshTok, CleanRows, IInv
    <2>6. \A x \in Cred : LiveSessionsOfCred(x)' = LiveSessionsOfCred(x)
      BY <2>1 DEF LiveSessionsOfCred
    <2> QED
      BY <1>t, <2>1, <2>2, <2>3, <2>4, <2>5, <2>6, TableSafe
  <1>6. CASE SuspendCommit(p)
    <2> DEFINE c == req[p].cred
    <2>1. c \in Cred /\ EndsCredential(req[p]) /\ req[p].todo = {} /\ req[p].op # "none"
      BY <1>6, RequestFields DEF IInv, SuspendCommit, SweepDone, RequestShape, EndsCredential
    <2>2. /\ \A x \in Cred \ {c} : cred'[x] = cred[x]
          /\ cred'[c].status = "suspended" /\ dev' = dev
      BY <1>6, <2>1 DEF SuspendCommit, IInv, TypeInv, TypeOK, Credential
    <2>3. FreshCred' \subseteq FreshCred
      BY <2>2 DEF FreshCred
    <2>4. \A x \in Cred : ActiveDevices(x)' = ActiveDevices(x)
      BY <2>2 DEF ActiveDevices
    <2>5. Close(p) /\ RevokeHeld(p)
      BY <1>6 DEF SuspendCommit
    <2> HIDE DEF c
    <2>6. c = req[p].cred
      BY DEF c
    <2> QED
      BY <1>t, <2>1, <2>2, <2>3, <2>4, <2>5, <2>6, EndSafe
  <1>7. CASE RevokeCommit(p)
    <2> DEFINE c == req[p].cred
    <2>1. c \in Cred /\ EndsCredential(req[p]) /\ req[p].todo = {} /\ req[p].op # "none"
      BY <1>7, RequestFields DEF IInv, RevokeCommit, SweepDone, RequestShape, EndsCredential
    <2>2. /\ \A x \in Cred \ {c} : cred'[x] = cred[x]
          /\ cred'[c].status = "revoked"
      BY <1>7, <2>1 DEF RevokeCommit, IInv, TypeInv, TypeOK, Credential
    <2>3. FreshCred' \subseteq FreshCred
      BY <2>2 DEF FreshCred
    <2>4. dev' = DevicesRevoked(c) /\ Close(p) /\ RevokeHeld(p) /\ c = req[p].cred
      BY <1>7 DEF RevokeCommit
    <2> HIDE DEF c
    <2> QED
      BY <1>t, <2>1, <2>2, <2>3, <2>4, DevicesRevokedRows, EndSafe
  <1>8. ASSUME NEW r \in Reader, NEW e \in Time, ReissueRead(p, r, e) PROVE IInv'
    <2>1. ASSUME NEW c \in CurrentCreds(r),
                 Begin(p, [Idle EXCEPT !.op = "reissue", !.step = "read",
                                       !.reader = r, !.cred = c, !.expires = e])
          PROVE  IInv'
      <3> DEFINE x == [Idle EXCEPT !.op = "reissue", !.step = "read",
                                   !.reader = r, !.cred = c, !.expires = e]
      <3>1. Work(x)
        BY DEF Work, EndsCredential, Idle, CurrentCreds, FreshCred
      <3>2. Free(p, x.held)
        BY DEF Free, Idle
      <3> QED
        BY <1>8, <1>t, <2>1, <3>1, <3>2, BeginSafe DEF ReissueRead
    <2>2. ASSUME Begin(p, [Idle EXCEPT !.op = "reissue", !.step = "sweep",
                                       !.reader = r, !.expires = e])
          PROVE  IInv'
      <3> DEFINE x == [Idle EXCEPT !.op = "reissue", !.step = "sweep",
                                   !.reader = r, !.expires = e]
      <3>1. Work(x)
        BY ReaderAccessAssumption DEF Work, EndsCredential, Idle, FreshCred
      <3>2. Free(p, x.held)
        BY DEF Free, Idle
      <3> QED
        BY <1>8, <1>t, <2>2, <3>1, <3>2, BeginSafe DEF ReissueRead
    <2> QED
      BY <1>8, <2>1, <2>2 DEF ReissueRead
  <1>9. CASE ReissueLock(p)
    <2> DEFINE c == req[p].cred
               r == [req[p] EXCEPT !.step = "sweep", !.held = {c},
                                   !.todo = LiveSessionsOfCred(c)]
    <2>1. req[p] \in Request /\ c \in Cred /\ c \notin FreshCred /\ Free(p, {c})
          /\ req[p].op = "reissue" /\ Work(req[p])
      BY <1>9, RequestFields DEF IInv, Work, ReissueLock, RequestShape
    <2>2. /\ r.cred = c /\ r.held = {c} /\ r.wait = req[p].wait
          /\ r.todo = LiveSessionsOfCred(c) /\ r.op = "reissue"
      BY <2>1 DEF Request
    <2>3. Work(r)
      BY <2>1, <2>2, ChosenRowsExist, ReaderAccessAssumption
      DEF Work, EndsCredential, FreshCred, FreshSess, FreshTok
    <2> QED
      BY <1>9, <1>t, <2>1, <2>2, <2>3, MoveSafe DEF ReissueLock
  <1>10. ASSUME NEW n \in Cred, NEW m \in Limits, NEW a \in BOOLEAN, ReissueCommit(p, n, m, a)
         PROVE  IInv'
    <2> DEFINE c == req[p].cred
    <2>1. /\ req[p].todo = {} /\ req[p].op = "reissue" /\ req[p].step = "sweep"
          /\ n \in FreshCred /\ Close(p) /\ RevokeHeld(p) /\ c \notin FreshCred
      BY <1>10 DEF ReissueCommit, SweepDone, IInv, Work
    <2>2. /\ cred'[n].status = "active"
          /\ \A x \in Cred \ {n, c} : cred'[x] = cred[x]
          /\ c \in Cred => cred'[c].status = "revoked"
      BY <1>10, <2>1 DEF ReissueCommit, NewCredential, IInv, TypeInv, TypeOK, Credential
    <2>3. FreshCred' \subseteq FreshCred
      BY <2>1, <2>2 DEF FreshCred
    <2>4. CASE c \in Cred
      <3>1. dev' = DevicesRevoked(c) /\ c = req[p].cred /\ EndsCredential(req[p])
        BY <1>10, <2>1, <2>4, ReaderAccessAssumption DEF ReissueCommit, EndsCredential
      <3> HIDE DEF c
      <3> QED
        BY <1>t, <2>1, <2>2, <2>3, <2>4, <3>1, DevicesRevokedRows, EndSafe
    <2>5. CASE c = NoCred
      <3>1. dev' = dev /\ \A x \in Cred \ {n} : cred'[x] = cred[x]
        BY <1>10, <2>2, <2>5, ReaderAccessAssumption DEF ReissueCommit
      <3>2. InactiveCredentialHasNoLiveSession'
        <4>1. \A s \in Sess : sess'[s].cred = sess[s].cred /\ (sess[s].revoked => sess'[s].revoked)
          BY <2>1, RevokeHeldRows
        <4> QED
          BY <2>2, <3>1, <4>1 DEF IInv, InactiveCredentialHasNoLiveSession
      <3>3. RevokedCredentialHasNoActiveDevice'
        BY <2>2, <3>1 DEF IInv, RevokedCredentialHasNoActiveDevice, ActiveDevices
      <3>4. \A q \in Req : n \notin req[q].held
        BY <2>1 DEF IInv, Work
      <3>5. /\ \A x \in Cred : LiveSessionsOfCred(x)' \subseteq LiveSessionsOfCred(x)
            /\ FreshSess' = FreshSess /\ FreshTok' = FreshTok /\ CleanRows'
        BY <2>1, RevokeHeldRows
      <3> QED
        BY <1>t, <2>1, <2>3, <3>1, <3>2, <3>3, <3>4, <3>5, TableSafe
    <2> QED
      BY <2>4, <2>5, RequestFields DEF IInv
  <1> QED
    BY <1>2, <1>3, <1>4, <1>6, <1>7, <1>8, <1>9, <1>10 DEF Lifecycle

LEMMA UpdateSafe ==
  ASSUME IInv, NEW p \in Req, Update(p)
  PROVE  IInv'
  <1>t. TypeInv'
    BY UpdateType DEF IInv
  <1>1. ASSUME NEW c \in Cred, NEW e \in Time, UpdateRead(p, c, e) PROVE IInv'
    <2> DEFINE r == [Idle EXCEPT !.op = "update", !.cred = c, !.expires = e,
                                 !.step = IF e <= clock THEN "read" ELSE "commit"]
    <2>1. Work(r)
      BY <1>1 DEF Work, EndsCredential, Idle, UpdateRead, FreshCred
    <2>2. Free(p, r.held)
      BY DEF Free, Idle
    <2> QED
      BY <1>1, <1>t, <2>1, <2>2, BeginSafe DEF UpdateRead
  <1>2. CASE ExpireLock(p)
    <2> DEFINE c == req[p].cred
               r == [req[p] EXCEPT !.step = "sweep", !.held = {c},
                                   !.todo = LiveSessionsOfCred(c)]
    <2>1. req[p] \in Request /\ c \in Cred /\ c \notin FreshCred /\ Free(p, {c})
          /\ req[p].op = "update" /\ Work(req[p])
      BY <1>2, RequestFields DEF IInv, Work, ExpireLock, RequestShape
    <2>2. /\ r.cred = c /\ r.held = {c} /\ r.wait = req[p].wait
          /\ r.todo = LiveSessionsOfCred(c) /\ r.op = "update"
      BY <2>1 DEF Request
    <2>3. Work(r)
      BY <2>1, <2>2, ChosenRowsExist, ReaderAccessAssumption
      DEF Work, EndsCredential, FreshCred, FreshSess, FreshTok
    <2> QED
      BY <1>2, <1>t, <2>1, <2>2, <2>3, MoveSafe DEF ExpireLock
  <1>3. ASSUME NEW c \in Cred, NEW e \in Time, NEW m \in Limits, NEW a \in BOOLEAN,
               cred' = UpdateFields(c, e, m, a)
        PROVE  \A x \in Cred : cred'[x].status = cred[x].status
    BY <1>3 DEF UpdateFields, IInv, TypeInv, TypeOK, Credential
  <1>4. req[p].expires \in Time /\ (req[p].op = "update" => req[p].cred \in Cred)
    BY RequestFields DEF IInv, RequestShape
  <1>5. ASSUME Close(p), \A x \in Cred : cred'[x].status = cred[x].status, dev' = dev,
               \A s \in Sess : sess'[s].cred = sess[s].cred
                               /\ (sess[s].revoked => sess'[s].revoked),
               FreshSess' = FreshSess, FreshTok' = FreshTok, CleanRows'
        PROVE  IInv'
    <2>1. InactiveCredentialHasNoLiveSession'
      BY <1>5 DEF IInv, InactiveCredentialHasNoLiveSession
    <2>2. RevokedCredentialHasNoActiveDevice'
      BY <1>5 DEF IInv, RevokedCredentialHasNoActiveDevice, ActiveDevices
    <2>3. FreshCred' = FreshCred
      BY <1>5 DEF FreshCred
    <2>4. \A x \in Cred : LiveSessionsOfCred(x)' \subseteq LiveSessionsOfCred(x)
      BY <1>5 DEF LiveSessionsOfCred
    <2> QED
      BY <1>5, <1>t, <2>1, <2>2, <2>3, <2>4, TableSafe
  <1>6. ASSUME NEW m \in Limits, NEW a \in BOOLEAN, UpdateCommit(p, m, a) PROVE IInv'
    <2>1. \A x \in Cred : cred'[x].status = cred[x].status
      BY <1>3, <1>4, <1>6 DEF UpdateCommit
    <2>2. FreshSess' = FreshSess /\ FreshTok' = FreshTok /\ CleanRows'
      BY <1>6 DEF UpdateCommit, FreshSess, FreshTok, CleanRows, IInv
    <2> QED
      BY <1>5, <1>6, <2>1, <2>2 DEF UpdateCommit
  <1>7. ASSUME NEW m \in Limits, NEW a \in BOOLEAN, ExpireCommit(p, m, a) PROVE IInv'
    <2>1. \A x \in Cred : cred'[x].status = cred[x].status
      BY <1>3, <1>4, <1>7 DEF ExpireCommit, SweepDone
    <2>2. /\ FreshSess' = FreshSess /\ FreshTok' = FreshTok /\ CleanRows'
          /\ \A s \in Sess : sess'[s].cred = sess[s].cred
                             /\ (sess[s].revoked => sess'[s].revoked)
      BY <1>7, RevokeHeldRows DEF ExpireCommit
    <2> QED
      BY <1>5, <1>7, <2>1, <2>2 DEF ExpireCommit
  <1> QED
    BY <1>1, <1>2, <1>6, <1>7 DEF Update

LEMMA NextIInv == IInv /\ [Next]_vars => IInv'
  <1> SUFFICES ASSUME IInv, [Next]_vars PROVE IInv'
    OBVIOUS
  <1>t. TypeInv'
    BY NextType DEF IInv
  <1>1. ASSUME NEW p \in Req, Rollback(p) PROVE IInv'
    <2>1. Work(Idle)
      BY ReaderAccessAssumption DEF Work, EndsCredential, Idle, FreshCred
    <2>2. Free(p, Idle.held)
      BY DEF Free, Idle
    <2> QED
      BY <1>1, <1>t, <2>1, <2>2, MoveSafe DEF Rollback, Close
  <1>2. ASSUME NEW r \in Reader, NEW c \in Cred, NEW e \in Time, NEW m \in Limits,
               NEW a \in BOOLEAN, CreateReader(r, c, e, m, a)
        PROVE  IInv'
    <2>1. /\ c \in FreshCred /\ UNCHANGED <<dev, sess, tok, req>>
          /\ \A x \in Cred \ {c} : cred'[x] = cred[x]
          /\ cred'[c].status = "active"
      BY <1>2 DEF CreateReader, NewCredential, IInv, TypeInv, TypeOK
    <2>2. \A q \in Req : c \notin req[q].held
      BY <2>1 DEF IInv, Work
    <2>3. InactiveCredentialHasNoLiveSession'
      BY <2>1 DEF IInv, InactiveCredentialHasNoLiveSession
    <2>4. RevokedCredentialHasNoActiveDevice'
      BY <2>1 DEF IInv, RevokedCredentialHasNoActiveDevice, ActiveDevices
    <2>5. /\ FreshCred' \subseteq FreshCred /\ FreshSess' = FreshSess
          /\ FreshTok' = FreshTok /\ CleanRows'
      BY <2>1 DEF FreshCred, FreshSess, FreshTok, CleanRows, IInv
    <2>6. \A x \in Cred : LiveSessionsOfCred(x)' = LiveSessionsOfCred(x)
      BY <2>1 DEF LiveSessionsOfCred
    <2> QED
      BY <1>t, <2>1, <2>2, <2>3, <2>4, <2>5, <2>6, TableSafe
  <1>3. ASSUME UNCHANGED <<tables, req>> PROVE IInv'
    BY <1>3, <1>t
    DEF IInv, Exclusive, Work, EndsCredential, CleanRows, tables, FreshCred, FreshSess,
        FreshTok, LiveSessionsOfCred, ActiveDevices, InactiveCredentialHasNoLiveSession,
        RevokedCredentialHasNoActiveDevice
  <1>4. CASE Tick
    BY <1>3, <1>4 DEF Tick
  <1>5. CASE UNCHANGED vars
    BY <1>3, <1>5 DEF vars, tables
  <1> QED
    BY <1>1, <1>2, <1>4, <1>5, LoginSafe, RefreshSafe, RevocationSafe, LifecycleSafe,
       UpdateSafe, StatementSafe DEF Next

LEMMA SpecIInv == Spec => []IInv
  BY InitIInv, NextIInv, PTL DEF Spec

\* NoSessionOutlivesItsCredential: however logins overlap a suspension, a
\* revocation or a reissue, no session of a credential that is no longer active
\* stays unrevoked.
THEOREM NoSessionOutlivesItsCredential == Spec => []InactiveCredentialHasNoLiveSession
  <1>1. IInv => InactiveCredentialHasNoLiveSession
    BY DEF IInv
  <1> QED
    BY <1>1, SpecIInv, PTL

\* NoDeviceOutlivesItsCredential: a revoked credential has no active device,
\* not even one that a concurrent login was about to authorise.
THEOREM NoDeviceOutlivesItsCredential == Spec => []RevokedCredentialHasNoActiveDevice
  <1>1. IInv => RevokedCredentialHasNoActiveDevice
    BY DEF IInv
  <1> QED
    BY <1>1, SpecIInv, PTL

-----------------------------------------------------------------------------
(* Revocation is final.                                                    *)

\* What RevocationIsFinal says of one step.
StaysRevoked ==
  /\ \A c \in Cred : cred[c].status = "revoked" => cred'[c].status = "revoked"
  /\ \A d \in Dev : dev[d].revoked => dev'[d].revoked
  /\ \A s \in Sess : sess[s].revoked => sess'[s].revoked
  /\ \A t \in Tok : tok[t].revoked => tok'[t].revoked

LEMMA RowsRevoked ==
  ASSUME IInv
  PROVE  /\ \A p \in Req : RevokeHeld(p) => /\ \A s \in Sess : sess[s].revoked => sess'[s].revoked
                                            /\ \A t \in Tok : tok[t].revoked => tok'[t].revoked
         /\ \A c : \A d \in Dev : dev[d].revoked => DevicesRevoked(c)[d].revoked
  BY RevokeHeldRows DEF DevicesRevoked, IInv, TypeInv, TypeOK, Device

\* No step takes a revocation back.
LEMMA NextStaysRevoked == IInv /\ [Next]_vars => StaysRevoked
  <1> SUFFICES ASSUME IInv, [Next]_vars PROVE StaysRevoked
    OBVIOUS
  <1>0. TypeOK
    BY DEF IInv, TypeInv
  <1>1. ASSUME UNCHANGED tables PROVE StaysRevoked
    BY <1>1 DEF StaysRevoked, tables
  <1>2. ASSUME NEW p \in Req, NEW d \in Dev, NEW s \in Sess, NEW t \in Tok,
               LoginCommit(p, d, s, t)
        PROVE  StaysRevoked
    <2>1. s \in FreshSess /\ t \in FreshTok /\ cred' = cred
      BY <1>2 DEF LoginCommit
    <2>2. \A x \in Dev : dev[x].revoked => dev'[x].revoked
      BY <1>0, <1>2 DEF LoginCommit, TypeOK, Device
    <2>3. \A x \in Sess \ {s} : sess[x].revoked => sess'[x].revoked
      BY <1>0, <1>2 DEF LoginCommit, TypeOK, Session
    <2>4. \A x \in Tok \ {t} : tok[x].revoked => tok'[x].revoked
      BY <1>0, <1>2 DEF LoginCommit, TypeOK, RefreshToken
    <2>5. ~sess[s].revoked /\ ~tok[t].revoked
      BY <2>1 DEF IInv, CleanRows
    <2> QED
      BY <2>1, <2>2, <2>3, <2>4, <2>5 DEF StaysRevoked
  <1>3. ASSUME NEW p \in Req, Login(p) PROVE StaysRevoked
    BY <1>1, <1>2, <1>3 DEF Login, LoginKnownDevice, LoginNewDevice
  <1>4. ASSUME NEW p \in Req, NEW t \in Tok, NEW d \in Dev, RefreshExpired(p, t, d)
        PROVE  StaysRevoked
    BY <1>0, <1>4 DEF RefreshExpired, StaysRevoked, TypeOK, RefreshToken
  <1>5. ASSUME NEW p \in Req, NEW t \in Tok, RotateCommit(p, t) PROVE StaysRevoked
    <2>1. ~tok[t].revoked
      BY <1>5 DEF RotateCommit, IInv, CleanRows
    <2>2. \A x \in Tok \ {t} : tok[x].revoked => tok'[x].revoked
      BY <1>0, <1>5 DEF RotateCommit, TypeOK, RefreshToken
    <2> QED
      BY <1>5, <2>1, <2>2 DEF RotateCommit, StaysRevoked
  <1>6. ASSUME NEW p \in Req, Refresh(p) PROVE StaysRevoked
    BY <1>1, <1>4, <1>5, <1>6 DEF Refresh, RefreshReuse, RefreshRotate
  <1>7. ASSUME NEW p \in Req, Revocation(p) PROVE StaysRevoked
    <2>1. CASE RevokeSessionsCommit(p)
      BY <2>1, RowsRevoked DEF RevokeSessionsCommit, StaysRevoked
    <2>2. CASE RevokeDeviceCommit(p)
      <3>1. \A d \in Dev : dev[d].revoked => dev'[d].revoked
        BY <1>0, <2>2 DEF RevokeDeviceCommit, TypeOK, Device
      <3> QED
        BY <2>2, <3>1, RowsRevoked DEF RevokeDeviceCommit, StaysRevoked
    <2> QED
      BY <1>1, <1>7, <2>1, <2>2
      DEF Revocation, RevokeSession, RevokeOtherSessions, RevokeAllSessions, RevokeDevice
  <1>8. ASSUME NEW p \in Req, Lifecycle(p) PROVE StaysRevoked
    <2>1. CASE SuspendCommit(p)
      <3>1. cred[req[p].cred].status # "revoked"
        BY <2>1 DEF SuspendCommit, SweepDone, IInv, Work
      <3>2. \A c \in Cred : cred[c].status = "revoked" => cred'[c].status = "revoked"
        BY <1>0, <2>1, <3>1 DEF SuspendCommit, TypeOK, Credential
      <3> QED
        BY <2>1, <3>2, RowsRevoked DEF SuspendCommit, StaysRevoked
    <2>2. ASSUME NEW c \in Cred, Resume(p, c) PROVE StaysRevoked
      BY <1>0, <2>2 DEF Resume, StaysRevoked, TypeOK, Credential
    <2>3. CASE RevokeCommit(p)
      <3>1. \A c \in Cred : cred[c].status = "revoked" => cred'[c].status = "revoked"
        BY <1>0, <2>3 DEF RevokeCommit, TypeOK, Credential
      <3> QED
        BY <2>3, <3>1, RowsRevoked DEF RevokeCommit, StaysRevoked
    <2>4. ASSUME NEW n \in Cred, NEW m \in Limits, NEW a \in BOOLEAN,
                 ReissueCommit(p, n, m, a)
          PROVE  StaysRevoked
      <3>1. \A c \in Cred : cred[c].status = "revoked" => cred'[c].status = "revoked"
        BY <1>0, <2>4 DEF ReissueCommit, FreshCred, TypeOK, Credential
      <3> QED
        BY <2>4, <3>1, RowsRevoked DEF ReissueCommit, StaysRevoked
    <2> QED
      BY <1>1, <1>8, <2>1, <2>2, <2>3, <2>4
      DEF Lifecycle, SuspendLock, RevokeLock, ReissueRead, ReissueLock
  <1>9. ASSUME NEW p \in Req, Update(p) PROVE StaysRevoked
    <2>1. ASSUME NEW c, NEW e, NEW m, NEW a, cred' = UpdateFields(c, e, m, a)
          PROVE  \A x \in Cred : cred[x].status = "revoked" => cred'[x].status = "revoked"
      BY <1>0, <2>1 DEF UpdateFields, TypeOK, Credential
    <2>2. ASSUME NEW m \in Limits, NEW a \in BOOLEAN, UpdateCommit(p, m, a)
          PROVE  StaysRevoked
      BY <2>1, <2>2 DEF UpdateCommit, StaysRevoked
    <2>3. ASSUME NEW m \in Limits, NEW a \in BOOLEAN, ExpireCommit(p, m, a)
          PROVE  StaysRevoked
      BY <2>1, <2>3, RowsRevoked DEF ExpireCommit, StaysRevoked
    <2> QED
      BY <1>1, <1>9, <2>2, <2>3 DEF Update, UpdateRead, ExpireLock
  <1>10. ASSUME NEW p \in Req, Statement(p) PROVE StaysRevoked
    BY <1>1, <1>10
    DEF Statement, DeviceLock, TokensLock, SessionsLock, SweepSession, SweepTokens
  <1>11. ASSUME NEW r \in Reader, NEW c \in Cred, NEW e \in Time, NEW m \in Limits,
                NEW a \in BOOLEAN, CreateReader(r, c, e, m, a)
         PROVE  StaysRevoked
    BY <1>0, <1>11 DEF CreateReader, FreshCred, StaysRevoked, TypeOK
  <1> QED
    BY <1>1, <1>3, <1>6, <1>7, <1>8, <1>9, <1>10, <1>11
    DEF Next, Rollback, Tick, vars, tables

\* RevocationStays: no step of any request makes a revoked credential, device,
\* session or refresh token usable again.
THEOREM RevocationStays == Spec => RevocationIsFinal
  <1>1. IInv /\ [Next]_vars => [StaysRevoked]_vars
    BY NextStaysRevoked
  <1>2. Spec => [][StaysRevoked]_vars
    BY <1>1, SpecIInv, PTL DEF Spec
  <1> QED
    BY <1>2 DEF RevocationIsFinal, StaysRevoked

-----------------------------------------------------------------------------
(* Sessions, their tokens and devices.                                     *)

\* The rows point at rows that exist, and the devices of a credential are counted.
RowLinks ==
  /\ \A t \in Tok : tok[t].sess \notin FreshSess
  /\ \A s \in Sess : sess[s].dev \notin FreshDev
  /\ \A c \in Cred : IsFiniteSet(ActiveDevices(c))

\* Which rows a request waits for at each step.
Queue(r) ==
  /\ r.dev \notin FreshDev
  /\ r.step \notin {"tokens", "sessions", "sweepTokens"} => r.wait = {}
  /\ r.step \in {"tokens", "sweepTokens"} => r.wait \subseteq Tok
  /\ r.step = "sessions" => r.wait \subseteq SessionsOfDevice(r.dev)
  /\ r.step \in {"tokens", "sessions"} => r.dev \in r.held
  /\ r.op = "login" /\ r.step = "commit" => r.dev \in r.held \cup {NoDev}
  /\ r.op = "update" /\ r.step \in {"sweep", "sweepTokens"} => r.cred \in r.held

\* Who has locked a session has locked its live tokens or waits for them, and who
\* has locked a device has done so with the tokens, then the sessions of the device.
Covers(r) ==
  /\ \A s \in Sess \cap r.held : LiveTokens({s}) \subseteq r.held \cup r.wait
  /\ r.dev \in Dev \cap r.held =>
       /\ LiveTokens(SessionsOfDevice(r.dev)) \subseteq r.held \cup r.wait
       /\ r.step \in {"sessions", "commit"} =>
            LiveSessionsOfDevice(r.dev) \subseteq r.held \cup r.wait

\* A refresh has locked the token it will replace, which nobody else can use or
\* revoke until then, nor can its session be revoked.
Rotation(r) ==
  r.op = "rotate" =>
    /\ r.tok \in r.held /\ ~tok[r.tok].used /\ ~tok[r.tok].revoked
    /\ sess[tok[r.tok].sess].dev = r.dev /\ ~sess[tok[r.tok].sess].revoked

\* A login with a new device has counted the devices of the credential it locked.
Counted(r) ==
  r.op = "login" /\ r.dev = NoDev =>
    Cardinality(ActiveDevices(r.cred)) < cred[r.cred].max

SessionWork(r) == Queue(r) /\ Covers(r) /\ Rotation(r) /\ Counted(r)

SInv ==
  /\ IInv
  /\ RowLinks
  /\ \A p \in Req : SessionWork(req[p])
  /\ RevokedSessionHasNoLiveToken
  /\ OneExchangeableToken
  /\ OneLiveSessionPerDevice

LEMMA InitSInv == Init => SInv
  <1> SUFFICES ASSUME Init PROVE SInv
    OBVIOUS
  <1>1. \A p \in Req : req[p] = Idle
    BY DEF Init
  <1>2. \A p \in Req : SessionWork(req[p])
    BY <1>1, ReaderAccessAssumption
    DEF SessionWork, Queue, Covers, Rotation, Counted, Idle, FreshDev
  <1>3. ActiveDevices(NoCred) \in SUBSET Dev /\ \A c \in Cred : ActiveDevices(c) = {}
    BY ReaderAccessAssumption DEF ActiveDevices, Init
  <1>4. RowLinks
    BY <1>3, FS_EmptySet, ReaderAccessAssumption DEF RowLinks, Init, FreshSess, FreshDev
  <1>5. RevokedSessionHasNoLiveToken /\ OneExchangeableToken /\ OneLiveSessionPerDevice
    BY ReaderAccessAssumption
    DEF Init, RevokedSessionHasNoLiveToken, OneExchangeableToken, OneLiveSessionPerDevice
  <1> QED
    BY <1>2, <1>4, <1>5, InitIInv DEF SInv

\* A step that only moves request p on keeps the invariant when p does its part.
LEMMA MoveKeeps ==
  ASSUME SInv, IInv', NEW p \in Req, NEW r, Move(p, r), UNCHANGED <<tables, clock>>,
         SessionWork(r)
  PROVE  SInv'
  <1>1. req' = [req EXCEPT ![p] = r] /\ req \in [Req -> Request]
    BY DEF Move, SInv, IInv, TypeInv, TypeOK
  <1>2. \A q \in Req : SessionWork(req[q])
    BY DEF SInv
  <1>3. (\A q \in Req : SessionWork(req[q]))'
    <2> SUFFICES ASSUME NEW q \in Req PROVE SessionWork(req[q])'
      OBVIOUS
    <2>1. SessionWork(req'[q])
      BY <1>1, <1>2
    <2>2. Queue(req[q])'
      BY <2>1 DEF SessionWork, Queue, tables, FreshDev, SessionsOfDevice
    <2>3. Covers(req[q])'
      BY <2>1 DEF SessionWork, Covers, tables, LiveTokens, SessionsOfDevice,
                  LiveSessionsOfDevice
    <2>4. Rotation(req[q])' /\ Counted(req[q])'
      BY <2>1 DEF SessionWork, Rotation, Counted, tables, ActiveDevices
    <2> QED
      BY <2>2, <2>3, <2>4 DEF SessionWork
  <1>4. /\ RowLinks' /\ RevokedSessionHasNoLiveToken' /\ OneExchangeableToken'
        /\ OneLiveSessionPerDevice'
    BY DEF SInv, RowLinks, tables, FreshSess, FreshDev, ActiveDevices,
           RevokedSessionHasNoLiveToken, OneExchangeableToken, OneLiveSessionPerDevice
  <1> QED
    BY <1>3, <1>4 DEF SInv

\* What another request relies on when the tables change.
LEMMA RequestKept ==
  ASSUME SInv, NEW q \in Req, req'[q] = req[q], FreshDev' \subseteq FreshDev,
         \A s \in Sess \ FreshSess : sess'[s].dev = sess[s].dev,
         \A s \in Sess \cap req[q].held : LiveTokens({s})' \subseteq LiveTokens({s}),
         \A d \in Dev \cap req[q].held : d = req[q].dev =>
            /\ LiveTokens(SessionsOfDevice(d))' \subseteq LiveTokens(SessionsOfDevice(d))
            /\ LiveSessionsOfDevice(d)' \subseteq LiveSessionsOfDevice(d),
         Rotation(req[q])', Counted(req[q])'
  PROVE  SessionWork(req[q])'
  <1>1. /\ SessionWork(req[q]) /\ Work(req[q]) /\ req[q].dev \in Dev \cup {NoDev}
        /\ req[q].held \subseteq Row
    BY RequestFields DEF SInv, IInv
  <1>3. Queue(req[q])'
    <2>1. req[q].wait \cap FreshSess = {}
      BY <1>1 DEF Work
    <2>2. SessionsOfDevice(req[q].dev) \ FreshSess \subseteq SessionsOfDevice(req[q].dev)'
      BY DEF SessionsOfDevice
    <2> QED
      BY <1>1, <2>1, <2>2 DEF SessionWork, Queue
  <1>4. Covers(req[q])'
    BY <1>1 DEF SessionWork, Covers
  <1> QED
    BY <1>3, <1>4 DEF SessionWork

LEMMA StatementKeeps ==
  ASSUME SInv, NEW p \in Req, Statement(p)
  PROVE  SInv'
  <1>0. /\ req[p] \in Request /\ RequestShape(req[p]) /\ SessionWork(req[p])
        /\ req[p].held \in SUBSET Row /\ req[p].wait \in SUBSET Row
        /\ req[p].todo \in SUBSET Sess
    BY RequestFields DEF SInv, IInv
  <1>t. IInv'
    BY StatementSafe DEF SInv
  <1>d. /\ Sess \cap Tok = {} /\ Dev \cap Sess = {} /\ Dev \cap Tok = {} /\ NoDev \notin Dev
    BY ReaderAccessAssumption
  <1>1. CASE DeviceLock(p)
    <2> DEFINE r == [req[p] EXCEPT !.step = "tokens", !.held = @ \cup {req[p].dev},
                                   !.wait = LiveTokens(SessionsOfDevice(req[p].dev))]
    <2>1. req[p].dev \in Dev /\ req[p].wait = {} /\ req[p].step = "device"
      BY <1>0, <1>1 DEF DeviceLock, RequestShape, SessionWork, Queue
    <2>2. /\ r.step = "tokens" /\ r.held = req[p].held \cup {req[p].dev} /\ r.dev = req[p].dev
          /\ r.wait = LiveTokens(SessionsOfDevice(req[p].dev))
          /\ r.op = req[p].op /\ r.tok = req[p].tok /\ r.cred = req[p].cred
      BY <1>0 DEF Request
    <2> HIDE DEF r
    <2>3. Queue(r)
      BY <1>0, <2>1, <2>2 DEF SessionWork, Queue, LiveTokens
    <2>4. Covers(r)
      BY <1>0, <1>d, <2>1, <2>2 DEF SessionWork, Covers
    <2>5. Rotation(r) /\ Counted(r)
      BY <1>0, <2>2 DEF SessionWork, Rotation, Counted
    <2>6. SessionWork(r)
      BY <2>3, <2>4, <2>5 DEF SessionWork
    <2> QED
      BY <1>1, <1>t, <2>6, MoveKeeps DEF DeviceLock, r
  <1>2. CASE TokensLock(p)
    <2> DEFINE r == [req[p] EXCEPT !.step = "sessions", !.held = @ \cup req[p].wait,
                                   !.wait = LiveSessionsOfDevice(req[p].dev)]
    <2>1. /\ req[p].dev \in Dev \cap req[p].held /\ req[p].wait \subseteq Tok
          /\ req[p].step = "tokens"
      BY <1>0, <1>2 DEF TokensLock, RequestShape, SessionWork, Queue
    <2>2. /\ r.step = "sessions" /\ r.held = req[p].held \cup req[p].wait /\ r.dev = req[p].dev
          /\ r.wait = LiveSessionsOfDevice(req[p].dev)
          /\ r.op = req[p].op /\ r.tok = req[p].tok /\ r.cred = req[p].cred
      BY <1>0 DEF Request
    <2> HIDE DEF r
    <2>3. Queue(r)
      BY <1>0, <2>1, <2>2 DEF SessionWork, Queue, LiveSessionsOfDevice, SessionsOfDevice
    <2>4. Covers(r)
      BY <1>0, <1>d, <2>1, <2>2 DEF SessionWork, Covers
    <2>5. Rotation(r) /\ Counted(r)
      BY <1>0, <2>2 DEF SessionWork, Rotation, Counted
    <2>6. SessionWork(r)
      BY <2>3, <2>4, <2>5 DEF SessionWork
    <2> QED
      BY <1>2, <1>t, <2>6, MoveKeeps DEF TokensLock, r
  <1>3. CASE SessionsLock(p)
    <2> DEFINE r == [req[p] EXCEPT !.step = "commit", !.held = @ \cup req[p].wait,
                                   !.wait = {}]
    <2>1. /\ req[p].dev \in Dev \cap req[p].held /\ req[p].step = "sessions"
          /\ req[p].wait \subseteq SessionsOfDevice(req[p].dev)
      BY <1>0, <1>3 DEF SessionsLock, RequestShape, SessionWork, Queue
    <2>2. /\ r.step = "commit" /\ r.held = req[p].held \cup req[p].wait /\ r.dev = req[p].dev
          /\ r.wait = {}
          /\ r.op = req[p].op /\ r.tok = req[p].tok /\ r.cred = req[p].cred
      BY <1>0 DEF Request
    <2> HIDE DEF r
    <2>3. Queue(r)
      BY <1>0, <2>1, <2>2 DEF SessionWork, Queue
    <2>4. \A s \in req[p].wait : LiveTokens({s}) \subseteq LiveTokens(SessionsOfDevice(req[p].dev))
      BY <2>1 DEF LiveTokens
    <2>5. Covers(r)
      BY <1>0, <1>d, <2>1, <2>2, <2>4 DEF SessionWork, Covers
    <2>6. Rotation(r) /\ Counted(r)
      BY <1>0, <2>2 DEF SessionWork, Rotation, Counted
    <2>7. SessionWork(r)
      BY <2>3, <2>5, <2>6 DEF SessionWork
    <2> QED
      BY <1>3, <1>t, <2>7, MoveKeeps DEF SessionsLock, r
  <1>4. ASSUME NEW s \in Sess, SweepSession(p, s) PROVE SInv'
    <2> DEFINE r == [req[p] EXCEPT !.step = "sweepTokens", !.todo = @ \ {s},
                                   !.held = @ \cup {s}, !.wait = LiveTokens({s})]
    <2>1. req[p].step = "sweep" /\ req[p].wait = {}
      BY <1>0, <1>4 DEF SweepSession, SessionWork, Queue
    <2>2. /\ r.step = "sweepTokens" /\ r.held = req[p].held \cup {s} /\ r.dev = req[p].dev
          /\ r.wait = LiveTokens({s})
          /\ r.op = req[p].op /\ r.tok = req[p].tok /\ r.cred = req[p].cred
      BY <1>0 DEF Request
    <2> HIDE DEF r
    <2>3. Queue(r)
      BY <1>0, <2>1, <2>2 DEF SessionWork, Queue, LiveTokens
    <2>4. Covers(r)
      BY <1>0, <1>d, <2>1, <2>2 DEF SessionWork, Covers
    <2>5. Rotation(r) /\ Counted(r)
      BY <1>0, <2>2 DEF SessionWork, Rotation, Counted
    <2>6. SessionWork(r)
      BY <2>3, <2>4, <2>5 DEF SessionWork
    <2> QED
      BY <1>4, <1>t, <2>6, MoveKeeps DEF SweepSession, r
  <1>5. CASE SweepTokens(p)
    <2> DEFINE r == [req[p] EXCEPT !.step = "sweep", !.held = @ \cup req[p].wait,
                                   !.wait = {}]
    <2>1. req[p].step = "sweepTokens" /\ req[p].wait \subseteq Tok
      BY <1>0, <1>5 DEF SweepTokens, SessionWork, Queue
    <2>2. /\ r.step = "sweep" /\ r.held = req[p].held \cup req[p].wait /\ r.dev = req[p].dev
          /\ r.wait = {}
          /\ r.op = req[p].op /\ r.tok = req[p].tok /\ r.cred = req[p].cred
      BY <1>0 DEF Request
    <2> HIDE DEF r
    <2>3. Queue(r)
      BY <1>0, <2>1, <2>2 DEF SessionWork, Queue
    <2>4. Covers(r)
      BY <1>0, <1>d, <2>1, <2>2 DEF SessionWork, Covers
    <2>5. Rotation(r) /\ Counted(r)
      BY <1>0, <2>2 DEF SessionWork, Rotation, Counted
    <2>6. SessionWork(r)
      BY <2>3, <2>4, <2>5 DEF SessionWork
    <2> QED
      BY <1>5, <1>t, <2>6, MoveKeeps DEF SweepTokens, r
  <1> QED
    BY <1>1, <1>2, <1>3, <1>4, <1>5 DEF Statement

\* A request that opens keeps the invariant.
LEMMA BeginKeeps ==
  ASSUME SInv, IInv', NEW p \in Req, NEW r, Begin(p, r), UNCHANGED <<tables, clock>>,
         SessionWork(r)
  PROVE  SInv'
  BY MoveKeeps DEF Begin

\* A smaller set of devices has fewer members.
LEMMA SmallerCount ==
  ASSUME NEW A, NEW B, IsFiniteSet(A), B \subseteq A
  PROVE  /\ Cardinality(B) <= Cardinality(A) /\ IsFiniteSet(B)
         /\ Cardinality(A) \in Nat /\ Cardinality(B) \in Nat
  BY FS_Subset, FS_CardinalityType

\* One more device is at most one more member.
LEMMA OneMore ==
  ASSUME NEW A, NEW x, IsFiniteSet(A)
  PROVE  /\ IsFiniteSet(A \cup {x}) /\ Cardinality(A \cup {x}) <= Cardinality(A) + 1
         /\ Cardinality(A) \in Nat
  <1>1. /\ IsFiniteSet(A \cup {x})
        /\ Cardinality(A \cup {x}) = IF x \in A THEN Cardinality(A) ELSE Cardinality(A) + 1
    BY FS_AddElement
  <1>2. Cardinality(A) \in Nat
    BY FS_CardinalityType
  <1> QED
    BY <1>1, <1>2

\* The count of a login stays good while its credential gets no device and keeps its
\* limit.
LEMMA CountedKept ==
  ASSUME SInv, NEW q \in Req, req'[q] = req[q],
         \A c \in Cred \cap req[q].held : /\ cred'[c].max = cred[c].max
                                          /\ ActiveDevices(c)' \subseteq ActiveDevices(c)
  PROVE  Counted(req[q])'
  <1>1. CASE req[q].op = "login" /\ req[q].dev = NoDev
    <2> DEFINE c == req[q].cred
    <2>1. c \in Cred \cap req[q].held
      BY <1>1, RequestFields DEF SInv, IInv, Work, RequestShape
    <2>2. /\ Cardinality(ActiveDevices(c)) < cred[c].max /\ IsFiniteSet(ActiveDevices(c))
          /\ cred[c].max \in Nat
      BY <1>1, <2>1 DEF SInv, SessionWork, Counted, RowLinks, IInv, TypeInv, TypeOK, Credential
    <2>3. \A x \in Cred \cap req[q].held : IsFiniteSet(ActiveDevices(x)) =>
             /\ Cardinality(ActiveDevices(x)') <= Cardinality(ActiveDevices(x))
             /\ Cardinality(ActiveDevices(x)) \in Nat /\ Cardinality(ActiveDevices(x)') \in Nat
      BY SmallerCount
    <2>4. \A x \in Cred \cap req[q].held : cred'[x].max = cred[x].max
      OBVIOUS
    <2>5. \A x \in Cred \cap req[q].held :
             Cardinality(ActiveDevices(x)) < cred[x].max /\ IsFiniteSet(ActiveDevices(x))
             /\ cred[x].max \in Nat
               => Cardinality(ActiveDevices(x)') < cred'[x].max
      BY <2>3, <2>4
    <2> QED
      BY <2>1, <2>2, <2>5 DEF Counted
  <1> QED
    BY <1>1 DEF Counted

\* A step that revokes rows or edits credentials, and closes request p if one, keeps
\* the invariant: it leaves the others less to lock.
LEMMA ShrinkKeeps ==
  ASSUME SInv, IInv',
         NEW P \in SUBSET Req, \A q \in Req : IF q \in P THEN req'[q] = Idle ELSE req'[q] = req[q],
         \A s \in Sess : sess'[s].dev = sess[s].dev /\ (sess[s].revoked => sess'[s].revoked),
         \A t \in Tok : /\ tok'[t].sess = tok[t].sess /\ tok'[t].used = tok[t].used
                        /\ tok[t].revoked => tok'[t].revoked,
         \A d \in Dev : dev'[d].cred = dev[d].cred /\ (dev[d].revoked => dev'[d].revoked),
         \A q \in Req \ P : \A c \in Cred \cap req[q].held : cred'[c].max = cred[c].max,
         \A q \in Req \ P : Rotation(req[q])',
         RevokedSessionHasNoLiveToken'
  PROVE  SInv'
  <1>1. FreshDev' = FreshDev /\ FreshSess' = FreshSess
    BY DEF FreshDev, FreshSess
  <1>2. \A c : ActiveDevices(c)' \subseteq ActiveDevices(c)
    BY DEF ActiveDevices
  <1>3. /\ \A S : LiveTokens(S)' \subseteq LiveTokens(S)
        /\ \A d : SessionsOfDevice(d)' = SessionsOfDevice(d)
        /\ \A d : LiveSessionsOfDevice(d)' \subseteq LiveSessionsOfDevice(d)
    BY DEF LiveTokens, SessionsOfDevice, LiveSessionsOfDevice
  <1>4. RowLinks'
    BY <1>1, <1>2, FS_Subset DEF SInv, RowLinks
  <1>5. OneExchangeableToken' /\ OneLiveSessionPerDevice'
    BY DEF SInv, OneExchangeableToken, OneLiveSessionPerDevice
  <1>6. \A q \in Req \ P : Counted(req[q])'
    BY <1>2, CountedKept
  <1>7. \A q \in Req \ P : SessionWork(req[q])'
    BY <1>1, <1>3, <1>6, RequestKept
  <1>8. SessionWork(Idle)'
    BY ReaderAccessAssumption DEF SessionWork, Queue, Covers, Rotation, Counted, Idle, FreshDev
  <1>9. (\A q \in Req : SessionWork(req[q]))'
    BY <1>7, <1>8
  <1> QED
    BY <1>4, <1>5, <1>9 DEF SInv

\* Revoking the locked rows, when nothing is waited for, revokes with each session
\* its tokens, and no session or token of a refresh under way.
LEMMA RevokeHeldKeeps ==
  ASSUME SInv, IInv', NEW p \in Req, Close(p), RevokeHeld(p), req[p].op # "none",
         req[p].step \in {"sweep", "commit"},
         \A d \in Dev : dev'[d].cred = dev[d].cred /\ (dev[d].revoked => dev'[d].revoked),
         \A c \in Cred : \/ cred'[c].max = cred[c].max
                         \/ \A q \in Req \ {p} : c \notin req[q].held
  PROVE  SInv'
  <1>1. /\ \A s \in Sess : /\ sess'[s].dev = sess[s].dev
                           /\ sess'[s].revoked <=> sess[s].revoked \/ s \in req[p].held
        /\ \A t \in Tok : /\ tok'[t].sess = tok[t].sess
                          /\ tok'[t].revoked <=> tok[t].revoked \/ t \in req[p].held
    BY RevokeHeldRows DEF SInv
  <1>2. \A t \in Tok : tok'[t].used = tok[t].used
    BY DEF RevokeHeld, SInv, IInv, TypeInv, TypeOK, RefreshToken
  <1>3. \A q \in Req : IF q \in {p} THEN req'[q] = Idle ELSE req'[q] = req[q]
    BY DEF Close, Move, SInv, IInv, TypeInv, TypeOK
  <1>4. \A s \in Sess \cap req[p].held : LiveTokens({s}) \subseteq req[p].held
    BY DEF SInv, SessionWork, Queue, Covers
  <1>5. RevokedSessionHasNoLiveToken'
    BY <1>1, <1>4 DEF SInv, RevokedSessionHasNoLiveToken, LiveTokens
  <1>6. ASSUME NEW q \in Req \ {p} PROVE Rotation(req[q])'
    <2>1. CASE req[q].op = "rotate"
      <3> DEFINE t == req[q].tok
      <3>1. t \in Tok /\ tok[t].sess \in Sess /\ t \in req[q].held /\ ~tok[t].revoked
        BY <2>1, RequestFields DEF SInv, IInv, RequestShape, SessionWork, Rotation
      <3>2. t \notin req[p].held
        BY <3>1 DEF SInv, IInv, Exclusive
      <3>3. tok[t].sess \notin req[p].held
        BY <1>4, <3>1, <3>2 DEF LiveTokens
      <3> QED
        BY <1>1, <1>2, <1>3, <3>1, <3>2, <3>3 DEF SInv, SessionWork, Rotation
    <2> QED
      BY <1>3, <2>1 DEF Rotation
  <1> QED
    BY <1>1, <1>2, <1>3, <1>5, <1>6, ShrinkKeeps

LEMMA RevocationKeeps ==
  ASSUME SInv, NEW p \in Req, Revocation(p)
  PROVE  SInv'
  <1>t. IInv'
    BY RevocationSafe DEF SInv
  <1>1. ASSUME NEW S, UNCHANGED <<tables, clock>>,
               Begin(p, [Idle EXCEPT !.op = "revokeSessions", !.step = "sweep", !.todo = S])
        PROVE  SInv'
    <2> DEFINE r == [Idle EXCEPT !.op = "revokeSessions", !.step = "sweep", !.todo = S]
    <2>1. SessionWork(r)
      BY ReaderAccessAssumption
      DEF SessionWork, Queue, Covers, Rotation, Counted, Idle, FreshDev
    <2> QED
      BY <1>1, <1>t, <2>1, BeginKeeps
  <1>2. ASSUME NEW s \in Sess, RevokeSession(p, s) PROVE SInv'
    BY <1>1, <1>2 DEF RevokeSession
  <1>3. ASSUME NEW s \in Sess, RevokeOtherSessions(p, s) PROVE SInv'
    BY <1>1, <1>3 DEF RevokeOtherSessions
  <1>4. ASSUME NEW c \in Cred, RevokeAllSessions(p, c) PROVE SInv'
    BY <1>1, <1>4 DEF RevokeAllSessions
  <1>5. CASE RevokeSessionsCommit(p)
    BY <1>5, <1>t, RevokeHeldKeeps DEF RevokeSessionsCommit, SweepDone
  <1>6. ASSUME NEW d \in Dev, RevokeDevice(p, d) PROVE SInv'
    <2> DEFINE r == [Idle EXCEPT !.op = "revokeDevice", !.step = "device", !.dev = d]
    <2>1. SessionWork(r)
      BY <1>6 DEF SessionWork, Queue, Covers, Rotation, Counted, Idle, RevokeDevice
    <2> QED
      BY <1>6, <1>t, <2>1, BeginKeeps DEF RevokeDevice
  <1>7. CASE RevokeDeviceCommit(p)
    <2>1. \A d \in Dev : dev'[d].cred = dev[d].cred /\ (dev[d].revoked => dev'[d].revoked)
      BY <1>7 DEF RevokeDeviceCommit, SInv, IInv, TypeInv, TypeOK, Device
    <2> QED
      BY <1>7, <1>t, <2>1, RevokeHeldKeeps DEF RevokeDeviceCommit
  <1> QED
    BY <1>2, <1>3, <1>4, <1>5, <1>6, <1>7 DEF Revocation

\* The UPDATE of the devices only revokes.
LEMMA DevicesRevokedKeep ==
  ASSUME SInv, NEW c
  PROVE  \A d \in Dev : /\ DevicesRevoked(c)[d].cred = dev[d].cred
                        /\ dev[d].revoked => DevicesRevoked(c)[d].revoked
  BY DEF DevicesRevoked, SInv, IInv, TypeInv, TypeOK, Device

LEMMA LifecycleKeeps ==
  ASSUME SInv, NEW p \in Req, Lifecycle(p)
  PROVE  SInv'
  <1>t. IInv'
    BY LifecycleSafe DEF SInv
  <1>0. cred \in [Cred -> Credential]
    BY DEF SInv, IInv, TypeInv, TypeOK
  <1>1. ASSUME NEW c \in Cred, NEW o \in {"suspend", "revoke"},
               Begin(p, [Idle EXCEPT !.op = o, !.step = "sweep", !.cred = c,
                                     !.held = {c}, !.todo = LiveSessionsOfCred(c)]),
               UNCHANGED <<tables, clock>>
        PROVE  SInv'
    <2> DEFINE r == [Idle EXCEPT !.op = o, !.step = "sweep", !.cred = c,
                                 !.held = {c}, !.todo = LiveSessionsOfCred(c)]
    <2>1. SessionWork(r)
      BY ReaderAccessAssumption
      DEF SessionWork, Queue, Covers, Rotation, Counted, Idle, FreshDev
    <2> QED
      BY <1>1, <1>t, <2>1, BeginKeeps
  <1>2. ASSUME NEW c \in Cred, SuspendLock(p, c) PROVE SInv'
    BY <1>1, <1>2 DEF SuspendLock
  <1>3. ASSUME NEW c \in Cred, RevokeLock(p, c) PROVE SInv'
    BY <1>1, <1>3 DEF RevokeLock
  <1>4. ASSUME NEW c \in Cred, Resume(p, c) PROVE SInv'
    <2>1. \A x \in Cred : cred'[x].max = cred[x].max
      BY <1>0, <1>4 DEF Resume, Credential
    <2>2. RevokedSessionHasNoLiveToken' /\ \A q \in Req : Rotation(req[q])'
      BY <1>4 DEF Resume, SInv, RevokedSessionHasNoLiveToken, SessionWork, Rotation
    <2>3. \A q \in Req : IF q \in {} THEN req'[q] = Idle ELSE req'[q] = req[q]
      BY <1>4 DEF Resume
    <2>4. UNCHANGED <<dev, sess, tok>>
      BY <1>4 DEF Resume
    <2>5. {} \in SUBSET Req /\ Req \ {} = Req
      OBVIOUS
    <2> QED
      BY <1>t, <2>1, <2>2, <2>3, <2>4, <2>5, ShrinkKeeps
  <1>5. CASE SuspendCommit(p)
    <2>1. \A x \in Cred : cred'[x].max = cred[x].max
      BY <1>0, <1>5 DEF SuspendCommit, Credential
    <2> QED
      BY <1>5, <1>t, <2>1, RevokeHeldKeeps DEF SuspendCommit, SweepDone
  <1>6. CASE RevokeCommit(p)
    <2>1. \A x \in Cred : cred'[x].max = cred[x].max
      BY <1>0, <1>6 DEF RevokeCommit, Credential
    <2> QED
      BY <1>6, <1>t, <2>1, RevokeHeldKeeps, DevicesRevokedKeep DEF RevokeCommit, SweepDone
  <1>7. ASSUME NEW r \in Reader, NEW e \in Time, ReissueRead(p, r, e) PROVE SInv'
    <2>1. ASSUME NEW x, x.op = "reissue", x.step \in {"read", "sweep"}, x.dev = NoDev,
                 x.wait = {}, x.held = {}, Begin(p, x)
          PROVE  SInv'
      <3>1. SessionWork(x)
        BY <2>1, ReaderAccessAssumption
        DEF SessionWork, Queue, Covers, Rotation, Counted, FreshDev
      <3> QED
        BY <1>7, <1>t, <2>1, <3>1, BeginKeeps DEF ReissueRead
    <2>2. ASSUME NEW c,
                 Begin(p, [Idle EXCEPT !.op = "reissue", !.step = "read",
                                       !.reader = r, !.cred = c, !.expires = e])
          PROVE  SInv'
      BY <2>1, <2>2 DEF Idle
    <2>3. CASE Begin(p, [Idle EXCEPT !.op = "reissue", !.step = "sweep",
                                     !.reader = r, !.expires = e])
      BY <2>1, <2>3 DEF Idle
    <2> QED
      BY <1>7, <2>2, <2>3 DEF ReissueRead
  <1>8. CASE ReissueLock(p)
    <2> DEFINE c == req[p].cred
               r == [req[p] EXCEPT !.step = "sweep", !.held = {c},
                                   !.todo = LiveSessionsOfCred(c)]
    <2>1. req[p] \in Request /\ c \in Cred /\ SessionWork(req[p])
          /\ req[p].op = "reissue" /\ req[p].step = "read"
      BY <1>8, RequestFields DEF SInv, IInv, ReissueLock, RequestShape
    <2>2. /\ r.cred = c /\ r.held = {c} /\ r.wait = {} /\ r.dev = req[p].dev
          /\ r.step = "sweep" /\ r.op = "reissue"
      BY <2>1 DEF Request, SessionWork, Queue
    <2>3. SessionWork(r)
      BY <2>1, <2>2, ReaderAccessAssumption
      DEF SessionWork, Queue, Covers, Rotation, Counted
    <2> QED
      BY <1>8, <1>t, <2>3, MoveKeeps DEF ReissueLock
  <1>9. ASSUME NEW n \in Cred, NEW m \in Limits, NEW a \in BOOLEAN, ReissueCommit(p, n, m, a)
        PROVE  SInv'
    <2>1. \A x \in Cred \ {n} : cred'[x].max = cred[x].max
      BY <1>0, <1>9 DEF ReissueCommit, Credential
    <2>2. \A q \in Req : n \notin req[q].held
      BY <1>9 DEF ReissueCommit, SInv, IInv, Work
    <2>3. \A d \in Dev : dev'[d].cred = dev[d].cred /\ (dev[d].revoked => dev'[d].revoked)
      BY <1>9, DevicesRevokedKeep DEF ReissueCommit
    <2> QED
      BY <1>9, <1>t, <2>1, <2>2, <2>3, RevokeHeldKeeps DEF ReissueCommit, SweepDone
  <1> QED
    BY <1>2, <1>3, <1>4, <1>5, <1>6, <1>7, <1>8, <1>9 DEF Lifecycle

LEMMA UpdateKeeps ==
  ASSUME SInv, NEW p \in Req, Update(p)
  PROVE  SInv'
  <1>t. IInv'
    BY UpdateSafe DEF SInv
  <1>0. cred \in [Cred -> Credential]
    BY DEF SInv, IInv, TypeInv, TypeOK
  <1>1. ASSUME NEW c \in Cred, NEW e \in Time, UpdateRead(p, c, e) PROVE SInv'
    <2> DEFINE r == [Idle EXCEPT !.op = "update", !.cred = c, !.expires = e,
                                 !.step = IF e <= clock THEN "read" ELSE "commit"]
    <2>1. SessionWork(r)
      BY ReaderAccessAssumption
      DEF SessionWork, Queue, Covers, Rotation, Counted, Idle, FreshDev
    <2> QED
      BY <1>1, <1>t, <2>1, BeginKeeps DEF UpdateRead
  <1>2. CASE ExpireLock(p)
    <2> DEFINE c == req[p].cred
               r == [req[p] EXCEPT !.step = "sweep", !.held = {c},
                                   !.todo = LiveSessionsOfCred(c)]
    <2>1. req[p] \in Request /\ c \in Cred /\ SessionWork(req[p])
          /\ req[p].op = "update" /\ req[p].step = "read"
      BY <1>2, RequestFields DEF SInv, IInv, ExpireLock, RequestShape
    <2>2. /\ r.cred = c /\ r.held = {c} /\ r.wait = {} /\ r.dev = req[p].dev
          /\ r.step = "sweep" /\ r.op = "update"
      BY <2>1 DEF Request, SessionWork, Queue
    <2>3. SessionWork(r)
      BY <2>1, <2>2, ReaderAccessAssumption
      DEF SessionWork, Queue, Covers, Rotation, Counted
    <2> QED
      BY <1>2, <1>t, <2>3, MoveKeeps DEF ExpireLock
  <1>3. ASSUME NEW c \in Cred, NEW e \in Time, NEW m \in Limits, NEW a \in BOOLEAN,
               cred' = UpdateFields(c, e, m, a)
        PROVE  \A x \in Cred \ {c} : cred'[x].max = cred[x].max
    BY <1>0, <1>3 DEF UpdateFields, Credential
  <1>4. req[p].expires \in Time /\ (req[p].op = "update" => req[p].cred \in Cred)
    BY RequestFields DEF SInv, IInv, RequestShape
  <1>5. ASSUME NEW m \in Limits, NEW a \in BOOLEAN, UpdateCommit(p, m, a) PROVE SInv'
    <2>1. \A x \in Cred \ {req[p].cred} : cred'[x].max = cred[x].max
      BY <1>3, <1>4, <1>5 DEF UpdateCommit
    <2>2. \A q \in Req \ {p} : req[p].cred \notin req[q].held
      BY <1>5 DEF UpdateCommit, Free
    <2>3. \A q \in Req : IF q \in {p} THEN req'[q] = Idle ELSE req'[q] = req[q]
      BY <1>5 DEF UpdateCommit, Close, Move, SInv, IInv, TypeInv, TypeOK
    <2>4. UNCHANGED <<dev, sess, tok>>
      BY <1>5 DEF UpdateCommit
    <2>5. RevokedSessionHasNoLiveToken' /\ \A q \in Req \ {p} : Rotation(req[q])'
      BY <2>3, <2>4 DEF SInv, RevokedSessionHasNoLiveToken, SessionWork, Rotation
    <2> QED
      BY <1>t, <2>1, <2>2, <2>3, <2>4, <2>5, ShrinkKeeps
  <1>6. ASSUME NEW m \in Limits, NEW a \in BOOLEAN, ExpireCommit(p, m, a) PROVE SInv'
    <2>1. \A x \in Cred \ {req[p].cred} : cred'[x].max = cred[x].max
      BY <1>3, <1>4, <1>6 DEF ExpireCommit, SweepDone
    <2>2. req[p].cred \in req[p].held
      BY <1>6 DEF ExpireCommit, SweepDone, SInv, SessionWork, Queue
    <2>3. \A q \in Req \ {p} : req[p].cred \notin req[q].held
      BY <2>2 DEF SInv, IInv, Exclusive
    <2>4. UNCHANGED dev
      BY <1>6 DEF ExpireCommit
    <2> QED
      BY <1>6, <1>t, <2>1, <2>3, <2>4, RevokeHeldKeeps DEF ExpireCommit, SweepDone
  <1> QED
    BY <1>1, <1>2, <1>5, <1>6 DEF Update

LEMMA RotateKeeps ==
  ASSUME SInv, IInv', NEW p \in Req, NEW n \in Tok, RotateCommit(p, n)
  PROVE  SInv'
  <1> DEFINE t == req[p].tok
             s == tok[t].sess
  <1>1. /\ t \in Tok /\ s \in Sess /\ s \notin FreshSess /\ t \in req[p].held
        /\ ~tok[t].used /\ sess[s].dev = req[p].dev /\ ~sess[s].revoked
    BY RequestFields DEF RotateCommit, SInv, IInv, RequestShape, SessionWork, Rotation, RowLinks
  <1>2. n # t /\ tok[n].sess = NoSess /\ NoSess \notin Sess
    BY <1>1, ReaderAccessAssumption DEF RotateCommit, FreshTok
  <1>3. /\ tok'[n].sess = s /\ ~tok'[n].used /\ ~tok'[n].revoked
        /\ tok'[t].sess = s /\ tok'[t].used /\ tok'[t].revoked = tok[t].revoked
        /\ \A u \in Tok \ {n, t} : tok'[u] = tok[u]
        /\ UNCHANGED <<cred, dev, sess>>
    BY <1>1, <1>2 DEF RotateCommit, SInv, IInv, TypeInv, TypeOK, RefreshToken
  <1>4. FreshDev' = FreshDev /\ FreshSess' = FreshSess
        /\ \A c : ActiveDevices(c)' = ActiveDevices(c)
    BY <1>3 DEF FreshDev, FreshSess, ActiveDevices
  <1>5. RowLinks'
    BY <1>1, <1>3, <1>4 DEF SInv, RowLinks
  <1>6. RevokedSessionHasNoLiveToken'
    BY <1>1, <1>3 DEF SInv, RevokedSessionHasNoLiveToken
  <1>7. OneExchangeableToken'
    <2>1. \A u \in Tok : tok[u].sess = s /\ ~tok[u].used => u = t
      BY <1>1 DEF SInv, OneExchangeableToken
    <2>2. \A u \in Tok : tok'[u].sess = s /\ ~tok'[u].used => u = n
      BY <1>3, <2>1
    <2>3. \A u \in Tok \ {n, t} : tok'[u].sess = tok[u].sess /\ tok'[u].used = tok[u].used
      BY <1>3
    <2> QED
      BY <1>3, <2>2, <2>3 DEF SInv, OneExchangeableToken
  <1>8. OneLiveSessionPerDevice'
    BY <1>3 DEF SInv, OneLiveSessionPerDevice
  <1>9. ASSUME NEW q \in Req \ {p} PROVE SessionWork(req[q])'
    <2>1. req'[q] = req[q]
      BY DEF RotateCommit, Close, Move, SInv, IInv, TypeInv, TypeOK
    <2>2. s \notin req[q].held /\ req[p].dev \notin req[q].held /\ t \notin req[q].held
      BY <1>1 DEF RotateCommit, Free, RotateRows, SInv, IInv, Exclusive
    <2>3. \A x \in Sess \ {s} : LiveTokens({x})' \subseteq LiveTokens({x})
      BY <1>3 DEF LiveTokens
    <2>4. \A d \in Dev : /\ d # req[p].dev => s \notin SessionsOfDevice(d)
                         /\ SessionsOfDevice(d)' = SessionsOfDevice(d)
                         /\ LiveSessionsOfDevice(d)' = LiveSessionsOfDevice(d)
      BY <1>1, <1>3 DEF SessionsOfDevice, LiveSessionsOfDevice
    <2>5. \A S : s \notin S => LiveTokens(S)' \subseteq LiveTokens(S)
      BY <1>3 DEF LiveTokens
    <2>6. \A d \in Dev \cap req[q].held :
             /\ LiveTokens(SessionsOfDevice(d))' \subseteq LiveTokens(SessionsOfDevice(d))
             /\ LiveSessionsOfDevice(d)' \subseteq LiveSessionsOfDevice(d)
      BY <2>2, <2>4, <2>5
    <2>7. Rotation(req[q])'
      <3>1. CASE req[q].op = "rotate"
        <4>1. req[q].tok \in Tok /\ req[q].tok \in req[q].held /\ tok[req[q].tok].sess \in Sess
          BY <3>1, RequestFields DEF SInv, IInv, RequestShape, SessionWork, Rotation
        <4>2. req[q].tok \notin {n, t}
          BY <1>2, <2>2, <4>1
        <4> QED
          BY <1>3, <2>1, <4>1, <4>2 DEF SInv, SessionWork, Rotation
      <3> QED
        BY <2>1, <3>1 DEF Rotation
    <2>8. Counted(req[q])'
      BY <1>3, <1>4, <2>1 DEF SInv, SessionWork, Counted
    <2>9. \A x \in Sess \cap req[q].held : LiveTokens({x})' \subseteq LiveTokens({x})
      BY <2>2, <2>3
    <2> QED
      BY <1>3, <1>4, <2>1, <2>6, <2>7, <2>8, <2>9, RequestKept
  <1>10. SessionWork(Idle)' /\ req'[p] = Idle
    BY ReaderAccessAssumption
    DEF SessionWork, Queue, Covers, Rotation, Counted, Idle, FreshDev, RotateCommit, Close,
        Move, SInv, IInv, TypeInv, TypeOK
  <1>11. (\A q \in Req : SessionWork(req[q]))'
    BY <1>9, <1>10
  <1> QED
    BY <1>5, <1>6, <1>7, <1>8, <1>11 DEF SInv

LEMMA RefreshKeeps ==
  ASSUME SInv, NEW p \in Req, Refresh(p)
  PROVE  SInv'
  <1>t. IInv'
    BY RefreshSafe DEF SInv
  <1>1. ASSUME NEW t \in Tok, NEW d \in Dev, RefreshReuse(p, t, d) PROVE SInv'
    <2> DEFINE r == [Idle EXCEPT !.op = "revokeSessions", !.step = "sweep",
                                 !.held = {t}, !.todo = {tok[t].sess}]
    <2>1. SessionWork(r)
      BY ReaderAccessAssumption
      DEF SessionWork, Queue, Covers, Rotation, Counted, Idle, FreshDev
    <2> QED
      BY <1>1, <1>t, <2>1, BeginKeeps DEF RefreshReuse
  <1>2. ASSUME NEW t \in Tok, NEW d \in Dev, RefreshExpired(p, t, d) PROVE SInv'
    <2>1. /\ \A u \in Tok : /\ tok'[u].sess = tok[u].sess /\ tok'[u].used = tok[u].used
                            /\ tok[u].revoked => tok'[u].revoked
          /\ \A u \in Tok \ {t} : tok'[u] = tok[u]
          /\ UNCHANGED <<cred, dev, sess, req>>
      BY <1>2 DEF RefreshExpired, SInv, IInv, TypeInv, TypeOK, RefreshToken
    <2>2. RevokedSessionHasNoLiveToken'
      BY <2>1 DEF SInv, RevokedSessionHasNoLiveToken
    <2>3. ASSUME NEW q \in Req PROVE Rotation(req[q])'
      <3>1. CASE req[q].op = "rotate"
        <4>1. req[q].tok \in Tok /\ req[q].tok \in req[q].held
          BY <3>1, RequestFields DEF SInv, IInv, RequestShape, SessionWork, Rotation
        <4>2. req[q].tok # t
          BY <1>2, <3>1, <4>1 DEF RefreshExpired, RefreshStart, RefreshRow, Free
        <4> QED
          BY <2>1, <4>1, <4>2 DEF SInv, SessionWork, Rotation
      <3> QED
        BY <2>1, <3>1 DEF Rotation
    <2>4. {} \in SUBSET Req /\ Req \ {} = Req
      OBVIOUS
    <2> QED
      BY <1>t, <2>1, <2>2, <2>3, <2>4, ShrinkKeeps
  <1>3. ASSUME NEW t \in Tok, NEW d \in Dev, RefreshRotate(p, t, d) PROVE SInv'
    <2> DEFINE r == [Idle EXCEPT !.op = "rotate", !.step = "commit",
                                 !.dev = d, !.tok = t, !.held = {t}]
    <2>1. /\ ~tok[t].used /\ ~tok[t].revoked /\ tok[t].sess \in Sess
          /\ sess[tok[t].sess].dev = d /\ ~sess[tok[t].sess].revoked
      BY <1>3
      DEF RefreshRotate, RefreshStart, ActiveContext, SInv, IInv, TypeInv, TypeOK, RefreshToken
    <2>2. d \notin FreshDev
      BY <2>1 DEF SInv, RowLinks
    <2>3. SessionWork(r)
      BY <2>1, <2>2, ReaderAccessAssumption
      DEF SessionWork, Queue, Covers, Rotation, Counted, Idle
    <2> QED
      BY <1>3, <1>t, <2>3, BeginKeeps DEF RefreshRotate
  <1> QED
    BY <1>1, <1>2, <1>3, <1>t, RotateKeeps DEF Refresh

LEMMA LoginCommitKeeps ==
  ASSUME SInv, IInv', NEW p \in Req, NEW d \in Dev, NEW s \in Sess, NEW t \in Tok,
         LoginCommit(p, d, s, t)
  PROVE  SInv'
  <1> DEFINE c == req[p].cred
             H == req[p].held
  <1>1. /\ c \in Cred /\ c \in H /\ req[p].wait = {} /\ s \in FreshSess /\ t \in FreshTok
        /\ H \cap (FreshSess \cup FreshTok) = {}
    BY RequestFields
    DEF SInv, IInv, Work, LoginCommit, RequestShape, SessionWork, Queue
  <1>2. /\ sess'[s].dev = d /\ ~sess'[s].revoked
        /\ \A x \in Sess \ {s} : /\ sess'[x].dev = sess[x].dev
                                 /\ sess'[x].revoked <=> sess[x].revoked \/ x \in H
    BY DEF LoginCommit, SInv, IInv, TypeInv, TypeOK, Session
  <1>3. /\ tok'[t].sess = s /\ ~tok'[t].revoked
        /\ \A x \in Tok \ {t} : /\ tok'[x].sess = tok[x].sess /\ tok'[x].used = tok[x].used
                                /\ tok'[x].revoked <=> tok[x].revoked \/ x \in H
    BY DEF LoginCommit, SInv, IInv, TypeInv, TypeOK, RefreshToken
  <1>4. /\ dev'[d].cred = c /\ dev'[d].revoked = dev[d].revoked
        /\ \A x \in Dev \ {d} : dev'[x] = dev[x]
        /\ cred' = cred /\ NoCred \notin Cred
    BY ReaderAccessAssumption DEF LoginCommit, SInv, IInv, TypeInv, TypeOK, Device
  <1>5. \A q \in Req \ {p} : req'[q] = req[q] /\ req[q].held \cap H = {}
    BY DEF LoginCommit, Close, Move, SInv, IInv, TypeInv, TypeOK, Exclusive
  <1>6. (d \in H /\ d = req[p].dev) \/ d \in FreshDev
    BY DEF LoginCommit, SInv, SessionWork, Queue
  <1>7. FreshDev' \subseteq FreshDev /\ d \notin FreshDev' /\ FreshSess' \subseteq FreshSess \ {s}
    BY <1>1, <1>2, <1>4, ReaderAccessAssumption DEF FreshDev, FreshSess
  <1>8. \A x \in Tok : tok[x].sess # s
    BY <1>1 DEF SInv, RowLinks
  <1>9. \A x \in Sess \cap H : LiveTokens({x}) \subseteq H
    BY <1>1 DEF SInv, SessionWork, Covers
  <1>10. \A x \in Sess \ {s} : sess[x].dev = d /\ ~sess[x].revoked => x \in H
    <2>1. CASE d \in H /\ d = req[p].dev
      BY <1>1, <2>1 DEF LoginCommit, SInv, SessionWork, Covers, LiveSessionsOfDevice
    <2>2. CASE d \in FreshDev
      BY <2>2 DEF SInv, RowLinks
    <2> QED
      BY <1>6, <2>1, <2>2
  <1>11. \A x \in Cred : /\ ActiveDevices(x)' \subseteq ActiveDevices(x) \cup {d}
                         /\ x # c => ActiveDevices(x)' \subseteq ActiveDevices(x)
    BY <1>4 DEF ActiveDevices
  <1>12. RowLinks'
    <2>1. \A x \in Cred : IsFiniteSet(ActiveDevices(x) \cup {d})
      BY FS_AddElement DEF SInv, RowLinks
    <2>2. \A x \in Cred : IsFiniteSet(ActiveDevices(x)')
      BY <1>11, <2>1, FS_Subset
    <2>3. \A x \in Tok : tok'[x].sess \notin FreshSess'
      BY <1>3, <1>7 DEF SInv, RowLinks
    <2>4. \A x \in Sess : sess'[x].dev \notin FreshDev'
      BY <1>2, <1>7 DEF SInv, RowLinks
    <2> QED
      BY <2>2, <2>3, <2>4 DEF RowLinks
  <1>13. RevokedSessionHasNoLiveToken'
    BY <1>2, <1>3, <1>8, <1>9 DEF SInv, RevokedSessionHasNoLiveToken, LiveTokens
  <1>14. OneExchangeableToken'
    BY <1>3, <1>8 DEF SInv, OneExchangeableToken
  <1>15. OneLiveSessionPerDevice'
    BY <1>2, <1>10 DEF SInv, OneLiveSessionPerDevice
  <1>16. ASSUME NEW q \in Req \ {p} PROVE SessionWork(req[q])'
    <2>1. /\ req'[q] = req[q] /\ req[q].held \cap H = {} /\ s \notin req[q].held
          /\ t \notin req[q].held /\ SessionWork(req[q])
      BY <1>1, <1>5 DEF SInv, IInv, Work
    <2>2. \A x \in Sess \ {s} : LiveTokens({x})' \subseteq LiveTokens({x})
      BY <1>3 DEF LiveTokens
    <2>3. req[q].dev \in Dev \cap req[q].held => req[q].dev # d
      BY <1>6, <2>1 DEF SessionWork, Queue
    <2>4. \A x \in Dev \ {d} : /\ SessionsOfDevice(x)' \subseteq SessionsOfDevice(x)
                               /\ s \notin SessionsOfDevice(x)'
                               /\ LiveSessionsOfDevice(x)' \subseteq LiveSessionsOfDevice(x)
      BY <1>2 DEF SessionsOfDevice, LiveSessionsOfDevice
    <2>5. \A x \in Dev \ {d} : LiveTokens(SessionsOfDevice(x))' \subseteq
                                 LiveTokens(SessionsOfDevice(x))
      BY <1>3, <2>4 DEF LiveTokens
    <2>6. Rotation(req[q])'
      <3>1. CASE req[q].op = "rotate"
        <4> DEFINE u == req[q].tok
        <4>1. /\ u \in Tok /\ u \in req[q].held /\ tok[u].sess \in Sess \ {s} /\ ~tok[u].revoked
          BY <1>8, <2>1, <3>1, RequestFields
          DEF SInv, IInv, RequestShape, SessionWork, Rotation
        <4>2. u # t /\ u \notin H
          BY <2>1, <4>1
        <4>3. tok[u].sess \notin H
          BY <1>9, <4>1, <4>2 DEF LiveTokens
        <4> QED
          BY <1>2, <1>3, <2>1, <3>1, <4>1, <4>2, <4>3 DEF SessionWork, Rotation
      <3> QED
        BY <2>1, <3>1 DEF Rotation
    <2>7. Counted(req[q])'
      <3>1. \A x \in Cred \cap req[q].held : x # c
        BY <1>1, <2>1
      <3> QED
        BY <1>4, <1>11, <2>1, <3>1, CountedKept
    <2>8. \A x \in Dev \cap req[q].held : x = req[q].dev =>
             /\ LiveTokens(SessionsOfDevice(x))' \subseteq LiveTokens(SessionsOfDevice(x))
             /\ LiveSessionsOfDevice(x)' \subseteq LiveSessionsOfDevice(x)
      BY <2>3, <2>4, <2>5
    <2>9. \A x \in Sess \cap req[q].held : LiveTokens({x})' \subseteq LiveTokens({x})
      BY <2>1, <2>2
    <2>10. \A x \in Sess \ FreshSess : sess'[x].dev = sess[x].dev
      BY <1>1, <1>2
    <2> QED
      BY <1>7, <2>1, <2>6, <2>7, <2>8, <2>9, <2>10, RequestKept
  <1>17. SessionWork(Idle)' /\ req'[p] = Idle
    BY ReaderAccessAssumption
    DEF SessionWork, Queue, Covers, Rotation, Counted, Idle, FreshDev, LoginCommit, Close,
        Move, SInv, IInv, TypeInv, TypeOK
  <1>18. (\A q \in Req : SessionWork(req[q]))'
    BY <1>16, <1>17
  <1> QED
    BY <1>12, <1>13, <1>14, <1>15, <1>18 DEF SInv

LEMMA LoginKeeps ==
  ASSUME SInv, NEW p \in Req, Login(p)
  PROVE  SInv'
  <1>t. IInv'
    BY LoginSafe DEF SInv
  <1>1. ASSUME NEW c \in Cred, NEW now \in 0 .. clock, NEW d \in Dev,
               LoginKnownDevice(p, c, d, now)
        PROVE  SInv'
    <2> DEFINE r == [Idle EXCEPT !.op = "login", !.step = "device", !.cred = c,
                                 !.dev = d, !.held = {c},
                                 !.expires = Earlier(cred[c].expires, now + TTL)]
    <2>1. d \notin FreshDev
      BY <1>1, ReaderAccessAssumption DEF LoginKnownDevice, PresentedDevice, ActiveDevices, FreshDev
    <2>2. SessionWork(r)
      BY <2>1, ReaderAccessAssumption
      DEF SessionWork, Queue, Covers, Rotation, Counted, Idle
    <2> QED
      BY <1>1, <1>t, <2>2, BeginKeeps DEF LoginKnownDevice
  <1>2. ASSUME NEW c \in Cred, NEW now \in 0 .. clock, LoginNewDevice(p, c, now)
        PROVE  SInv'
    <2> DEFINE r == [Idle EXCEPT !.op = "login", !.step = "commit", !.cred = c,
                                 !.held = {c},
                                 !.expires = Earlier(cred[c].expires, now + TTL)]
    <2>1. Cardinality(ActiveDevices(c)) < cred[c].max
      BY <1>2 DEF LoginNewDevice
    <2>2. SessionWork(r)
      BY <2>1, ReaderAccessAssumption
      DEF SessionWork, Queue, Covers, Rotation, Counted, Idle, FreshDev
    <2> QED
      BY <1>2, <1>t, <2>2, BeginKeeps DEF LoginNewDevice
  <1> QED
    BY <1>1, <1>2, <1>t, LoginCommitKeeps DEF Login

LEMMA NextSInv == SInv /\ [Next]_vars => SInv'
  <1> SUFFICES ASSUME SInv, [Next]_vars PROVE SInv'
    OBVIOUS
  <1>t. IInv'
    BY NextIInv DEF SInv
  <1>i. {} \in SUBSET Req /\ Req \ {} = Req
    OBVIOUS
  <1>1. ASSUME NEW p \in Req, Rollback(p) PROVE SInv'
    <2>1. SessionWork(Idle)
      BY ReaderAccessAssumption
      DEF SessionWork, Queue, Covers, Rotation, Counted, Idle, FreshDev
    <2> QED
      BY <1>1, <1>t, <2>1, MoveKeeps DEF Rollback, Close
  <1>2. ASSUME NEW r \in Reader, NEW c \in Cred, NEW e \in Time, NEW m \in Limits,
               NEW a \in BOOLEAN, CreateReader(r, c, e, m, a)
        PROVE  SInv'
    <2>1. /\ c \in FreshCred /\ UNCHANGED <<dev, sess, tok, req>>
          /\ \A x \in Cred \ {c} : cred'[x] = cred[x]
      BY <1>2 DEF CreateReader, SInv, IInv, TypeInv, TypeOK
    <2>2. \A q \in Req : c \notin req[q].held
      BY <2>1 DEF SInv, IInv, Work
    <2>3. RevokedSessionHasNoLiveToken' /\ \A q \in Req : Rotation(req[q])'
      BY <2>1 DEF SInv, RevokedSessionHasNoLiveToken, SessionWork, Rotation
    <2>4. \A q \in Req : IF q \in {} THEN req'[q] = Idle ELSE req'[q] = req[q]
      BY <2>1
    <2> QED
      BY <1>t, <1>i, <2>1, <2>2, <2>3, <2>4, ShrinkKeeps
  <1>3. ASSUME UNCHANGED <<tables, req>> PROVE SInv'
    <2>1. RevokedSessionHasNoLiveToken' /\ \A q \in Req : Rotation(req[q])'
      BY <1>3 DEF SInv, RevokedSessionHasNoLiveToken, SessionWork, Rotation, tables
    <2>2. \A q \in Req : IF q \in {} THEN req'[q] = Idle ELSE req'[q] = req[q]
      BY <1>3
    <2>3. UNCHANGED <<cred, dev, sess, tok>>
      BY <1>3 DEF tables
    <2> QED
      BY <1>t, <1>i, <2>1, <2>2, <2>3, ShrinkKeeps
  <1>4. CASE Tick
    BY <1>3, <1>4 DEF Tick
  <1>5. CASE UNCHANGED vars
    BY <1>3, <1>5 DEF vars, tables
  <1> QED
    BY <1>1, <1>2, <1>4, <1>5, LoginKeeps, RefreshKeeps, RevocationKeeps, LifecycleKeeps,
       UpdateKeeps, StatementKeeps DEF Next

LEMMA SpecSInv == Spec => []SInv
  BY InitSInv, NextSInv, PTL DEF Spec

\* RevokedSessionIsClosed: a refresh that overlaps a logout, a revocation or a login
\* that replaces its session cannot leave a live token behind.
THEOREM RevokedSessionIsClosed == Spec => []RevokedSessionHasNoLiveToken
  <1>1. SInv => RevokedSessionHasNoLiveToken
    BY DEF SInv
  <1> QED
    BY <1>1, SpecSInv, PTL

\* TokensRotateOnce: two refreshes with one token never leave two tokens that can
\* both be exchanged.
THEOREM TokensRotateOnce == Spec => []OneExchangeableToken
  <1>1. SInv => OneExchangeableToken
    BY DEF SInv
  <1> QED
    BY <1>1, SpecSInv, PTL

\* LoginReplacesSession: however logins overlap, a device has one live session.
THEOREM LoginReplacesSession == Spec => []OneLiveSessionPerDevice
  <1>1. SInv => OneLiveSessionPerDevice
    BY DEF SInv
  <1> QED
    BY <1>1, SpecSInv, PTL

-----------------------------------------------------------------------------
(* The device limit.                                                       *)

\* What DeviceLimitAtAuthorization says of one step.
WithinLimit ==
  \A c \in Cred : \A d \in FreshDev :
    d \in ActiveDevices(c)' => Cardinality(ActiveDevices(c)') <= cred[c].max

\* Only a login that was not recognised on its device authorises one.
LEMMA LoginWithinLimit ==
  ASSUME SInv, NEW p \in Req, NEW d \in Dev, NEW s \in Sess, NEW t \in Tok,
         LoginCommit(p, d, s, t), NEW c \in Cred, NEW x \in FreshDev, x \in ActiveDevices(c)'
  PROVE  Cardinality(ActiveDevices(c)') <= cred[c].max
  <1>1. /\ dev'[d].cred = req[p].cred
        /\ \A y \in Dev \ {d} : dev'[y] = dev[y]
        /\ req[p].op = "login" /\ NoCred \notin Cred
    BY ReaderAccessAssumption DEF LoginCommit, SInv, IInv, TypeInv, TypeOK, Device
  <1>2. x = d /\ c = req[p].cred
    BY <1>1 DEF FreshDev, ActiveDevices
  <1>3. req[p].dev = NoDev
    BY <1>2 DEF LoginCommit, SInv, SessionWork, Queue
  <1>4. /\ Cardinality(ActiveDevices(c)) < cred[c].max /\ IsFiniteSet(ActiveDevices(c))
        /\ cred[c].max \in Nat
    BY <1>1, <1>2, <1>3
    DEF SInv, SessionWork, Counted, RowLinks, IInv, TypeInv, TypeOK, Credential
  <1>5. ActiveDevices(c)' \subseteq ActiveDevices(c) \cup {d}
    BY <1>1 DEF ActiveDevices
  <1>6. /\ IsFiniteSet(ActiveDevices(c) \cup {d}) /\ Cardinality(ActiveDevices(c)) \in Nat
        /\ Cardinality(ActiveDevices(c) \cup {d}) <= Cardinality(ActiveDevices(c)) + 1
    BY <1>4, OneMore, Zenon
  <1>7. /\ Cardinality(ActiveDevices(c)') <= Cardinality(ActiveDevices(c) \cup {d})
        /\ Cardinality(ActiveDevices(c)') \in Nat
        /\ Cardinality(ActiveDevices(c) \cup {d}) \in Nat
    BY <1>5, <1>6, SmallerCount, Zenon
  <1> QED
    BY <1>4, <1>6, <1>7

LEMMA NextWithinLimit == SInv /\ [Next]_vars => WithinLimit
  <1> SUFFICES ASSUME SInv, [Next]_vars PROVE WithinLimit
    OBVIOUS
  <1>0. dev \in [Dev -> Device]
    BY DEF SInv, IInv, TypeInv, TypeOK
  <1>1. ASSUME \A d \in Dev : dev'[d].cred = dev[d].cred PROVE WithinLimit
    BY <1>1, ReaderAccessAssumption DEF WithinLimit, FreshDev, ActiveDevices
  <1>2. ASSUME UNCHANGED dev PROVE WithinLimit
    BY <1>1, <1>2
  <1>3. ASSUME NEW p \in Req, Login(p) PROVE WithinLimit
    <2>1. ASSUME NEW d \in Dev, NEW s \in Sess, NEW t \in Tok, LoginCommit(p, d, s, t)
          PROVE  WithinLimit
      BY <2>1, LoginWithinLimit DEF WithinLimit
    <2> QED
      BY <1>2, <1>3, <2>1 DEF Login, LoginKnownDevice, LoginNewDevice, tables
  <1>4. ASSUME NEW p \in Req, Refresh(p) PROVE WithinLimit
    BY <1>2, <1>4
    DEF Refresh, RefreshReuse, RefreshExpired, RefreshRotate, RotateCommit, tables
  <1>5. ASSUME NEW p \in Req, Revocation(p) PROVE WithinLimit
    <2>1. CASE RevokeDeviceCommit(p)
      BY <1>0, <1>1, <2>1 DEF RevokeDeviceCommit, Device
    <2> QED
      BY <1>2, <1>5, <2>1
      DEF Revocation, RevokeSession, RevokeOtherSessions, RevokeAllSessions,
          RevokeSessionsCommit, RevokeDevice, tables
  <1>6. ASSUME NEW p \in Req, Lifecycle(p) PROVE WithinLimit
    <2>1. CASE RevokeCommit(p)
      BY <1>1, <2>1, DevicesRevokedKeep DEF RevokeCommit
    <2>2. ASSUME NEW n \in Cred, NEW m \in Limits, NEW a \in BOOLEAN,
                 ReissueCommit(p, n, m, a)
          PROVE  WithinLimit
      BY <1>1, <2>2, DevicesRevokedKeep DEF ReissueCommit
    <2> QED
      BY <1>2, <1>6, <2>1, <2>2
      DEF Lifecycle, SuspendLock, SuspendCommit, Resume, RevokeLock, ReissueRead,
          ReissueLock, tables
  <1>7. ASSUME NEW p \in Req, Update(p) PROVE WithinLimit
    BY <1>2, <1>7 DEF Update, UpdateRead, ExpireLock, UpdateCommit, ExpireCommit, tables
  <1>8. ASSUME NEW p \in Req, Statement(p) PROVE WithinLimit
    BY <1>2, <1>8
    DEF Statement, DeviceLock, TokensLock, SessionsLock, SweepSession, SweepTokens, tables
  <1>9. CASE UNCHANGED vars
    BY <1>2, <1>9 DEF vars
  <1> QED
    BY <1>2, <1>3, <1>4, <1>5, <1>6, <1>7, <1>8, <1>9
    DEF Next, Rollback, CreateReader, Tick, tables

\* LimitAtAuthorization: a step that authorises a device leaves its credential within
\* max_devices, although logins, edits of the limit and revocations overlap.
THEOREM LimitAtAuthorization == Spec => DeviceLimitAtAuthorization
  <1>1. SInv /\ [Next]_vars => [WithinLimit]_vars
    BY NextWithinLimit
  <1>2. Spec => [][WithinLimit]_vars
    BY <1>1, SpecSInv, PTL DEF Spec
  <1> QED
    BY <1>2 DEF DeviceLimitAtAuthorization, WithinLimit

-----------------------------------------------------------------------------
(* Expiry.                                                                 *)

\* A live session that a refresh would accept after its credential has expired.
Outlives(s, c) ==
  sess[s].cred = c /\ ~sess[s].revoked /\ sess[s].expires > cred[c].expires

\* A login that has locked its credential has capped the session's expiry with the
\* credential's; an update with a past expiry has every live session of the credential
\* it locked on its list or has locked it.
Expiry(r) ==
  /\ r.op = "login" => r.expires <= cred[r.cred].expires
  /\ r.op = "update" /\ r.step \in {"sweep", "sweepTokens"} =>
       LiveSessionsOfCred(r.cred) \subseteq r.todo \cup r.held

EInv ==
  /\ SInv
  /\ \A p \in Req : Expiry(req[p])
  /\ \A s \in Sess : sess[s].cred \notin FreshCred

LEMMA InitEInv == Init => EInv
  <1> SUFFICES ASSUME Init PROVE EInv
    OBVIOUS
  <1>1. \A p \in Req : Expiry(req[p])
    BY DEF Init, Expiry, Idle
  <1>2. \A s \in Sess : sess[s].cred \notin FreshCred
    BY ReaderAccessAssumption DEF Init, FreshCred
  <1> QED
    BY <1>1, <1>2, InitSInv DEF EInv

\* A request that ends, and one that has not begun, has nothing to do with expiry.
LEMMA IdleExpiry == Expiry(Idle) /\ Expiry(Idle)'
  BY DEF Expiry, Idle

\* A step that only moves request p on keeps what is known of expiry.
LEMMA MoveExpiry ==
  ASSUME EInv, SInv', NEW p \in Req, NEW r, Move(p, r), UNCHANGED tables, Expiry(r)
  PROVE  EInv'
  <1>1. \A q \in Req : req'[q] = IF q = p THEN r ELSE req[q]
    BY DEF Move, EInv, SInv, IInv, TypeInv, TypeOK
  <1>2. \A x : Expiry(x) => Expiry(x)'
    BY DEF Expiry, tables, LiveSessionsOfCred
  <1>3. (\A q \in Req : Expiry(req[q]))'
    BY <1>1, <1>2 DEF EInv
  <1>4. (\A s \in Sess : sess[s].cred \notin FreshCred)'
    BY DEF EInv, tables, FreshCred
  <1> QED
    BY <1>3, <1>4 DEF EInv

\* A step that changes the tables keeps what is known of expiry, when it neither
\* edits the expiry nor adds a session of a credential another request has locked.
LEMMA TableExpiry ==
  ASSUME EInv, SInv', UNCHANGED req \/ (\E p \in Req : Close(p)),
         \A q \in Req : req'[q] = req[q] =>
            \A c \in Cred \cap req[q].held :
               /\ cred'[c].expires = cred[c].expires
               /\ LiveSessionsOfCred(c)' \subseteq LiveSessionsOfCred(c),
         \A s \in Sess : sess'[s].cred \notin FreshCred'
  PROVE  EInv'
  <1>1. \A q \in Req : req'[q] = req[q] \/ req'[q] = Idle
    BY DEF Close, Move, EInv, SInv, IInv, TypeInv, TypeOK
  <1>2. ASSUME NEW q \in Req, req'[q] = req[q] PROVE Expiry(req[q])'
    <2>1. /\ Expiry(req[q]) /\ Work(req[q]) /\ Queue(req[q]) /\ RequestShape(req[q])
      BY DEF EInv, SInv, IInv, TypeInv, Shape, SessionWork
    <2>2. (req[q].op = "login" \/ (req[q].op = "update" /\ req[q].step \in {"sweep", "sweepTokens"}))
            => req[q].cred \in Cred \cap req[q].held
      BY <2>1 DEF Work, Queue, RequestShape
    <2>3. (req[q].op = "login" \/ (req[q].op = "update" /\ req[q].step \in {"sweep", "sweepTokens"}))
            => /\ cred'[req[q].cred].expires = cred[req[q].cred].expires
               /\ LiveSessionsOfCred(req[q].cred)' \subseteq LiveSessionsOfCred(req[q].cred)
      BY <1>2, <2>2
    <2> QED
      BY <1>2, <2>1, <2>3 DEF Expiry
  <1>3. (\A q \in Req : Expiry(req[q]))'
    BY <1>1, <1>2, IdleExpiry
  <1> QED
    BY <1>3 DEF EInv

\* What a step leaves alone when it neither opens a session nor edits an expiry.
NoExpiryEdited ==
  /\ \A s \in Sess : /\ sess'[s].cred = sess[s].cred /\ sess'[s].expires = sess[s].expires
                     /\ sess[s].revoked => sess'[s].revoked
  /\ \A c \in Cred \ FreshCred : cred'[c].expires = cred[c].expires
  /\ FreshCred' \subseteq FreshCred

\* What one step may do to the sessions of a credential: only an update that brings
\* the expiry forward leaves a live session that outlives it.
OutlivesByUpdateOnly ==
  \A s \in Sess : \A c \in Cred :
    Outlives(s, c)' /\ ~Outlives(s, c) =>
      \E p \in Req, m \in Limits, a \in BOOLEAN :
         UpdateCommit(p, m, a) /\ req[p].cred = c /\ req[p].expires < cred[c].expires

\* A commit of a past expiry leaves no live session of its credential.
ExpiryEndsSessions ==
  \A p \in Req, m \in Limits, a \in BOOLEAN, c \in Cred :
    ExpireCommit(p, m, a) /\ req[p].cred = c => LiveSessionsOfCred(c)' = {}

\* Such a step keeps the invariant and lets no session outlive its credential.
LEMMA UneditedExpiry ==
  ASSUME EInv, SInv', UNCHANGED req \/ (\E p \in Req : Close(p)), NoExpiryEdited
  PROVE  EInv' /\ OutlivesByUpdateOnly
  <1>1. \A c : LiveSessionsOfCred(c)' \subseteq LiveSessionsOfCred(c)
    BY DEF NoExpiryEdited, LiveSessionsOfCred
  <1>2. \A q \in Req : req[q].held \cap FreshCred = {}
    BY DEF EInv, SInv, IInv, Work
  <1>3. \A s \in Sess : sess'[s].cred \notin FreshCred'
    BY DEF EInv, NoExpiryEdited
  <1>4. EInv'
    BY <1>1, <1>2, <1>3, TableExpiry DEF NoExpiryEdited
  <1>5. \A s \in Sess : \A c \in Cred : Outlives(s, c)' => Outlives(s, c)
    BY DEF EInv, NoExpiryEdited, Outlives
  <1> QED
    BY <1>4, <1>5 DEF OutlivesByUpdateOnly

\* RevokeHeld keeps who owns a session and when it expires.
LEMMA RevokeHeldExpiry ==
  ASSUME SInv, NEW p \in Req, RevokeHeld(p)
  PROVE  \A s \in Sess : /\ sess'[s].cred = sess[s].cred /\ sess'[s].expires = sess[s].expires
                         /\ sess[s].revoked => sess'[s].revoked
                         /\ s \in req[p].held => sess'[s].revoked
  <1>1. \A s \in Sess : sess[s] \in Session
    BY DEF SInv, IInv, TypeInv, TypeOK
  <1> QED
    BY <1>1 DEF RevokeHeld, Session

\* A login leaves a session that is within its credential.
LEMMA LoginCommitExpiry ==
  ASSUME EInv, SInv', NEW p \in Req, NEW d \in Dev, NEW s \in Sess, NEW t \in Tok,
         LoginCommit(p, d, s, t)
  PROVE  EInv' /\ OutlivesByUpdateOnly
  <1> DEFINE c == req[p].cred
  <1>1. /\ c \in Cred /\ c \in req[p].held /\ c \notin FreshCred
        /\ req[p].expires \in Time /\ cred[c].expires \in Time
        /\ req[p].expires <= cred[c].expires
    BY RequestFields
    DEF EInv, Expiry, SInv, IInv, Work, LoginCommit, RequestShape, TypeInv, TypeOK, Credential
  <1>2. /\ sess'[s].cred = c /\ sess'[s].expires = req[p].expires
        /\ \A x \in Sess \ {s} : /\ sess'[x].cred = sess[x].cred
                                 /\ sess'[x].expires = sess[x].expires
                                 /\ sess[x].revoked => sess'[x].revoked
    BY DEF LoginCommit, EInv, SInv, IInv, TypeInv, TypeOK, Session
  <1>3. cred' = cred /\ FreshCred' = FreshCred /\ Close(p)
    BY DEF LoginCommit, FreshCred
  <1>4. \A q \in Req : req'[q] = req[q] => q # p \/ req[q] = Idle
    BY DEF LoginCommit, Close, Move, EInv, SInv, IInv, TypeInv, TypeOK
  <1>5. \A q \in Req : q # p => c \notin req[q].held
    BY <1>1 DEF EInv, SInv, IInv, Exclusive
  <1>6. \A x \in Cred : x # c => LiveSessionsOfCred(x)' \subseteq LiveSessionsOfCred(x)
    BY <1>2 DEF LiveSessionsOfCred
  <1>7. EInv'
    <2>1. \A q \in Req : req'[q] = req[q] => c \notin req[q].held
      BY <1>4, <1>5 DEF Idle
    <2>2. \A x \in Sess : sess'[x].cred \notin FreshCred'
      BY <1>1, <1>2, <1>3 DEF EInv
    <2> QED
      BY <1>3, <1>6, <2>1, <2>2, TableExpiry
  <1>8. \A x \in Sess : \A y \in Cred : Outlives(x, y)' => Outlives(x, y)
    <2>1. ~(req[p].expires > cred[c].expires)
      BY <1>1, ReaderAccessAssumption DEF Time
    <2> QED
      BY <1>1, <1>2, <1>3, <2>1 DEF Outlives
  <1> QED
    BY <1>7, <1>8 DEF OutlivesByUpdateOnly

\* The first statements of a login cap what the session will have.
LEMMA LoginExpiry ==
  ASSUME EInv, SInv', NEW p \in Req, Login(p)
  PROVE  EInv' /\ OutlivesByUpdateOnly
  <1>1. ASSUME NEW c \in Cred, NEW now \in 0 .. clock
        PROVE  Earlier(cred[c].expires, now + TTL) <= cred[c].expires
    <2>1. cred[c].expires \in Time
      BY DEF EInv, SInv, IInv, TypeInv, TypeOK, Credential
    <2>2. clock \in Nat
      BY ReaderAccessAssumption DEF EInv, SInv, IInv, TypeInv, TypeOK
    <2> QED
      BY <2>1, <2>2, ReaderAccessAssumption DEF Earlier, Time
  <1>2. ASSUME NEW c \in Cred, NEW now \in 0 .. clock, NEW d \in Dev,
               LoginKnownDevice(p, c, d, now)
        PROVE  EInv' /\ UNCHANGED tables
    <2> DEFINE r == [Idle EXCEPT !.op = "login", !.step = "device", !.cred = c,
                                 !.dev = d, !.held = {c},
                                 !.expires = Earlier(cred[c].expires, now + TTL)]
    <2>1. Expiry(r)
      BY <1>1 DEF Expiry, Idle
    <2> QED
      BY <1>2, <2>1, MoveExpiry DEF LoginKnownDevice, Begin
  <1>3. ASSUME NEW c \in Cred, NEW now \in 0 .. clock, LoginNewDevice(p, c, now)
        PROVE  EInv' /\ UNCHANGED tables
    <2> DEFINE r == [Idle EXCEPT !.op = "login", !.step = "commit", !.cred = c,
                                 !.held = {c},
                                 !.expires = Earlier(cred[c].expires, now + TTL)]
    <2>1. Expiry(r)
      BY <1>1 DEF Expiry, Idle
    <2> QED
      BY <1>3, <2>1, MoveExpiry DEF LoginNewDevice, Begin
  <1>4. UNCHANGED tables => OutlivesByUpdateOnly
    BY DEF OutlivesByUpdateOnly, Outlives, tables
  <1> QED
    BY <1>2, <1>3, <1>4, LoginCommitExpiry DEF Login

\* Requests that are no login and no update bear on expiry only through the sessions
\* they revoke.
LEMMA OtherExpiry ==
  ASSUME NEW r, r.op \notin {"login", "update"}
  PROVE  Expiry(r)
  BY DEF Expiry

\* A step that leaves the tables alone lets no session outlive its credential.
LEMMA TablesUnedited == UNCHANGED tables => OutlivesByUpdateOnly
  BY DEF OutlivesByUpdateOnly, Outlives, tables

LEMMA StatementExpiry ==
  ASSUME EInv, SInv', NEW p \in Req, Statement(p)
  PROVE  EInv'
  <1>0. req[p] \in Request /\ Expiry(req[p])
    BY RequestFields DEF EInv, SInv, IInv
  <1>1. CASE DeviceLock(p)
    <2> DEFINE r == [req[p] EXCEPT !.step = "tokens", !.held = @ \cup {req[p].dev},
                                   !.wait = LiveTokens(SessionsOfDevice(req[p].dev))]
    <2>1. Expiry(r)
      BY <1>0 DEF Expiry, Request
    <2> QED
      BY <1>1, <2>1, MoveExpiry DEF DeviceLock
  <1>2. CASE TokensLock(p)
    <2> DEFINE r == [req[p] EXCEPT !.step = "sessions", !.held = @ \cup req[p].wait,
                                   !.wait = LiveSessionsOfDevice(req[p].dev)]
    <2>1. Expiry(r)
      BY <1>0 DEF Expiry, Request
    <2> QED
      BY <1>2, <2>1, MoveExpiry DEF TokensLock
  <1>3. CASE SessionsLock(p)
    <2> DEFINE r == [req[p] EXCEPT !.step = "commit", !.held = @ \cup req[p].wait,
                                   !.wait = {}]
    <2>1. Expiry(r)
      BY <1>0 DEF Expiry, Request
    <2> QED
      BY <1>3, <2>1, MoveExpiry DEF SessionsLock
  <1>4. ASSUME NEW s \in Sess, SweepSession(p, s) PROVE EInv'
    <2> DEFINE r == [req[p] EXCEPT !.step = "sweepTokens", !.todo = @ \ {s},
                                   !.held = @ \cup {s}, !.wait = LiveTokens({s})]
    <2>1. Expiry(r)
      BY <1>0, <1>4 DEF Expiry, Request, SweepSession
    <2> QED
      BY <1>4, <2>1, MoveExpiry DEF SweepSession
  <1>5. CASE SweepTokens(p)
    <2> DEFINE r == [req[p] EXCEPT !.step = "sweep", !.held = @ \cup req[p].wait,
                                   !.wait = {}]
    <2>1. Expiry(r)
      BY <1>0, <1>5 DEF Expiry, Request, SweepTokens
    <2> QED
      BY <1>5, <2>1, MoveExpiry DEF SweepTokens
  <1> QED
    BY <1>1, <1>2, <1>3, <1>4, <1>5 DEF Statement

\* A step of a refresh or a revocation edits no expiry.
LEMMA RefreshExpiry ==
  ASSUME EInv, SInv', NEW p \in Req, Refresh(p)
  PROVE  EInv' /\ OutlivesByUpdateOnly
  <1>1. ASSUME NEW t \in Tok, NEW d \in Dev, RefreshReuse(p, t, d)
        PROVE  EInv' /\ OutlivesByUpdateOnly
    <2> DEFINE r == [Idle EXCEPT !.op = "revokeSessions", !.step = "sweep",
                                 !.held = {t}, !.todo = {tok[t].sess}]
    <2>1. Expiry(r)
      BY DEF Expiry, Idle
    <2> QED
      BY <1>1, <2>1, MoveExpiry, TablesUnedited DEF RefreshReuse, Begin
  <1>2. ASSUME NEW t \in Tok, NEW d \in Dev, RefreshRotate(p, t, d)
        PROVE  EInv' /\ OutlivesByUpdateOnly
    <2> DEFINE r == [Idle EXCEPT !.op = "rotate", !.step = "commit",
                                 !.dev = d, !.tok = t, !.held = {t}]
    <2>1. Expiry(r)
      BY DEF Expiry, Idle
    <2> QED
      BY <1>2, <2>1, MoveExpiry, TablesUnedited DEF RefreshRotate, Begin
  <1>3. UNCHANGED <<cred, sess>> => NoExpiryEdited
    BY DEF NoExpiryEdited, FreshCred
  <1> QED
    BY <1>1, <1>2, <1>3, UneditedExpiry DEF Refresh, RefreshExpired, RotateCommit

LEMMA RevocationExpiry ==
  ASSUME EInv, SInv', NEW p \in Req, Revocation(p)
  PROVE  EInv' /\ OutlivesByUpdateOnly
  <1>1. ASSUME NEW r, Begin(p, r), r.op \notin {"login", "update"}, UNCHANGED tables
        PROVE  EInv' /\ OutlivesByUpdateOnly
    BY <1>1, OtherExpiry, MoveExpiry, TablesUnedited DEF Begin
  <1>2. ASSUME NEW S,
               Begin(p, [Idle EXCEPT !.op = "revokeSessions", !.step = "sweep", !.todo = S]),
               UNCHANGED tables
        PROVE  EInv' /\ OutlivesByUpdateOnly
    <2>1. [Idle EXCEPT !.op = "revokeSessions", !.step = "sweep", !.todo = S].op
            \notin {"login", "update"}
      BY DEF Idle
    <2> QED
      BY <1>1, <1>2, <2>1
  <1>3. ASSUME NEW d \in Dev, RevokeDevice(p, d) PROVE EInv' /\ OutlivesByUpdateOnly
    <2>1. [Idle EXCEPT !.op = "revokeDevice", !.step = "device", !.dev = d].op
            \notin {"login", "update"}
      BY DEF Idle
    <2> QED
      BY <1>1, <1>3, <2>1 DEF RevokeDevice
  <1>4. RevokeHeld(p) /\ UNCHANGED cred => NoExpiryEdited
    BY RevokeHeldExpiry DEF NoExpiryEdited, FreshCred, EInv
  <1>5. CASE RevokeSessionsCommit(p)
    BY <1>4, <1>5, UneditedExpiry DEF RevokeSessionsCommit
  <1>6. CASE RevokeDeviceCommit(p)
    BY <1>4, <1>6, UneditedExpiry DEF RevokeDeviceCommit
  <1>7. ASSUME NEW s \in Sess, RevokeSession(p, s) PROVE EInv' /\ OutlivesByUpdateOnly
    BY <1>2, <1>7 DEF RevokeSession
  <1>8. ASSUME NEW s \in Sess, RevokeOtherSessions(p, s) PROVE EInv' /\ OutlivesByUpdateOnly
    BY <1>2, <1>8 DEF RevokeOtherSessions
  <1>9. ASSUME NEW c \in Cred, RevokeAllSessions(p, c) PROVE EInv' /\ OutlivesByUpdateOnly
    BY <1>2, <1>9 DEF RevokeAllSessions
  <1> QED
    BY <1>3, <1>5, <1>6, <1>7, <1>8, <1>9 DEF Revocation

LEMMA LifecycleExpiry ==
  ASSUME EInv, SInv', NEW p \in Req, Lifecycle(p)
  PROVE  EInv' /\ OutlivesByUpdateOnly
  <1>0. /\ cred \in [Cred -> Credential] /\ req[p] \in Request /\ NoCred \notin Cred
    BY RequestFields, ReaderAccessAssumption DEF EInv, SInv, IInv, TypeInv, TypeOK
  <1>1. ASSUME NEW r, Begin(p, r), r.op \notin {"login", "update"}, UNCHANGED tables
        PROVE  EInv' /\ OutlivesByUpdateOnly
    BY <1>1, OtherExpiry, MoveExpiry, TablesUnedited DEF Begin
  <1>2. ASSUME NEW o \in {"suspend", "revoke"}, NEW c \in Cred,
               Begin(p, [Idle EXCEPT !.op = o, !.step = "sweep", !.cred = c,
                                     !.held = {c}, !.todo = LiveSessionsOfCred(c)]),
               UNCHANGED tables
        PROVE  EInv' /\ OutlivesByUpdateOnly
    <2>1. [Idle EXCEPT !.op = o, !.step = "sweep", !.cred = c,
                       !.held = {c}, !.todo = LiveSessionsOfCred(c)].op
            \notin {"login", "update"}
      BY DEF Idle
    <2> QED
      BY <1>1, <1>2, <2>1
  <1>3. ASSUME NEW c \in Cred, SuspendLock(p, c) PROVE EInv' /\ OutlivesByUpdateOnly
    BY <1>2, <1>3 DEF SuspendLock
  <1>4. ASSUME NEW c \in Cred, RevokeLock(p, c) PROVE EInv' /\ OutlivesByUpdateOnly
    BY <1>2, <1>4 DEF RevokeLock
  <1>5. ASSUME NEW c \in Cred, Resume(p, c) PROVE EInv' /\ OutlivesByUpdateOnly
    <2>1. NoExpiryEdited
      BY <1>0, <1>5 DEF Resume, NoExpiryEdited, FreshCred, Credential
    <2> QED
      BY <1>5, <2>1, UneditedExpiry DEF Resume
  <1>6. CASE SuspendCommit(p)
    <2>1. NoExpiryEdited
      BY <1>0, <1>6, RevokeHeldExpiry DEF SuspendCommit, NoExpiryEdited, FreshCred, Credential, EInv
    <2> QED
      BY <1>6, <2>1, UneditedExpiry DEF SuspendCommit
  <1>7. CASE RevokeCommit(p)
    <2>1. NoExpiryEdited
      BY <1>0, <1>7, RevokeHeldExpiry DEF RevokeCommit, NoExpiryEdited, FreshCred, Credential, EInv
    <2> QED
      BY <1>7, <2>1, UneditedExpiry DEF RevokeCommit
  <1>8. ASSUME NEW r \in Reader, NEW e \in Time, ReissueRead(p, r, e)
        PROVE  EInv' /\ OutlivesByUpdateOnly
    <2>1. ASSUME NEW c
          PROVE  /\ [Idle EXCEPT !.op = "reissue", !.step = "read",
                                 !.reader = r, !.cred = c, !.expires = e].op = "reissue"
                 /\ [Idle EXCEPT !.op = "reissue", !.step = "sweep",
                                 !.reader = r, !.expires = e].op = "reissue"
      BY DEF Idle
    <2> QED
      BY <1>1, <1>8, <2>1 DEF ReissueRead
  <1>9. CASE ReissueLock(p)
    <2>1. [req[p] EXCEPT !.step = "sweep", !.held = {req[p].cred},
                         !.todo = LiveSessionsOfCred(req[p].cred)].op \notin {"login", "update"}
      BY <1>0, <1>9 DEF ReissueLock, Request
    <2> QED
      BY <1>9, <2>1, OtherExpiry, MoveExpiry, TablesUnedited DEF ReissueLock
  <1>10. ASSUME NEW n \in Cred, NEW m \in Limits, NEW a \in BOOLEAN, ReissueCommit(p, n, m, a)
         PROVE  EInv' /\ OutlivesByUpdateOnly
    <2>1. /\ \A x \in Cred \ {n} : cred'[x].expires = cred[x].expires
          /\ \A x \in Cred \ {n} : cred'[x].status = cred[x].status \/ cred'[x].status = "revoked"
          /\ cred'[n].status = "active" /\ n \in FreshCred
      BY <1>0, <1>10 DEF ReissueCommit, NewCredential, Credential
    <2>2. NoExpiryEdited
      BY <1>10, <2>1, RevokeHeldExpiry DEF ReissueCommit, NoExpiryEdited, FreshCred, EInv
    <2> QED
      BY <1>10, <2>2, UneditedExpiry DEF ReissueCommit
  <1> QED
    BY <1>3, <1>4, <1>5, <1>6, <1>7, <1>8, <1>9, <1>10 DEF Lifecycle

\* The two commits of update_reader write the fields and nothing else of the row.
LEMMA UpdateFieldsRows ==
  ASSUME SInv, NEW c \in Cred, NEW e \in Time, NEW m \in Limits, NEW a \in BOOLEAN,
         cred' = UpdateFields(c, e, m, a)
  PROVE  /\ cred'[c].expires = e
         /\ \A x \in Cred \ {c} : cred'[x] = cred[x]
         /\ \A x \in Cred : cred'[x].status = cred[x].status
         /\ FreshCred' = FreshCred
  <1>1. cred \in [Cred -> Credential]
    BY DEF SInv, IInv, TypeInv, TypeOK
  <1>2. /\ cred'[c].expires = e
        /\ \A x \in Cred \ {c} : cred'[x] = cred[x]
        /\ \A x \in Cred : cred'[x].status = cred[x].status
    BY <1>1 DEF UpdateFields, Credential
  <1> QED
    BY <1>2 DEF FreshCred

\* An update that had locked the row finds every live session of it on its list; no
\* login of the credential is open.
LEMMA ExpireCommitExpiry ==
  ASSUME EInv, SInv', NEW p \in Req, NEW m \in Limits, NEW a \in BOOLEAN,
         ExpireCommit(p, m, a)
  PROVE  /\ EInv' /\ OutlivesByUpdateOnly
         /\ \A c \in Cred : req[p].cred = c => LiveSessionsOfCred(c)' = {}
  <1>c. PICK c : c = req[p].cred
    OBVIOUS
  <1>1. /\ c \in Cred /\ c \in req[p].held /\ req[p].expires \in Time
        /\ req[p].op = "update" /\ LiveSessionsOfCred(c) \subseteq req[p].held
    BY <1>c, RequestFields
    DEF EInv, Expiry, SInv, IInv, SessionWork, Queue, ExpireCommit, SweepDone, RequestShape
  <1>2. /\ \A x \in Cred \ {c} : cred'[x] = cred[x]
        /\ FreshCred' = FreshCred
    BY <1>1, <1>c, UpdateFieldsRows DEF ExpireCommit, EInv
  <1>3. \A s \in Sess : /\ sess'[s].cred = sess[s].cred /\ sess'[s].expires = sess[s].expires
                        /\ sess[s].revoked => sess'[s].revoked
                        /\ s \in req[p].held => sess'[s].revoked
    BY RevokeHeldExpiry DEF ExpireCommit, EInv
  <1>4. LiveSessionsOfCred(c)' = {}
    BY <1>1, <1>3 DEF LiveSessionsOfCred
  <1>5. EInv'
    <2>1. \A q \in Req : req'[q] = req[q] => c \notin req[q].held
      <3>1. req'[p] = Idle /\ req[p] # Idle
        BY <1>1 DEF ExpireCommit, Close, Move, Idle, EInv, SInv, IInv, TypeInv, TypeOK
      <3>2. \A q \in Req : q # p => c \notin req[q].held
        BY <1>1 DEF EInv, SInv, IInv, Exclusive
      <3> QED
        BY <3>1, <3>2
    <2>2. \A x \in Cred : LiveSessionsOfCred(x)' \subseteq LiveSessionsOfCred(x)
      BY <1>3 DEF LiveSessionsOfCred
    <2>3. \A x \in Sess : sess'[x].cred \notin FreshCred'
      BY <1>2, <1>3 DEF EInv
    <2>4. Close(p)
      BY DEF ExpireCommit
    <2> QED
      BY <1>2, <2>1, <2>2, <2>3, <2>4, TableExpiry
  <1>6. OutlivesByUpdateOnly
    <2>1. \A s \in Sess : ~Outlives(s, c)'
      BY <1>1, <1>3 DEF Outlives, LiveSessionsOfCred
    <2>2. \A s \in Sess : \A x \in Cred \ {c} : Outlives(s, x)' => Outlives(s, x)
      BY <1>2, <1>3 DEF Outlives
    <2> QED
      BY <2>1, <2>2 DEF OutlivesByUpdateOnly
  <1> QED
    BY <1>c, <1>4, <1>5, <1>6

\* An update whose expiry was in the future when it was asked for revokes nothing:
\* the sessions that outlive the new expiry are those that it leaves behind.
LEMMA UpdateCommitExpiry ==
  ASSUME EInv, SInv', NEW p \in Req, NEW m \in Limits, NEW a \in BOOLEAN,
         UpdateCommit(p, m, a)
  PROVE  EInv' /\ OutlivesByUpdateOnly
  <1>c. PICK c : c = req[p].cred
    OBVIOUS
  <1>1. /\ c \in Cred /\ Free(p, {c}) /\ req[p].expires \in Time /\ req[p].op = "update"
    BY <1>c, RequestFields DEF EInv, SInv, IInv, UpdateCommit, RequestShape
  <1>2. /\ cred'[c].expires = req[p].expires
        /\ \A x \in Cred \ {c} : cred'[x] = cred[x]
        /\ FreshCred' = FreshCred /\ UNCHANGED sess
    BY <1>1, <1>c, UpdateFieldsRows DEF UpdateCommit, EInv
  <1>3. EInv'
    <2>1. \A q \in Req : req'[q] = req[q] => c \notin req[q].held
      <3>1. req'[p] = Idle /\ req[p] # Idle
        BY <1>1 DEF UpdateCommit, Close, Move, Idle, EInv, SInv, IInv, TypeInv, TypeOK
      <3> QED
        BY <1>1, <3>1 DEF Free
    <2>2. \A x \in Cred : LiveSessionsOfCred(x)' \subseteq LiveSessionsOfCred(x)
      BY <1>2 DEF LiveSessionsOfCred
    <2>3. \A x \in Sess : sess'[x].cred \notin FreshCred'
      BY <1>2 DEF EInv
    <2>4. Close(p)
      BY DEF UpdateCommit
    <2> QED
      BY <1>2, <2>1, <2>2, <2>3, <2>4, TableExpiry
  <1>4. ASSUME NEW s \in Sess, Outlives(s, c)', ~Outlives(s, c)
        PROVE  req[p].expires < cred[c].expires
    <2>1. sess[s].expires \in Time /\ cred[c].expires \in Time
      BY <1>1 DEF EInv, SInv, IInv, TypeInv, TypeOK, Session, Credential
    <2>2. sess[s].expires > req[p].expires /\ ~(sess[s].expires > cred[c].expires)
      BY <1>2, <1>4 DEF Outlives
    <2> QED
      BY <1>1, <2>1, <2>2, ReaderAccessAssumption DEF Time
  <1>5. \A s \in Sess : \A x \in Cred \ {c} : Outlives(s, x)' => Outlives(s, x)
    BY <1>2 DEF Outlives
  <1>6. OutlivesByUpdateOnly
    BY <1>c, <1>4, <1>5 DEF OutlivesByUpdateOnly
  <1> QED
    BY <1>3, <1>6

LEMMA UpdateExpiry ==
  ASSUME EInv, SInv', NEW p \in Req, Update(p)
  PROVE  EInv' /\ OutlivesByUpdateOnly
  <1>1. ASSUME NEW c \in Cred, NEW e \in Time, UpdateRead(p, c, e)
        PROVE  EInv' /\ OutlivesByUpdateOnly
    <2> DEFINE r == [Idle EXCEPT !.op = "update", !.cred = c, !.expires = e,
                                 !.step = IF e <= clock THEN "read" ELSE "commit"]
    <2>1. Expiry(r)
      BY DEF Expiry, Idle
    <2> QED
      BY <1>1, <2>1, MoveExpiry, TablesUnedited DEF UpdateRead, Begin
  <1>2. CASE ExpireLock(p)
    <2> DEFINE r == [req[p] EXCEPT !.step = "sweep", !.held = {req[p].cred},
                                   !.todo = LiveSessionsOfCred(req[p].cred)]
    <2>1. req[p] \in Request /\ req[p].op = "update"
      BY <1>2, RequestFields DEF ExpireLock, EInv, SInv, IInv
    <2>2. Expiry(r)
      BY <2>1 DEF Expiry, Request
    <2> QED
      BY <1>2, <2>2, MoveExpiry, TablesUnedited DEF ExpireLock
  <1> QED
    BY <1>1, <1>2, UpdateCommitExpiry, ExpireCommitExpiry DEF Update

LEMMA NextExpiry == EInv /\ [Next]_vars => EInv' /\ OutlivesByUpdateOnly
  <1> SUFFICES ASSUME EInv, [Next]_vars PROVE EInv' /\ OutlivesByUpdateOnly
    OBVIOUS
  <1>t. SInv'
    BY NextSInv DEF EInv
  <1>1. ASSUME NEW p \in Req, Rollback(p) PROVE EInv' /\ OutlivesByUpdateOnly
    BY <1>1, <1>t, IdleExpiry, MoveExpiry, TablesUnedited DEF Rollback, Close
  <1>2. ASSUME NEW r \in Reader, NEW c \in Cred, NEW e \in Time, NEW m \in Limits,
               NEW a \in BOOLEAN, CreateReader(r, c, e, m, a)
        PROVE  EInv' /\ OutlivesByUpdateOnly
    <2>1. NoExpiryEdited
      BY <1>2 DEF CreateReader, NewCredential, NoExpiryEdited, FreshCred,
                  EInv, SInv, IInv, TypeInv, TypeOK
    <2> QED
      BY <1>2, <1>t, <2>1, UneditedExpiry DEF CreateReader
  <1>3. ASSUME UNCHANGED <<tables, req>> PROVE EInv' /\ OutlivesByUpdateOnly
    <2>1. NoExpiryEdited
      BY <1>3 DEF NoExpiryEdited, FreshCred, tables
    <2> QED
      BY <1>3, <1>t, <2>1, UneditedExpiry
  <1>4. CASE Tick
    BY <1>3, <1>4 DEF Tick
  <1>5. CASE UNCHANGED vars
    BY <1>3, <1>5 DEF vars, tables
  <1>6. ASSUME NEW p \in Req, Statement(p) PROVE EInv' /\ OutlivesByUpdateOnly
    <2>1. UNCHANGED tables
      BY <1>6
      DEF Statement, DeviceLock, TokensLock, SessionsLock, SweepSession, SweepTokens
    <2> QED
      BY <1>6, <1>t, <2>1, StatementExpiry, TablesUnedited
  <1> QED
    BY <1>1, <1>2, <1>4, <1>5, <1>6, <1>t, LoginExpiry, RefreshExpiry, RevocationExpiry,
       LifecycleExpiry, UpdateExpiry DEF Next

LEMMA SpecEInv == Spec => []EInv
  <1>1. EInv /\ [Next]_vars => EInv'
    BY NextExpiry
  <1> QED
    BY <1>1, InitEInv, PTL DEF Spec

\* SessionsOutliveByUpdateOnly: what is left of the rule of docs/architecture.md that a
\* session never exceeds its credential's expiry.  However logins, reissues, rotations
\* and edits overlap, a live session outlives its credential only through the commit of
\* an update that brings the expiry of this credential forward.
THEOREM SessionsOutliveByUpdateOnly == Spec => [][OutlivesByUpdateOnly]_vars
  <1>1. EInv /\ [Next]_vars => [OutlivesByUpdateOnly]_vars
    BY NextExpiry
  <1> QED
    BY <1>1, SpecEInv, PTL DEF Spec

\* PastExpiryEndsSessions: an update that sets an expiry in the past leaves no live
\* session of the credential, not even one of a login that was open when it was asked for.
THEOREM PastExpiryEndsSessions == Spec => [][ExpiryEndsSessions]_vars
  <1>1. ASSUME EInv, [Next]_vars PROVE ExpiryEndsSessions
    <2>1. SInv'
      BY <1>1, NextSInv DEF EInv
    <2> QED
      BY <1>1, <2>1, ExpireCommitExpiry DEF ExpiryEndsSessions
  <1>2. EInv /\ [Next]_vars => [ExpiryEndsSessions]_vars
    BY <1>1
  <1> QED
    BY <1>2, SpecEInv, PTL DEF Spec

-----------------------------------------------------------------------------
(* Every operation as one step (AccessRights).                             *)

\* Which sessions a request has locked or will lock: those of its device, or those of
\* its credential, which a login has found on the device and a reissue with the reader.
Reach(r) ==
  /\ r.step \in {"device", "tokens", "sessions"} => r.op \in {"login", "revokeDevice"}
  /\ r.op = "login" /\ r.dev # NoDev => dev[r.dev].cred = r.cred
  /\ r.op \in {"login", "revokeDevice"} =>
       \A s \in Sess \cap (r.held \cup r.wait \cup r.todo) : sess[s].dev = r.dev
  /\ r.op \in {"suspend", "revoke", "reissue", "update"} =>
       \A s \in Sess \cap (r.held \cup r.wait \cup r.todo) : sess[s].cred = r.cred
  /\ r.op = "reissue" =>
       /\ \E c \in Cred : cred[c].owner = r.reader
       /\ r.cred \in Cred => cred[r.cred].owner = r.reader

\* A session and its device are of one credential, and a row that is not in use yet
\* names nothing, is named by nothing and is not revoked.
Tidy ==
  /\ \A s \in Sess \ FreshSess : sess[s].cred \in Cred /\ dev[sess[s].dev].cred = sess[s].cred
  /\ \A d \in Dev : dev[d].cred \notin FreshCred
  /\ \A d \in FreshDev : ~dev[d].revoked
  /\ \A c \in FreshCred : cred[c].owner = NoReader

RInv == EInv /\ Tidy /\ \A p \in Req : Reach(req[p])

LEMMA InitRInv == Init => RInv
  <1> SUFFICES ASSUME Init PROVE RInv
    OBVIOUS
  <1>1. \A p \in Req : Reach(req[p])
    BY DEF Init, Reach, Idle
  <1>2. Tidy
    BY ReaderAccessAssumption DEF Init, Tidy, FreshSess, FreshDev, FreshCred
  <1> QED
    BY <1>1, <1>2, InitEInv DEF RInv

\* A step that only moves request p on keeps what the requests reach.
LEMMA MoveReach ==
  ASSUME RInv, EInv', NEW p \in Req, NEW r, Move(p, r), UNCHANGED tables, Reach(r)
  PROVE  RInv'
  <1>1. \A q \in Req : req'[q] = IF q = p THEN r ELSE req[q]
    BY DEF Move, RInv, EInv, SInv, IInv, TypeInv, TypeOK
  <1>2. \A x : Reach(x) => Reach(x)'
    BY DEF Reach, tables
  <1>3. (\A q \in Req : Reach(req[q]))'
    BY <1>1, <1>2 DEF RInv
  <1>4. Tidy'
    BY DEF RInv, Tidy, tables, FreshSess, FreshDev, FreshCred
  <1> QED
    BY <1>3, <1>4 DEF RInv

\* Rows in use keep their owner, whatever a step does to them.
RowsStay ==
  /\ \A s \in Sess \ FreshSess : sess'[s].cred = sess[s].cred /\ sess'[s].dev = sess[s].dev
  /\ \A d \in Dev \ FreshDev : dev'[d].cred = dev[d].cred
  /\ \A c \in Cred \ FreshCred : cred'[c].owner = cred[c].owner

\* A step that changes the tables keeps what the requests reach.
LEMMA TableReach ==
  ASSUME RInv, EInv', UNCHANGED req \/ (\E p \in Req : Close(p)), RowsStay, Tidy'
  PROVE  RInv'
  <1>1. \A q \in Req : req'[q] = req[q] \/ req'[q] = Idle
    BY DEF Close, Move, RInv, EInv, SInv, IInv, TypeInv, TypeOK
  <1>2. Reach(Idle)'
    BY DEF Reach, Idle
  <1>3. ASSUME NEW q \in Req, req'[q] = req[q] PROVE Reach(req[q])'
    <2> DEFINE All == req[q].held \cup req[q].wait \cup req[q].todo
    <2>1. PICK r : r = req[q]
      OBVIOUS
    <2>2. /\ Reach(r) /\ Work(r) /\ Queue(r) /\ RequestShape(r)
          /\ r.dev \in Dev \cup {NoDev}
      BY <2>1, RequestFields DEF RInv, EInv, SInv, IInv, SessionWork
    <2>3. \A s \in Sess \cap (r.held \cup r.wait \cup r.todo) :
             sess'[s].cred = sess[s].cred /\ sess'[s].dev = sess[s].dev
      BY <2>2 DEF Work, RowsStay
    <2>4. r.dev # NoDev => dev'[r.dev].cred = dev[r.dev].cred
      BY <2>2 DEF Queue, RowsStay
    <2>5. r.op = "reissue" => (\E c \in Cred : cred'[c].owner = r.reader)
      <3>1. ASSUME r.op = "reissue" PROVE \E c \in Cred : cred'[c].owner = r.reader
        <4>1. r.reader \in Reader /\ NoReader \notin Reader
          BY <2>2, <3>1, ReaderAccessAssumption DEF RequestShape
        <4>2. PICK c \in Cred : cred[c].owner = r.reader
          BY <2>2, <3>1 DEF Reach
        <4>3. c \notin FreshCred
          BY <4>1, <4>2 DEF RInv, Tidy
        <4> QED
          BY <4>2, <4>3 DEF RowsStay
      <3> QED
        BY <3>1
    <2>6. r.cred \in Cred => cred'[r.cred].owner = cred[r.cred].owner
      BY <2>2 DEF Work, RowsStay
    <2>7. Reach(r)'
      BY <2>2, <2>3, <2>4, <2>5, <2>6 DEF Reach
    <2>8. r = req'[q]
      BY <1>3, <2>1
    <2> QED
      BY <2>7, <2>8 DEF Reach
  <1>4. (\A q \in Req : Reach(req[q]))'
    <2> SUFFICES ASSUME NEW q \in Req PROVE Reach(req[q])'
      OBVIOUS
    <2>1. CASE req'[q] = req[q]
      BY <1>3, <2>1
    <2>2. CASE req'[q] = Idle
      BY <1>2, <2>2 DEF Reach
    <2> QED
      BY <1>1, <2>1, <2>2
  <1> QED
    BY <1>4 DEF RInv

\* A step that gives no row another owner keeps the rows tidy.
LEMMA QuietRows ==
  ASSUME RInv,
         \A s \in Sess : sess'[s].cred = sess[s].cred /\ sess'[s].dev = sess[s].dev,
         \A d \in Dev : /\ dev'[d].cred = dev[d].cred
                        /\ d \in FreshDev => dev'[d].revoked = dev[d].revoked,
         \A c \in Cred : /\ cred'[c].owner = cred[c].owner \/ c \in FreshCred
                         /\ c \in FreshCred' => c \in FreshCred /\ cred'[c].owner = cred[c].owner
  PROVE  RowsStay /\ Tidy'
  <1>1. FreshSess' = FreshSess /\ FreshDev' = FreshDev /\ FreshCred' \subseteq FreshCred
    BY DEF FreshSess, FreshDev, FreshCred
  <1>2. \A s \in Sess \ FreshSess : sess[s].dev \in Dev
    BY DEF RInv, EInv, SInv, IInv, TypeInv, TypeOK, Session, FreshSess
  <1>3. RowsStay
    BY DEF RowsStay
  <1>4. \A s \in Sess \ FreshSess : sess'[s].cred \in Cred /\ dev'[sess'[s].dev].cred = sess'[s].cred
    BY <1>2 DEF RInv, Tidy
  <1>5. (\A d \in FreshDev : ~dev'[d].revoked) /\ (\A c \in FreshCred' : cred'[c].owner = NoReader)
    BY <1>1 DEF RInv, Tidy, FreshDev, FreshCred
  <1>6. \A d \in Dev : dev'[d].cred \notin FreshCred'
    BY <1>1 DEF RInv, Tidy
  <1>7. Tidy'
    BY <1>1, <1>4, <1>5, <1>6 DEF Tidy
  <1> QED
    BY <1>3, <1>7

\* The statements in the middle of a transaction lock sessions of its device, or those
\* that were on its list.
LEMMA StatementReach ==
  ASSUME RInv, EInv', NEW p \in Req, Statement(p)
  PROVE  RInv'
  <1>0. /\ req[p] \in Request /\ Reach(req[p]) /\ Queue(req[p])
        /\ Sess \cap Tok = {} /\ Dev \cap Sess = {}
    BY RequestFields, ReaderAccessAssumption DEF RInv, EInv, SInv, IInv, SessionWork
  <1>1. ASSUME NEW r, Move(p, r), UNCHANGED tables,
               r.op = req[p].op, r.dev = req[p].dev, r.cred = req[p].cred,
               r.reader = req[p].reader,
               r.step \in {"device", "tokens", "sessions"} =>
                  req[p].step \in {"device", "tokens", "sessions"},
               \A s \in Sess \cap (r.held \cup r.wait \cup r.todo) :
                  \/ s \in req[p].held \cup req[p].wait \cup req[p].todo
                  \/ /\ req[p].step \in {"device", "tokens", "sessions"}
                     /\ sess[s].dev = req[p].dev
        PROVE  RInv'
    <2>1. Reach(r)
      BY <1>0, <1>1 DEF Reach
    <2> QED
      BY <1>1, <2>1, MoveReach
  <1>2. CASE DeviceLock(p)
    <2> DEFINE r == [req[p] EXCEPT !.step = "tokens", !.held = @ \cup {req[p].dev},
                                   !.wait = LiveTokens(SessionsOfDevice(req[p].dev))]
    <2>1. /\ r.op = req[p].op /\ r.dev = req[p].dev /\ r.cred = req[p].cred
          /\ r.reader = req[p].reader /\ r.todo = req[p].todo
          /\ r.held = req[p].held \cup {req[p].dev}
          /\ r.wait = LiveTokens(SessionsOfDevice(req[p].dev))
      BY <1>0 DEF Request
    <2>2. req[p].dev \in Dev /\ req[p].step = "device"
      BY <1>2, RequestFields DEF DeviceLock, RequestShape, RInv, EInv, SInv, IInv
    <2>3. Move(p, r) /\ UNCHANGED tables
      BY <1>2 DEF DeviceLock
    <2> HIDE DEF r
    <2> QED
      BY <1>0, <1>1, <2>1, <2>2, <2>3 DEF LiveTokens
  <1>3. CASE TokensLock(p)
    <2> DEFINE r == [req[p] EXCEPT !.step = "sessions", !.held = @ \cup req[p].wait,
                                   !.wait = LiveSessionsOfDevice(req[p].dev)]
    <2>1. /\ r.op = req[p].op /\ r.dev = req[p].dev /\ r.cred = req[p].cred
          /\ r.reader = req[p].reader /\ r.todo = req[p].todo
          /\ r.held = req[p].held \cup req[p].wait
          /\ r.wait = LiveSessionsOfDevice(req[p].dev)
      BY <1>0 DEF Request
    <2>2. Move(p, r) /\ UNCHANGED tables /\ req[p].step = "tokens"
      BY <1>3 DEF TokensLock
    <2> HIDE DEF r
    <2> QED
      BY <1>1, <2>1, <2>2 DEF LiveSessionsOfDevice
  <1>4. CASE SessionsLock(p)
    <2> DEFINE r == [req[p] EXCEPT !.step = "commit", !.held = @ \cup req[p].wait,
                                   !.wait = {}]
    <2>1. /\ r.op = req[p].op /\ r.dev = req[p].dev /\ r.cred = req[p].cred
          /\ r.reader = req[p].reader /\ r.todo = req[p].todo
          /\ r.held = req[p].held \cup req[p].wait /\ r.wait = {} /\ r.step = "commit"
      BY <1>0 DEF Request
    <2>2. Move(p, r) /\ UNCHANGED tables
      BY <1>4 DEF SessionsLock
    <2> HIDE DEF r
    <2> QED
      BY <1>1, <2>1, <2>2
  <1>5. ASSUME NEW s \in Sess, SweepSession(p, s) PROVE RInv'
    <2> DEFINE r == [req[p] EXCEPT !.step = "sweepTokens", !.todo = @ \ {s},
                                   !.held = @ \cup {s}, !.wait = LiveTokens({s})]
    <2>1. /\ r.op = req[p].op /\ r.dev = req[p].dev /\ r.cred = req[p].cred
          /\ r.reader = req[p].reader /\ r.todo = req[p].todo \ {s}
          /\ r.held = req[p].held \cup {s} /\ r.wait = LiveTokens({s})
          /\ r.step = "sweepTokens"
      BY <1>0 DEF Request
    <2>2. Move(p, r) /\ UNCHANGED tables /\ s \in req[p].todo
      BY <1>5 DEF SweepSession
    <2> HIDE DEF r
    <2> QED
      BY <1>0, <1>1, <2>1, <2>2 DEF LiveTokens
  <1>6. CASE SweepTokens(p)
    <2> DEFINE r == [req[p] EXCEPT !.step = "sweep", !.held = @ \cup req[p].wait,
                                   !.wait = {}]
    <2>1. /\ r.op = req[p].op /\ r.dev = req[p].dev /\ r.cred = req[p].cred
          /\ r.reader = req[p].reader /\ r.todo = req[p].todo
          /\ r.held = req[p].held \cup req[p].wait /\ r.wait = {} /\ r.step = "sweep"
      BY <1>0 DEF Request
    <2>2. Move(p, r) /\ UNCHANGED tables
      BY <1>6 DEF SweepTokens
    <2> HIDE DEF r
    <2> QED
      BY <1>1, <2>1, <2>2
  <1> QED
    BY <1>2, <1>3, <1>4, <1>5, <1>6 DEF Statement

\* The state of AccessRights, as Rights reads it from the rows.
RightsRows == <<[c \in Cred |-> cred[c].owner], [c \in Cred |-> cred[c].status],
                [d \in Dev |-> dev[d].cred], Trusted, [s \in Sess |-> sess[s].dev], Open>>

\* One operation of AccessRights, or none.
Atomic == Rights!RightsNext \/ UNCHANGED RightsRows

\* Rows that stay leave the rights alone, and so does what happens to tokens.
LEMMA SameRights == UNCHANGED <<cred, dev, sess>> => UNCHANGED RightsRows
  BY DEF RightsRows, Trusted, Open

\* What the rights read of a row.
LEMMA OpenSessions ==
  ASSUME RInv
  PROVE  /\ \A s \in Open : /\ s \in Sess \ FreshSess /\ sess[s].dev \in Trusted
                            /\ dev[sess[s].dev].cred = sess[s].cred
         /\ Trusted = Dev \cap {d \in Dev \ FreshDev : ~dev[d].revoked}
         /\ \A C : /\ Rights!OpenOf(C) = {s \in Open : sess[s].cred \in C}
                   /\ Rights!DevicesOf(C) = {d \in Trusted : dev[d].cred \in C}
         /\ \A r : Rights!Current(r) = CurrentCreds(r)
  <1>1. \A s \in Open : /\ s \in Sess \ FreshSess /\ sess[s].dev \in Trusted
                        /\ dev[sess[s].dev].cred = sess[s].cred
    BY ReaderAccessAssumption DEF Open, Trusted, FreshSess, RInv, Tidy
  <1>2. Trusted = Dev \cap {d \in Dev \ FreshDev : ~dev[d].revoked}
    BY DEF Trusted, FreshDev
  <1>3. Trusted \subseteq Dev /\ Open \subseteq Sess
    BY DEF Trusted, Open
  <1>4. ASSUME NEW C
        PROVE  /\ Rights!OpenOf(C) = {s \in Open : sess[s].cred \in C}
               /\ Rights!DevicesOf(C) = {d \in Trusted : dev[d].cred \in C}
    BY <1>1, <1>3 DEF Rights!OpenOf, Rights!DevicesOf
  <1>5. \A r : Rights!Current(r) = CurrentCreds(r)
    BY DEF Rights!Current, CurrentCreds
  <1> QED
    BY <1>1, <1>2, <1>4, <1>5

\* Revoking the locked sessions closes these and keeps all else of a session.
LEMMA HeldClose ==
  ASSUME RInv, NEW p \in Req, RevokeHeld(p),
         \A d \in Dev : dev'[d].cred = dev[d].cred
  PROVE  /\ Open' = {s \in Open \ req[p].held : sess[s].dev \in Trusted'}
               \cup {s \in Sess \ req[p].held : /\ ~sess[s].revoked
                                               /\ sess[s].dev \in Trusted' \ Trusted}
         /\ [s \in Sess |-> sess[s].dev]' = [s \in Sess |-> sess[s].dev]
         /\ [d \in Dev |-> dev[d].cred]' = [d \in Dev |-> dev[d].cred]
         /\ \A s \in Sess : sess'[s].cred = sess[s].cred /\ sess'[s].dev = sess[s].dev
  <1>1. \A s \in Sess : /\ sess'[s].cred = sess[s].cred /\ sess'[s].dev = sess[s].dev
                        /\ sess'[s].revoked <=> sess[s].revoked \/ s \in req[p].held
    BY RevokeHeldRows DEF RInv, EInv, SInv
  <1> QED
    BY <1>1 DEF Open

\* A request that ends the sessions of its credential has locked all that are open, and
\* none of another credential.
LEMMA CredentialClosed ==
  ASSUME RInv, NEW p \in Req, NEW o \in {"suspend", "revoke", "reissue", "update"},
         SweepDone(p, o), NEW c \in Cred, c = req[p].cred
  PROVE  \A s \in Open : s \in req[p].held <=> sess[s].cred = c
  <1>1. /\ Reach(req[p]) /\ Expiry(req[p]) /\ Work(req[p])
        /\ req[p].op = o /\ req[p].step = "sweep" /\ req[p].todo = {}
    BY DEF RInv, EInv, SInv, IInv, SweepDone
  <1>2. LiveSessionsOfCred(c) \subseteq req[p].held
    <2>1. CASE o = "update"
      BY <1>1, <2>1 DEF Expiry
    <2>2. CASE o # "update"
      BY <1>1, <2>2 DEF Work, EndsCredential
    <2> QED
      BY <2>1, <2>2
  <1>3. \A s \in Sess \cap req[p].held : sess[s].cred = c
    BY <1>1 DEF Reach
  <1> QED
    BY <1>2, <1>3 DEF Open, LiveSessionsOfCred

\* A login leaves one session on its device, the new one, unless the device was revoked
\* while it waited: then the new session is not open either.
LEMMA LoginCommitAtomic ==
  ASSUME RInv, EInv', NEW p \in Req, NEW d \in Dev, NEW s \in Sess, NEW t \in Tok,
         LoginCommit(p, d, s, t)
  PROVE  RInv' /\ Atomic
  <1> DEFINE c == req[p].cred
             H == req[p].held
  <1>1. /\ c \in Cred /\ c \notin FreshCred /\ cred[c].status = "active" /\ c # NoCred
        /\ s \in FreshSess /\ s \notin H /\ req[p].wait = {} /\ Reach(req[p])
        /\ req[p].op = "login" /\ req[p].step = "commit"
        /\ req[p].dev \in Dev \cup {NoDev} /\ NoDev \notin Dev /\ Queue(req[p])
        /\ Covers(req[p])
    BY RequestFields, ReaderAccessAssumption
    DEF RInv, EInv, SInv, IInv, Work, LoginCommit, RequestShape, SessionWork, Queue
  <1>2. /\ sess'[s].dev = d /\ sess'[s].cred = c /\ ~sess'[s].revoked
        /\ \A x \in Sess \ {s} : /\ sess'[x].dev = sess[x].dev /\ sess'[x].cred = sess[x].cred
                                 /\ sess'[x].revoked <=> sess[x].revoked \/ x \in H
    BY DEF LoginCommit, RInv, EInv, SInv, IInv, TypeInv, TypeOK, Session
  <1>3. /\ dev'[d].cred = c /\ dev'[d].revoked = dev[d].revoked
        /\ \A x \in Dev \ {d} : dev'[x] = dev[x]
        /\ UNCHANGED cred /\ Close(p)
    BY DEF LoginCommit, RInv, EInv, SInv, IInv, TypeInv, TypeOK, Device
  <1>4. \/ d \in FreshDev /\ req[p].dev = NoDev
        \/ d \notin FreshDev /\ d = req[p].dev /\ d \in H /\ dev[d].cred = c
    BY <1>1 DEF LoginCommit, Queue, Reach
  <1>5. \A x \in Sess \ {s} : ~sess[x].revoked =>
           (x \in H /\ x \notin FreshSess => sess[x].dev = d) /\ (sess[x].dev = d => x \in H)
    <2>1. CASE d \in FreshDev /\ req[p].dev = NoDev
      <3>1. \A x \in Sess : sess[x].dev # d
        BY <2>1 DEF RInv, EInv, SInv, RowLinks
      <3>2. \A x \in Sess \cap H : sess[x].dev = NoDev
        BY <1>1, <2>1 DEF Reach
      <3> QED
        BY <3>1, <3>2 DEF FreshSess
    <2>2. CASE d = req[p].dev /\ d \in H
      <3>1. \A x \in Sess \cap H : sess[x].dev = d
        BY <1>1, <2>2 DEF Reach
      <3>2. LiveSessionsOfDevice(d) \subseteq H
        BY <1>1, <2>2 DEF Covers
      <3> QED
        BY <3>1, <3>2 DEF LiveSessionsOfDevice
    <2> QED
      BY <1>4, <2>1, <2>2
  <1>6. RInv'
    <2>1. RowsStay
      BY <1>1, <1>2, <1>3, <1>4 DEF RowsStay
    <2>2. /\ FreshSess' = FreshSess \ {s} /\ FreshDev' = FreshDev \ {d} /\ FreshCred' = FreshCred
      BY <1>1, <1>2, <1>3, <1>4 DEF FreshSess, FreshDev, FreshCred
    <2>3. \A x \in Sess \ FreshSess : sess[x].dev \in Dev \ FreshDev
      BY DEF RInv, EInv, SInv, RowLinks, IInv, TypeInv, TypeOK, Session, FreshSess
    <2>4. \A x \in Sess \ FreshSess' : sess'[x].cred \in Cred /\ dev'[sess'[x].dev].cred = sess'[x].cred
      BY <1>1, <1>2, <1>3, <2>1, <2>2, <2>3 DEF RowsStay, RInv, Tidy
    <2>5. \A x \in FreshDev \ {d} : ~dev'[x].revoked
      BY <1>3 DEF RInv, Tidy, FreshDev
    <2>6. \A x \in Dev : dev'[x].cred \notin FreshCred'
      BY <1>1, <1>3, <2>2 DEF RInv, Tidy
    <2>7. \A x \in FreshCred' : cred'[x].owner = NoReader
      BY <1>3, <2>2 DEF RInv, Tidy
    <2>8. Tidy'
      BY <2>2, <2>4, <2>5, <2>6, <2>7 DEF Tidy
    <2> QED
      BY <1>3, <2>1, <2>8, TableReach
  <1>7. /\ \A x \in Dev : x \in Trusted' <=> x \in Trusted \/ (x = d /\ ~dev[d].revoked)
        /\ Trusted \subseteq Dev /\ Trusted' \subseteq Dev
    BY <1>1, <1>3, <1>4 DEF Trusted, FreshDev
  <1>8. /\ \A x \in Open : x \in Sess \ FreshSess /\ sess[x].dev \in Trusted
        /\ \A x \in Sess \ {s} : x \in Open' <=> x \in Open /\ sess[x].dev # d
        /\ s \in Open' <=> ~dev[d].revoked
        /\ Open \subseteq Sess /\ Open' \subseteq Sess
    <2>1. \A x \in Open : x \in Sess \ FreshSess /\ sess[x].dev \in Trusted
      BY OpenSessions
    <2>2. ASSUME NEW x \in Sess \ {s} PROVE x \in Open' <=> x \in Open /\ sess[x].dev # d
      <3>1. x \in Open' <=> sess[x].dev \in Trusted' /\ ~sess[x].revoked /\ x \notin H
        BY <1>2 DEF Open
      <3>2. sess[x].dev \in Trusted' /\ sess[x].dev # d <=> sess[x].dev \in Trusted /\ sess[x].dev # d
        BY <1>7
      <3>3. x \in FreshSess => sess[x].dev \notin Trusted /\ sess[x].dev \notin Trusted'
        BY <1>1, <1>7 DEF FreshSess
      <3> QED
        BY <1>5, <3>1, <3>2, <3>3 DEF Open
    <2>3. s \in Open' <=> d \in Trusted'
      BY <1>2 DEF Open
    <2>4. d \in Trusted' <=> ~dev[d].revoked
      BY <1>7 DEF Trusted
    <2> QED
      BY <2>1, <2>2, <2>3, <2>4 DEF Open
  <1>9. /\ [x \in Dev |-> dev[x].cred]' = [[x \in Dev |-> dev[x].cred] EXCEPT ![d] = c]
        /\ [x \in Sess |-> sess[x].dev]' = [[x \in Sess |-> sess[x].dev] EXCEPT ![s] = d]
        /\ UNCHANGED <<[x \in Cred |-> cred[x].owner], [x \in Cred |-> cred[x].status]>>
    BY <1>2, <1>3
  <1>10. CASE ~dev[d].revoked
    <2>1. Trusted' = Trusted \cup {d}
      BY <1>7, <1>10
    <2>2. Open' = {x \in Open : [y \in Sess |-> sess[y].dev][x] # d} \cup {s}
      BY <1>1, <1>8, <1>10
    <2>3. [x \in Dev |-> dev[x].cred][d] = NoCred
             \/ ([x \in Dev |-> dev[x].cred][d] = c /\ d \in Trusted)
      BY <1>1, <1>4, <1>10 DEF FreshDev, Trusted
    <2>4. [x \in Cred |-> cred[x].status][c] = "active" /\ [x \in Sess |-> sess[x].dev][s] = NoDev
      BY <1>1 DEF FreshSess
    <2>5. Rights!LogIn(c, d, s)
      BY <1>9, <2>1, <2>2, <2>3, <2>4 DEF Rights!LogIn
    <2> QED
      BY <1>1, <1>6, <2>5 DEF Atomic, Rights!RightsNext
  <1>11. CASE dev[d].revoked
    <2>1. d \notin FreshDev /\ dev[d].cred = c
      BY <1>4, <1>11 DEF RInv, Tidy
    <2>2. Trusted' = Trusted /\ d \notin Trusted
      BY <1>7, <1>11 DEF Trusted
    <2>3. Open' = Open
      BY <1>1, <1>8, <1>11, <2>2
    <2>4. [x \in Dev |-> dev[x].cred]' = [x \in Dev |-> dev[x].cred]
      BY <1>3, <2>1
    <2>5. [x \in Dev |-> dev[x].cred][d] # NoCred /\ [x \in Sess |-> sess[x].dev][s] = NoDev
      BY <1>1, <2>1 DEF FreshSess
    <2>6. Rights!LogInTooLate(d, s)
      BY <1>9, <2>2, <2>3, <2>4, <2>5 DEF Rights!LogInTooLate
    <2> QED
      BY <1>1, <1>6, <2>6 DEF Atomic, Rights!RightsNext
  <1> QED
    BY <1>3, <1>10, <1>11 DEF RInv, EInv, SInv, IInv, TypeInv, TypeOK, Device

\* A request that begins with no session, or with sessions that it may reach.
LEMMA BeginReach ==
  ASSUME RInv, EInv', NEW p \in Req, NEW r, Begin(p, r), UNCHANGED tables, Reach(r)
  PROVE  RInv' /\ Atomic
  BY MoveReach, SameRights DEF Begin, tables, Atomic

\* A login is one step of AccessRights: its commit.
LEMMA LoginAtomic ==
  ASSUME RInv, EInv', NEW p \in Req, Login(p)
  PROVE  RInv' /\ Atomic
  <1>d. Cred \cap Sess = {}
    BY ReaderAccessAssumption
  <1>1. ASSUME NEW c \in Cred, NEW now \in 0 .. clock, NEW d \in Dev,
               LoginKnownDevice(p, c, d, now)
        PROVE  RInv' /\ Atomic
    <2> DEFINE r == [Idle EXCEPT !.op = "login", !.step = "device", !.cred = c,
                                 !.dev = d, !.held = {c},
                                 !.expires = Earlier(cred[c].expires, now + TTL)]
    <2>1. dev[d].cred = c
      BY <1>1 DEF LoginKnownDevice, PresentedDevice, ActiveDevices
    <2>2. Reach(r)
      BY <1>d, <2>1 DEF Reach, Idle
    <2> QED
      BY <1>1, <2>2, BeginReach DEF LoginKnownDevice
  <1>2. ASSUME NEW c \in Cred, NEW now \in 0 .. clock, LoginNewDevice(p, c, now)
        PROVE  RInv' /\ Atomic
    <2> DEFINE r == [Idle EXCEPT !.op = "login", !.step = "commit", !.cred = c,
                                 !.held = {c},
                                 !.expires = Earlier(cred[c].expires, now + TTL)]
    <2>1. Reach(r)
      BY <1>d DEF Reach, Idle
    <2> QED
      BY <1>2, <2>1, BeginReach DEF LoginNewDevice
  <1> QED
    BY <1>1, <1>2, LoginCommitAtomic DEF Login

\* A refresh is no step of AccessRights: it changes no right.
LEMMA RefreshAtomic ==
  ASSUME RInv, EInv', NEW p \in Req, Refresh(p)
  PROVE  RInv' /\ Atomic
  <1>1. ASSUME NEW t \in Tok, NEW d \in Dev, RefreshReuse(p, t, d)
        PROVE  RInv' /\ Atomic
    <2> DEFINE r == [Idle EXCEPT !.op = "revokeSessions", !.step = "sweep",
                                 !.held = {t}, !.todo = {tok[t].sess}]
    <2>1. Reach(r)
      BY DEF Reach, Idle
    <2> QED
      BY <1>1, <2>1, BeginReach DEF RefreshReuse
  <1>2. ASSUME NEW t \in Tok, NEW d \in Dev, RefreshRotate(p, t, d)
        PROVE  RInv' /\ Atomic
    <2> DEFINE r == [Idle EXCEPT !.op = "rotate", !.step = "commit",
                                 !.dev = d, !.tok = t, !.held = {t}]
    <2>1. Reach(r)
      BY DEF Reach, Idle
    <2> QED
      BY <1>2, <2>1, BeginReach DEF RefreshRotate
  <1>3. ASSUME UNCHANGED <<cred, dev, sess>>, UNCHANGED req \/ Close(p)
        PROVE  RInv' /\ Atomic
    <2>1. RowsStay /\ Tidy'
      BY <1>3 DEF RowsStay, RInv, Tidy, FreshSess, FreshDev, FreshCred
    <2> QED
      BY <1>3, <2>1, TableReach, SameRights DEF Atomic
  <1>4. ASSUME NEW t \in Tok, RotateCommit(p, t) PROVE RInv' /\ Atomic
    BY <1>3, <1>4 DEF RotateCommit
  <1>5. ASSUME NEW t \in Tok, NEW d \in Dev, RefreshExpired(p, t, d)
        PROVE  RInv' /\ Atomic
    BY <1>3, <1>5 DEF RefreshExpired
  <1> QED
    BY <1>1, <1>2, <1>4, <1>5 DEF Refresh

\* A logout or a revocation is one step of AccessRights: its commit.
LEMMA RevocationAtomic ==
  ASSUME RInv, EInv', NEW p \in Req, Revocation(p)
  PROVE  RInv' /\ Atomic
  <1>1. ASSUME NEW S,
               Begin(p, [Idle EXCEPT !.op = "revokeSessions", !.step = "sweep", !.todo = S]),
               UNCHANGED tables
        PROVE  RInv' /\ Atomic
    <2>1. Reach([Idle EXCEPT !.op = "revokeSessions", !.step = "sweep", !.todo = S])
      BY DEF Reach, Idle
    <2> QED
      BY <1>1, <2>1, BeginReach
  <1>2. ASSUME NEW d \in Dev, RevokeDevice(p, d) PROVE RInv' /\ Atomic
    <2>1. Reach([Idle EXCEPT !.op = "revokeDevice", !.step = "device", !.dev = d])
      BY DEF Reach, Idle
    <2> QED
      BY <1>2, <2>1, BeginReach DEF RevokeDevice
  <1>3. ASSUME RevokeHeld(p), Close(p), UNCHANGED cred,
               \A d \in Dev : /\ dev'[d].cred = dev[d].cred
                              /\ d \in FreshDev => dev'[d].revoked = dev[d].revoked
        PROVE  RInv'
    <2>1. RowsStay /\ Tidy'
      BY <1>3, HeldClose, QuietRows DEF FreshCred
    <2> QED
      BY <1>3, <2>1, TableReach
  <1>4. CASE RevokeSessionsCommit(p)
    <2>1. UNCHANGED <<cred, dev>> /\ RevokeHeld(p) /\ Close(p)
      BY <1>4 DEF RevokeSessionsCommit
    <2>2. Trusted' = Trusted
      BY <2>1 DEF Trusted
    <2>3. Open' = Open \ (Sess \cap req[p].held)
      BY <2>1, <2>2, HeldClose, OpenSessions
    <2>4. Rights!LogOut(Sess \cap req[p].held)
      BY <2>1, <2>2, <2>3, HeldClose DEF Rights!LogOut
    <2>5. RInv'
      BY <1>3, <2>1
    <2> QED
      BY <2>4, <2>5 DEF Atomic, Rights!RightsNext
  <1>5. CASE RevokeDeviceCommit(p)
    <2>1. PICK d : d = req[p].dev
      OBVIOUS
    <2>2. /\ d \in Dev \ FreshDev /\ UNCHANGED cred /\ RevokeHeld(p) /\ Close(p)
          /\ dev' = [dev EXCEPT ![d].revoked = TRUE] /\ req[p].op = "revokeDevice"
          /\ Reach(req[p])
      BY <1>5, <2>1, RequestFields
      DEF RevokeDeviceCommit, RequestShape, RInv, EInv, SInv, IInv, SessionWork, Queue
    <2>3. /\ \A x \in Dev : /\ dev'[x].cred = dev[x].cred
                            /\ x # d => dev'[x].revoked = dev[x].revoked
          /\ dev'[d].revoked
      BY <2>2 DEF RInv, EInv, SInv, IInv, TypeInv, TypeOK, Device
    <2>4. Trusted' = Trusted \ {d}
      BY <2>3 DEF Trusted
    <2>5. \A s \in Sess \cap req[p].held : sess[s].dev = d
      BY <2>1, <2>2 DEF Reach
    <2>6. Open' = {s \in Open : sess[s].dev # d}
      BY <2>2, <2>3, <2>4, <2>5, HeldClose, OpenSessions
    <2>7. Open \subseteq Sess
      BY DEF Open
    <2>8. Rights!RevokeDevice(d)
      BY <2>2, <2>3, <2>4, <2>6, <2>7, HeldClose DEF Rights!RevokeDevice
    <2>9. RInv'
      BY <1>3, <2>2, <2>3
    <2> QED
      BY <2>2, <2>8, <2>9 DEF Atomic, Rights!RightsNext
  <1>6. ASSUME NEW s \in Sess, RevokeSession(p, s) PROVE RInv' /\ Atomic
    BY <1>1, <1>6 DEF RevokeSession
  <1>7. ASSUME NEW s \in Sess, RevokeOtherSessions(p, s) PROVE RInv' /\ Atomic
    BY <1>1, <1>7 DEF RevokeOtherSessions
  <1>8. ASSUME NEW c \in Cred, RevokeAllSessions(p, c) PROVE RInv' /\ Atomic
    BY <1>1, <1>8 DEF RevokeAllSessions
  <1> QED
    BY <1>2, <1>4, <1>5, <1>6, <1>7, <1>8 DEF Revocation

\* The administrator's operations on a credential end its sessions at their commit, and
\* those of no other credential.
LEMMA EndAtomic ==
  ASSUME RInv, EInv', NEW p \in Req, NEW o \in {"suspend", "revoke", "reissue", "update"},
         SweepDone(p, o), RevokeHeld(p), Close(p), NEW c \in Cred, c = req[p].cred,
         \A d \in Dev : /\ dev'[d].cred = dev[d].cred
                        /\ dev[d].revoked => dev'[d].revoked
                        /\ dev'[d].revoked => dev[d].revoked \/ dev[d].cred = c,
         \A x \in Cred : /\ cred'[x].owner = cred[x].owner \/ x \in FreshCred
                         /\ x \in FreshCred' => x \in FreshCred /\ cred'[x].owner = cred[x].owner
  PROVE  /\ RInv'
         /\ Open' = Open \ Rights!OpenOf({c})
         /\ [s \in Sess |-> sess[s].dev]' = [s \in Sess |-> sess[s].dev]
         /\ [d \in Dev |-> dev[d].cred]' = [d \in Dev |-> dev[d].cred]
  <1>1. c # NoCred
    BY ReaderAccessAssumption
  <1>2. RInv'
    <2>1. \A d \in FreshDev : dev[d].cred = NoCred /\ dev[d].revoked \in BOOLEAN
                              /\ dev'[d].revoked \in BOOLEAN
      BY DEF FreshDev, RInv, EInv, SInv, IInv, TypeInv, TypeOK, Device
    <2>2. \A d \in FreshDev : dev'[d].revoked = dev[d].revoked
      BY <1>1, <2>1 DEF FreshDev
    <2>3. RowsStay /\ Tidy'
      BY <2>2, HeldClose, QuietRows
    <2> QED
      BY <2>3, TableReach
  <1>3. \A s \in Open : s \in req[p].held <=> sess[s].cred = c
    BY CredentialClosed
  <1>4. Trusted' \subseteq Trusted
    BY DEF Trusted
  <1>5. \A s \in Open : sess[s].cred # c => sess[s].dev \in Trusted'
    <2>1. \A s \in Open : sess[s].dev \in Trusted /\ dev[sess[s].dev].cred = sess[s].cred
      BY OpenSessions
    <2> QED
      BY <2>1 DEF Trusted
  <1>6. Open' = {s \in Open : sess[s].cred # c}
    BY <1>3, <1>4, <1>5, HeldClose
  <1>7. Rights!OpenOf({c}) = {s \in Open : sess[s].cred \in {c}}
    BY OpenSessions
  <1>8. Open' = Open \ Rights!OpenOf({c})
    BY <1>6, <1>7
  <1> QED
    BY <1>2, <1>8, HeldClose

\* Beginning an operation of the administrator.
LEMMA CredentialBeginAtomic ==
  ASSUME RInv, EInv', NEW p \in Req, NEW c \in Cred, NEW o \in {"suspend", "revoke"},
         Begin(p, [Idle EXCEPT !.op = o, !.step = "sweep", !.cred = c,
                               !.held = {c}, !.todo = LiveSessionsOfCred(c)]),
         UNCHANGED tables
  PROVE  RInv' /\ Atomic
  <1>1. Cred \cap Sess = {}
    BY ReaderAccessAssumption
  <1>2. Reach([Idle EXCEPT !.op = o, !.step = "sweep", !.cred = c,
                           !.held = {c}, !.todo = LiveSessionsOfCred(c)])
    BY <1>1 DEF Reach, Idle, LiveSessionsOfCred
  <1> QED
    BY <1>2, BeginReach

\* The commit of a reissue revokes the current credential of the reader, if there is one
\* by then, and puts the new one in its place.
LEMMA ReissueCommitAtomic ==
  ASSUME RInv, EInv', NEW p \in Req, NEW n \in Cred, NEW m \in Limits, NEW a \in BOOLEAN,
         ReissueCommit(p, n, m, a)
  PROVE  RInv' /\ Atomic
  <1>1. PICK c, r : c = req[p].cred /\ r = req[p].reader
    OBVIOUS
  <1>2. /\ Reach(req[p]) /\ req[p].op = "reissue" /\ r \in Reader /\ c \in Cred \cup {NoCred}
        /\ c \notin FreshCred /\ n \in FreshCred /\ NoCred \notin Cred
        /\ CurrentCreds(r) \subseteq {c} /\ RevokeHeld(p) /\ Close(p)
        /\ SweepDone(p, "reissue")
        /\ c \in Cred => cred[c].owner = r
        /\ \E x \in Cred : cred[x].owner = r
        /\ cred[n].status = "none"
    BY <1>1, RequestFields, ReaderAccessAssumption
    DEF ReissueCommit, SweepDone, RInv, EInv, SInv, IInv, Work, Reach, RequestShape, FreshCred
  <1>3. /\ cred'[n].status = "active" /\ cred'[n].owner = r
        /\ \A x \in Cred \ {n} : /\ cred'[x].owner = cred[x].owner
                                 /\ cred'[x].status = IF x = c THEN "revoked" ELSE cred[x].status
    BY <1>1, <1>2 DEF ReissueCommit, NewCredential, RInv, EInv, SInv, IInv, TypeInv, TypeOK, Credential
  <1>4. \A x \in Cred : x = c => x \in CurrentCreds(r) \/ cred[x].status = "revoked"
    BY <1>2 DEF CurrentCreds, FreshCred, RInv, EInv, SInv, IInv, TypeInv, TypeOK, Credential, CredStatus
  <1>5. /\ [x \in Cred |-> cred[x].owner]' = [[x \in Cred |-> cred[x].owner] EXCEPT ![n] = r]
        /\ [x \in Cred |-> cred[x].status]' =
             [x \in Cred |-> IF x = n THEN "active"
                             ELSE IF x \in CurrentCreds(r) THEN "revoked"
                             ELSE [y \in Cred |-> cred[y].status][x]]
    <2>1. [x \in Cred |-> cred[x].owner]' = [[x \in Cred |-> cred[x].owner] EXCEPT ![n] = r]
      BY <1>3
    <2>2. \A x \in Cred : cred'[x].status = IF x = n THEN "active"
                                            ELSE IF x \in CurrentCreds(r) THEN "revoked"
                                            ELSE cred[x].status
      BY <1>2, <1>3, <1>4
    <2> QED
      BY <2>1, <2>2
  <1>6. \A x \in Cred : /\ cred'[x].owner = cred[x].owner \/ x \in FreshCred
                        /\ x \in FreshCred' => x \in FreshCred /\ cred'[x].owner = cred[x].owner
    BY <1>2, <1>3 DEF FreshCred
  <1>7. /\ Rights!Current(r) = CurrentCreds(r)
        /\ \A C : /\ Rights!OpenOf(C) = {s \in Open : sess[s].cred \in C}
                  /\ Rights!DevicesOf(C) = {d \in Trusted : dev[d].cred \in C}
    BY OpenSessions
  <1>8. CASE c \in Cred
    <2>1. \A d \in Dev : /\ dev'[d].cred = dev[d].cred
                         /\ dev'[d].revoked <=> dev[d].revoked \/ dev[d].cred = c
      BY <1>1, <1>2, <1>8
      DEF ReissueCommit, DevicesRevoked, RInv, EInv, SInv, IInv, TypeInv, TypeOK, Device
    <2>d. \A d \in Dev : /\ dev'[d].cred = dev[d].cred
                         /\ dev[d].revoked => dev'[d].revoked
                         /\ dev'[d].revoked => dev[d].revoked \/ dev[d].cred = c
      BY <2>1
    <2>2. /\ RInv' /\ Open' = Open \ Rights!OpenOf({c})
          /\ [s \in Sess |-> sess[s].dev]' = [s \in Sess |-> sess[s].dev]
          /\ [d \in Dev |-> dev[d].cred]' = [d \in Dev |-> dev[d].cred]
      BY <1>1, <1>2, <1>6, <1>8, <2>d, EndAtomic
    <2>3. Trusted' = {d \in Trusted : dev[d].cred # c}
      BY <2>1 DEF Trusted
    <2>4. cred[c].status = "revoked" => /\ \A d \in Trusted : dev[d].cred # c
                                        /\ \A s \in Open : sess[s].cred # c
      BY <1>8 DEF Trusted, Open, RInv, EInv, SInv, IInv, InactiveCredentialHasNoLiveSession,
                  RevokedCredentialHasNoActiveDevice, ActiveDevices
    <2>5. CurrentCreds(r) = {c} \/ (CurrentCreds(r) = {} /\ cred[c].status = "revoked")
      BY <1>2, <1>4, <1>8
    <2>6. /\ Trusted' = Trusted \ Rights!DevicesOf(CurrentCreds(r))
          /\ Open' = Open \ Rights!OpenOf(CurrentCreds(r))
      BY <1>7, <2>2, <2>3, <2>4, <2>5
    <2>7. Rights!Reissue(r, n)
      BY <1>2, <1>5, <1>7, <2>2, <2>6 DEF Rights!Reissue
    <2> QED
      BY <1>2, <2>2, <2>7 DEF Atomic, Rights!RightsNext
  <1>9. CASE c = NoCred
    <2>1. UNCHANGED dev /\ CurrentCreds(r) = {}
      BY <1>1, <1>2, <1>9 DEF ReissueCommit, CurrentCreds
    <2>2. /\ Trusted' = Trusted
          /\ [d \in Dev |-> dev[d].cred]' = [d \in Dev |-> dev[d].cred]
      BY <2>1 DEF Trusted
    <2>3. \A s \in Open : s \notin req[p].held
      <3>1. \A s \in Sess \cap req[p].held : sess[s].cred = NoCred
        BY <1>1, <1>2, <1>9 DEF Reach
      <3>2. \A s \in Open : s \in Sess \ FreshSess
        BY OpenSessions
      <3> QED
        BY <1>2, <3>1, <3>2 DEF RInv, Tidy
    <2>4. Open' = Open
      <3>1. Open' = {s \in Open \ req[p].held : sess[s].dev \in Trusted'}
               \cup {s \in Sess \ req[p].held : /\ ~sess[s].revoked
                                               /\ sess[s].dev \in Trusted' \ Trusted}
        BY <1>2, <2>1, HeldClose
      <3>2. \A s \in Open : sess[s].dev \in Trusted
        BY DEF Open
      <3> QED
        BY <2>2, <2>3, <3>1, <3>2
    <2>5. RInv'
      <3>1. RowsStay /\ Tidy'
        BY <1>2, <1>6, <2>1, HeldClose, QuietRows
      <3> QED
        BY <1>2, <3>1, TableReach
    <2>6. Rights!DevicesOf(CurrentCreds(r)) = {} /\ Rights!OpenOf(CurrentCreds(r)) = {}
      BY <1>7, <2>1
    <2>7. Rights!Reissue(r, n)
      BY <1>2, <1>5, <1>7, <2>1, <2>2, <2>4, <2>6, HeldClose DEF Rights!Reissue
    <2> QED
      BY <1>2, <2>5, <2>7 DEF Atomic, Rights!RightsNext
  <1> QED
    BY <1>2, <1>8, <1>9

\* Each operation of the administrator is one step of AccessRights.
LEMMA LifecycleAtomic ==
  ASSUME RInv, EInv', NEW p \in Req, Lifecycle(p)
  PROVE  RInv' /\ Atomic
  <1>0. /\ cred \in [Cred -> Credential] /\ dev \in [Dev -> Device] /\ Cred \cap Sess = {}
        /\ NoCred \notin Cred
    BY ReaderAccessAssumption DEF RInv, EInv, SInv, IInv, TypeInv, TypeOK
  <1>1. ASSUME NEW c \in Cred, SuspendLock(p, c) PROVE RInv' /\ Atomic
    BY <1>1, CredentialBeginAtomic DEF SuspendLock
  <1>2. ASSUME NEW c \in Cred, RevokeLock(p, c) PROVE RInv' /\ Atomic
    BY <1>2, CredentialBeginAtomic DEF RevokeLock
  <1>3. ASSUME NEW c \in Cred, Resume(p, c) PROVE RInv' /\ Atomic
    <2>1. /\ cred[c].status = "suspended" /\ cred'[c].status = "active"
          /\ \A x \in Cred : cred'[x].owner = cred[x].owner
          /\ \A x \in Cred \ {c} : cred'[x].status = cred[x].status
          /\ UNCHANGED <<dev, sess, req>>
      BY <1>0, <1>3 DEF Resume, Credential
    <2>2. RowsStay /\ Tidy'
      BY <2>1 DEF RowsStay, RInv, Tidy, FreshSess, FreshDev, FreshCred
    <2>3. RInv'
      BY <2>1, <2>2, TableReach
    <2>4. Rights!Resume(c)
      BY <2>1 DEF Rights!Resume, Trusted, Open
    <2> QED
      BY <2>3, <2>4 DEF Atomic, Rights!RightsNext
  <1>4. ASSUME req[p].op \in {"suspend", "revoke"}, req[p].todo = {}
        PROVE  /\ req[p].cred \in Cred \ FreshCred
               /\ cred[req[p].cred].status \in {"active", "suspended"}
    BY <1>0, <1>4, RequestFields
    DEF RInv, EInv, SInv, IInv, Work, RequestShape, FreshCred, Credential, CredStatus
  <1>5. CASE SuspendCommit(p)
    <2>1. PICK c : c = req[p].cred
      OBVIOUS
    <2>2. /\ c \in Cred \ FreshCred /\ cred[c].status \in {"active", "suspended"}
          /\ SweepDone(p, "suspend") /\ RevokeHeld(p) /\ Close(p) /\ UNCHANGED dev
      BY <1>4, <1>5, <2>1 DEF SuspendCommit, SweepDone
    <2>3. /\ \A x \in Cred : cred'[x].owner = cred[x].owner
          /\ cred'[c].status = "suspended"
          /\ \A x \in Cred \ {c} : cred'[x].status = cred[x].status
      BY <1>0, <1>5, <2>1, <2>2 DEF SuspendCommit, Credential
    <2>4. \A x \in Cred : x \in FreshCred' => x \in FreshCred
      BY <2>2, <2>3 DEF FreshCred
    <2>5. /\ RInv' /\ Open' = Open \ Rights!OpenOf({c})
          /\ [s \in Sess |-> sess[s].dev]' = [s \in Sess |-> sess[s].dev]
          /\ [d \in Dev |-> dev[d].cred]' = [d \in Dev |-> dev[d].cred]
      BY <2>1, <2>2, <2>3, <2>4, EndAtomic
    <2>6. Trusted' = Trusted
      BY <2>2 DEF Trusted
    <2>7. Rights!Suspend(c)
      BY <2>2, <2>3, <2>5, <2>6 DEF Rights!Suspend
    <2> QED
      BY <2>2, <2>5, <2>7 DEF Atomic, Rights!RightsNext
  <1>6. CASE RevokeCommit(p)
    <2>1. PICK c : c = req[p].cred
      OBVIOUS
    <2>2. /\ c \in Cred \ FreshCred /\ cred[c].status \in {"active", "suspended"}
          /\ SweepDone(p, "revoke") /\ RevokeHeld(p) /\ Close(p) /\ dev' = DevicesRevoked(c)
      BY <1>4, <1>6, <2>1 DEF RevokeCommit, SweepDone
    <2>3. /\ \A x \in Cred : cred'[x].owner = cred[x].owner
          /\ cred'[c].status = "revoked"
          /\ \A x \in Cred \ {c} : cred'[x].status = cred[x].status
      BY <1>0, <1>6, <2>1, <2>2 DEF RevokeCommit, Credential
    <2>4. \A x \in Cred : x \in FreshCred' => x \in FreshCred
      BY <2>2, <2>3 DEF FreshCred
    <2>5. \A d \in Dev : /\ dev'[d].cred = dev[d].cred
                         /\ dev'[d].revoked <=> dev[d].revoked \/ dev[d].cred = c
      BY <1>0, <2>2 DEF DevicesRevoked, Device
    <2>d. \A d \in Dev : /\ dev'[d].cred = dev[d].cred
                         /\ dev[d].revoked => dev'[d].revoked
                         /\ dev'[d].revoked => dev[d].revoked \/ dev[d].cred = c
      BY <2>5
    <2>6. /\ RInv' /\ Open' = Open \ Rights!OpenOf({c})
          /\ [s \in Sess |-> sess[s].dev]' = [s \in Sess |-> sess[s].dev]
          /\ [d \in Dev |-> dev[d].cred]' = [d \in Dev |-> dev[d].cred]
      BY <2>1, <2>2, <2>3, <2>4, <2>d, EndAtomic
    <2>7. Trusted' = Trusted \ Rights!DevicesOf({c})
      <3>1. Rights!DevicesOf({c}) = {d \in Trusted : dev[d].cred \in {c}}
        BY OpenSessions
      <3> QED
        BY <2>5, <3>1 DEF Trusted
    <2>8. Rights!Revoke(c)
      BY <2>2, <2>3, <2>6, <2>7 DEF Rights!Revoke
    <2> QED
      BY <2>2, <2>6, <2>8 DEF Atomic, Rights!RightsNext
  <1>7. ASSUME NEW r \in Reader, NEW e \in Time, ReissueRead(p, r, e)
        PROVE  RInv' /\ Atomic
    <2>1. ASSUME NEW c \in CurrentCreds(r)
          PROVE  Reach([Idle EXCEPT !.op = "reissue", !.step = "read",
                                    !.reader = r, !.cred = c, !.expires = e])
      BY <1>7 DEF ReissueRead, Reach, Idle, CurrentCreds
    <2>2. Reach([Idle EXCEPT !.op = "reissue", !.step = "sweep", !.reader = r, !.expires = e])
      BY <1>0, <1>7 DEF ReissueRead, Reach, Idle
    <2> QED
      BY <1>7, <2>1, <2>2, BeginReach DEF ReissueRead
  <1>8. CASE ReissueLock(p)
    <2> DEFINE r == [req[p] EXCEPT !.step = "sweep", !.held = {req[p].cred},
                                   !.todo = LiveSessionsOfCred(req[p].cred)]
    <2>1. /\ req[p] \in Request /\ req[p].cred \in Cred /\ req[p].op = "reissue"
          /\ Reach(req[p]) /\ req[p].wait = {} /\ Move(p, r) /\ UNCHANGED tables
      BY <1>8, RequestFields
      DEF ReissueLock, RInv, EInv, SInv, IInv, RequestShape, SessionWork, Queue
    <2>2. /\ r.op = "reissue" /\ r.cred = req[p].cred /\ r.reader = req[p].reader
          /\ r.held = {req[p].cred} /\ r.wait = {} /\ r.todo = LiveSessionsOfCred(req[p].cred)
          /\ r.step = "sweep"
      BY <2>1 DEF Request
    <2> HIDE DEF r
    <2>3. Reach(r)
      BY <1>0, <2>1, <2>2 DEF Reach, LiveSessionsOfCred
    <2> QED
      BY <2>1, <2>3, MoveReach, SameRights DEF tables, Atomic
  <1> QED
    BY <1>1, <1>2, <1>3, <1>5, <1>6, <1>7, <1>8, ReissueCommitAtomic DEF Lifecycle

\* An edit of the expiry is no step of AccessRights, unless it ends the sessions.
LEMMA UpdateAtomic ==
  ASSUME RInv, EInv', NEW p \in Req, Update(p)
  PROVE  RInv' /\ Atomic
  <1>0. cred \in [Cred -> Credential] /\ Cred \cap Sess = {}
    BY ReaderAccessAssumption DEF RInv, EInv, SInv, IInv, TypeInv, TypeOK
  <1>1. ASSUME NEW c \in Cred, NEW e \in Time, UpdateRead(p, c, e) PROVE RInv' /\ Atomic
    <2> DEFINE r == [Idle EXCEPT !.op = "update", !.cred = c, !.expires = e,
                                 !.step = IF e <= clock THEN "read" ELSE "commit"]
    <2>1. Reach(r)
      BY DEF Reach, Idle
    <2> QED
      BY <1>1, <2>1, BeginReach DEF UpdateRead
  <1>2. CASE ExpireLock(p)
    <2> DEFINE r == [req[p] EXCEPT !.step = "sweep", !.held = {req[p].cred},
                                   !.todo = LiveSessionsOfCred(req[p].cred)]
    <2>1. /\ req[p] \in Request /\ req[p].cred \in Cred /\ req[p].op = "update"
          /\ Reach(req[p]) /\ req[p].wait = {} /\ Move(p, r) /\ UNCHANGED tables
      BY <1>2, RequestFields
      DEF ExpireLock, RInv, EInv, SInv, IInv, RequestShape, SessionWork, Queue
    <2>2. /\ r.op = "update" /\ r.cred = req[p].cred
          /\ r.held = {req[p].cred} /\ r.wait = {} /\ r.todo = LiveSessionsOfCred(req[p].cred)
          /\ r.step = "sweep"
      BY <2>1 DEF Request
    <2> HIDE DEF r
    <2>3. Reach(r)
      BY <1>0, <2>1, <2>2 DEF Reach, LiveSessionsOfCred
    <2> QED
      BY <2>1, <2>3, MoveReach, SameRights DEF tables, Atomic
  <1>3. ASSUME NEW c \in Cred, NEW e, NEW m, NEW a, cred' = UpdateFields(c, e, m, a)
        PROVE  /\ \A x \in Cred : /\ cred'[x].owner = cred[x].owner
                                  /\ cred'[x].status = cred[x].status
               /\ FreshCred' = FreshCred
    BY <1>0, <1>3 DEF UpdateFields, Credential, FreshCred
  <1>4. ASSUME NEW m \in Limits, NEW a \in BOOLEAN, UpdateCommit(p, m, a)
        PROVE  RInv' /\ Atomic
    <2>1. req[p].cred \in Cred
      BY <1>4, RequestFields DEF UpdateCommit, RequestShape, RInv, EInv, SInv, IInv
    <2>2. /\ \A x \in Cred : cred'[x].owner = cred[x].owner /\ cred'[x].status = cred[x].status
          /\ FreshCred' = FreshCred /\ UNCHANGED <<dev, sess>> /\ Close(p)
      BY <1>3, <1>4, <2>1 DEF UpdateCommit
    <2>3. RowsStay /\ Tidy'
      BY <2>2 DEF RowsStay, RInv, Tidy, FreshSess, FreshDev, FreshCred
    <2>4. UNCHANGED RightsRows
      BY <2>2 DEF RightsRows, Trusted, Open
    <2> QED
      BY <2>2, <2>3, <2>4, TableReach DEF Atomic
  <1>5. ASSUME NEW m \in Limits, NEW a \in BOOLEAN, ExpireCommit(p, m, a)
        PROVE  RInv' /\ Atomic
    <2>1. PICK c : c = req[p].cred
      OBVIOUS
    <2>2. /\ c \in Cred /\ SweepDone(p, "update") /\ RevokeHeld(p) /\ Close(p) /\ UNCHANGED dev
      BY <1>5, <2>1, RequestFields
      DEF ExpireCommit, SweepDone, RequestShape, RInv, EInv, SInv, IInv
    <2>3. /\ \A x \in Cred : cred'[x].owner = cred[x].owner /\ cred'[x].status = cred[x].status
          /\ FreshCred' = FreshCred
      BY <1>3, <1>5, <2>1, <2>2 DEF ExpireCommit
    <2>4. /\ RInv' /\ Open' = Open \ Rights!OpenOf({c})
          /\ [s \in Sess |-> sess[s].dev]' = [s \in Sess |-> sess[s].dev]
          /\ [d \in Dev |-> dev[d].cred]' = [d \in Dev |-> dev[d].cred]
      BY <2>1, <2>2, <2>3, EndAtomic
    <2>5. Trusted' = Trusted
      BY <2>2 DEF Trusted
    <2>6. Rights!EndSessions(c)
      BY <2>3, <2>4, <2>5 DEF Rights!EndSessions
    <2> QED
      BY <2>2, <2>4, <2>6 DEF Atomic, Rights!RightsNext
  <1> QED
    BY <1>1, <1>2, <1>4, <1>5 DEF Update

LEMMA NextAtomic == RInv /\ [Next]_vars => RInv' /\ Atomic
  <1> SUFFICES ASSUME RInv, [Next]_vars PROVE RInv' /\ Atomic
    OBVIOUS
  <1>t. EInv'
    BY NextExpiry DEF RInv
  <1>1. ASSUME NEW p \in Req, Rollback(p) PROVE RInv' /\ Atomic
    <2>1. Reach(Idle)
      BY DEF Reach, Idle
    <2> QED
      BY <1>1, <1>t, <2>1, MoveReach, SameRights DEF Rollback, Close, tables, Atomic
  <1>2. ASSUME NEW r \in Reader, NEW c \in Cred, NEW e \in Time, NEW m \in Limits,
               NEW a \in BOOLEAN, CreateReader(r, c, e, m, a)
        PROVE  RInv' /\ Atomic
    <2>1. /\ cred[c].status = "none" /\ \A x \in Cred : cred[x].owner # r
          /\ cred'[c].owner = r /\ cred'[c].status = "active"
          /\ \A x \in Cred \ {c} : cred'[x] = cred[x]
          /\ UNCHANGED <<dev, sess, req>>
      BY <1>2 DEF CreateReader, NewCredential, FreshCred, RInv, EInv, SInv, IInv, TypeInv, TypeOK
    <2>2. RowsStay /\ Tidy'
      BY <2>1 DEF RowsStay, RInv, Tidy, FreshSess, FreshDev, FreshCred
    <2>3. RInv'
      BY <1>t, <2>1, <2>2, TableReach
    <2>4. Rights!Create(r, c)
      BY <2>1 DEF Rights!Create, Trusted, Open
    <2> QED
      BY <2>3, <2>4 DEF Atomic, Rights!RightsNext
  <1>3. ASSUME UNCHANGED <<tables, req>> PROVE RInv' /\ Atomic
    <2>1. RowsStay /\ Tidy'
      BY <1>3 DEF tables, RowsStay, RInv, Tidy, FreshSess, FreshDev, FreshCred
    <2> QED
      BY <1>3, <1>t, <2>1, TableReach, SameRights DEF tables, Atomic
  <1>4. CASE Tick
    BY <1>3, <1>4 DEF Tick
  <1>5. CASE UNCHANGED vars
    BY <1>3, <1>5 DEF vars, tables
  <1>6. ASSUME NEW p \in Req, Statement(p) PROVE RInv' /\ Atomic
    <2>1. UNCHANGED tables
      BY <1>6
      DEF Statement, DeviceLock, TokensLock, SessionsLock, SweepSession, SweepTokens
    <2> QED
      BY <1>6, <1>t, <2>1, StatementReach, SameRights DEF tables, Atomic
  <1> QED
    BY <1>1, <1>2, <1>4, <1>5, <1>6, <1>t, LoginAtomic, RefreshAtomic, RevocationAtomic,
       LifecycleAtomic, UpdateAtomic DEF Next

LEMMA SpecRInv == Spec => []RInv
  <1>1. RInv /\ [Next]_vars => RInv'
    BY NextAtomic
  <1> QED
    BY <1>1, InitRInv, PTL DEF Spec

\* ImplementsAccessRights: the transactions of application/auth/service.py, which take
\* their rows one by one and work with what they have read before, implement AccessRights,
\* where every operation is one step.  A login that overlaps a suspension either comes
\* before it, and its session ends with the others, or comes after it and is refused; a
\* suspension, a revocation or a reissue ends the sessions of its credential and of no
\* other; and nothing but a login opens a session.
THEOREM ImplementsAccessRights == Spec => OperationsAreAtomic
  <1>1. Init => Rights!RightsInit
    BY DEF Init, Rights!RightsInit, Trusted, Open
  <1>2. RInv /\ [Next]_vars => [Rights!RightsNext]_(Rights!rights)
    BY NextAtomic DEF Atomic, RightsRows, Rights!rights
  <1> QED
    BY <1>1, <1>2, SpecRInv, PTL DEF Spec, OperationsAreAtomic, Rights!RightsSpec

\* What AccessRights promises of a reader's credentials: one of them is not revoked.
OneCurrent == \A r \in Reader : \A c, x \in CurrentCreds(r) : c = x

\* A step of AccessRights gives a reader a credential only in place of the current one.
LEMMA AtomicOneCurrent ==
  ASSUME RInv, OneCurrent, Atomic
  PROVE  OneCurrent'
  <1>1. ASSUME \A c \in Cred : /\ cred'[c].owner = cred[c].owner
                               /\ cred'[c].status \in {"active", "suspended"} =>
                                    cred[c].status \in {"active", "suspended"}
        PROVE  OneCurrent'
    BY <1>1 DEF OneCurrent, CurrentCreds
  <1>2. ASSUME UNCHANGED <<[c \in Cred |-> cred[c].owner], [c \in Cred |-> cred[c].status]>>
        PROVE  OneCurrent'
    <2>1. \A c \in Cred : cred'[c].owner = [x \in Cred |-> cred[x].owner]'[c]
                          /\ cred'[c].status = [x \in Cred |-> cred[x].status]'[c]
      OBVIOUS
    <2> QED
      BY <1>1, <1>2, <2>1
  <1>3. ASSUME NEW c \in Cred, NEW v \in {"active", "suspended", "revoked"},
               v # "revoked" => cred[c].status \in {"active", "suspended"},
               UNCHANGED [x \in Cred |-> cred[x].owner],
               [x \in Cred |-> cred[x].status]' =
                  [[x \in Cred |-> cred[x].status] EXCEPT ![c] = v]
        PROVE  OneCurrent'
    <2>1. \A x \in Cred : cred'[x].owner = [y \in Cred |-> cred[y].owner]'[x]
                          /\ cred'[x].status = [y \in Cred |-> cred[y].status]'[x]
      OBVIOUS
    <2>2. \A x \in Cred : cred'[x].owner = cred[x].owner
                          /\ cred'[x].status = IF x = c THEN v ELSE cred[x].status
      BY <1>3, <2>1
    <2> QED
      BY <1>1, <1>3, <2>2
  <1>4. ASSUME NEW r \in Reader, NEW c \in Cred, NEW S, CurrentCreds(r) \subseteq S,
               [x \in Cred |-> cred[x].owner]' = [[x \in Cred |-> cred[x].owner] EXCEPT ![c] = r],
               [x \in Cred |-> cred[x].status]' =
                  [x \in Cred |-> IF x = c THEN "active"
                                  ELSE IF x \in S THEN "revoked"
                                  ELSE [y \in Cred |-> cred[y].status][x]]
        PROVE  OneCurrent'
    <2>1. \A x \in Cred : cred'[x].owner = [y \in Cred |-> cred[y].owner]'[x]
                          /\ cred'[x].status = [y \in Cred |-> cred[y].status]'[x]
      OBVIOUS
    <2>2. \A x \in Cred : /\ cred'[x].owner = IF x = c THEN r ELSE cred[x].owner
                          /\ cred'[x].status = IF x = c THEN "active"
                                               ELSE IF x \in S THEN "revoked"
                                               ELSE cred[x].status
      BY <1>4, <2>1
    <2>3. CurrentCreds(r)' \subseteq {c}
      BY <1>4, <2>2 DEF CurrentCreds
    <2>4. \A y \in Reader \ {r} : CurrentCreds(y)' \subseteq CurrentCreds(y)
      BY <2>2 DEF CurrentCreds
    <2> QED
      BY <2>3, <2>4 DEF OneCurrent
  <1>5. ASSUME NEW r \in Reader, NEW c \in Cred, Rights!Create(r, c) PROVE OneCurrent'
    <2>1. \A x \in Cred : cred[x].owner # r
      BY <1>5 DEF Rights!Create
    <2>2. CurrentCreds(r) = {}
      BY <2>1 DEF CurrentCreds
    <2>3. /\ [x \in Cred |-> cred[x].owner]' = [[x \in Cred |-> cred[x].owner] EXCEPT ![c] = r]
          /\ [x \in Cred |-> cred[x].status]' =
                  [[x \in Cred |-> cred[x].status] EXCEPT ![c] = "active"]
      BY <1>5 DEF Rights!Create
    <2>4. PICK S : S = {}
      OBVIOUS
    <2>5. [x \in Cred |-> cred[x].status]' =
                  [x \in Cred |-> IF x = c THEN "active"
                                  ELSE IF x \in S THEN "revoked"
                                  ELSE [y \in Cred |-> cred[y].status][x]]
      BY <2>3, <2>4
    <2>6. CurrentCreds(r) \subseteq S
      BY <2>2
    <2> QED
      BY <1>4, <2>3, <2>5, <2>6
  <1>6. ASSUME NEW r \in Reader, NEW c \in Cred, Rights!Reissue(r, c) PROVE OneCurrent'
    <2>1. PICK S : S = Rights!Current(r)
      OBVIOUS
    <2>2. CurrentCreds(r) \subseteq S
      BY <2>1, OpenSessions
    <2> QED
      BY <1>4, <1>6, <2>1, <2>2 DEF Rights!Reissue
  <1>7. ASSUME NEW c \in Cred, Rights!Suspend(c) PROVE OneCurrent'
    <2>1. cred[c].status \in {"active", "suspended"}
      BY <1>7 DEF Rights!Suspend
    <2> QED
      BY <1>3, <1>7, <2>1 DEF Rights!Suspend
  <1>8. ASSUME NEW c \in Cred, Rights!Resume(c) PROVE OneCurrent'
    <2>1. cred[c].status \in {"active", "suspended"}
      BY <1>8 DEF Rights!Resume
    <2> QED
      BY <1>3, <1>8, <2>1 DEF Rights!Resume
  <1>9. ASSUME NEW c \in Cred, Rights!Revoke(c) PROVE OneCurrent'
    BY <1>3, <1>9 DEF Rights!Revoke
  <1>10. ASSUME NEW c \in Cred, Rights!EndSessions(c) PROVE OneCurrent'
    BY <1>2, <1>10 DEF Rights!EndSessions
  <1>11. ASSUME NEW d \in Dev, Rights!RevokeDevice(d) PROVE OneCurrent'
    BY <1>2, <1>11 DEF Rights!RevokeDevice
  <1>12. ASSUME NEW S \in SUBSET Sess, Rights!LogOut(S) PROVE OneCurrent'
    BY <1>2, <1>12 DEF Rights!LogOut
  <1>13. ASSUME NEW d \in Dev, NEW s \in Sess, Rights!LogInTooLate(d, s) PROVE OneCurrent'
    BY <1>2, <1>13 DEF Rights!LogInTooLate
  <1>14. ASSUME NEW c \in Cred, NEW d \in Dev, NEW s \in Sess, Rights!LogIn(c, d, s)
         PROVE  OneCurrent'
    BY <1>2, <1>14 DEF Rights!LogIn
  <1>15. CASE UNCHANGED RightsRows
    BY <1>2, <1>15 DEF RightsRows
  <1> QED
    BY <1>5, <1>6, <1>7, <1>8, <1>9, <1>10, <1>11, <1>12, <1>13, <1>14, <1>15
    DEF Atomic, Rights!RightsNext

\* What the rows say of who may use what.
LEMMA RowsAreLawful == RInv /\ OneCurrent => Rights!Lawful
  <1> SUFFICES ASSUME RInv, OneCurrent PROVE Rights!Lawful
    OBVIOUS
  <1>1. \A c \in Cred \ FreshCred : cred[c].status \in {"active", "suspended", "revoked"}
    BY DEF FreshCred, RInv, EInv, SInv, IInv, TypeInv, TypeOK, Credential, CredStatus
  <1>2. ASSUME NEW d \in Trusted
        PROVE  /\ d \in Dev /\ dev[d].cred \in Cred
               /\ cred[dev[d].cred].status \in {"active", "suspended"}
    <2>1. d \in Dev /\ dev[d].cred \in Cred \ FreshCred /\ ~dev[d].revoked
      BY DEF Trusted, RInv, Tidy, EInv, SInv, IInv, TypeInv, TypeOK, Device
    <2>2. cred[dev[d].cred].status # "revoked"
      BY <2>1 DEF RInv, EInv, SInv, IInv, RevokedCredentialHasNoActiveDevice, ActiveDevices
    <2> QED
      BY <1>1, <2>1, <2>2
  <1>3. ASSUME NEW s \in Open
        PROVE  /\ s \in Sess /\ sess[s].dev \in Trusted
               /\ cred[dev[sess[s].dev].cred].status = "active"
    <2>1. /\ s \in Sess /\ sess[s].dev \in Trusted /\ ~sess[s].revoked
          /\ dev[sess[s].dev].cred = sess[s].cred
      BY OpenSessions DEF Open
    <2>2. cred[sess[s].cred].status \in {"active", "suspended"} /\ sess[s].cred \in Cred
      BY <1>2, <2>1
    <2> QED
      BY <2>1, <2>2 DEF RInv, EInv, SInv, IInv, InactiveCredentialHasNoLiveSession
  <1>4. \A s, u \in Open : sess[s].dev = sess[u].dev => s = u
    BY <1>2, <1>3 DEF Open, RInv, EInv, SInv, OneLiveSessionPerDevice
  <1>5. \A r \in Reader : \A c, x \in Rights!Current(r) : c = x
    BY OpenSessions DEF OneCurrent
  <1> QED
    BY <1>2, <1>3, <1>4, <1>5 DEF Rights!Lawful

\* AccessIsLawful: what AccessRights promises of the state holds of the rows between any
\* two commits.  Who may use a session has an active credential on a device that is not
\* revoked, one session a device; and a reader has at most one credential that is not
\* revoked, although a reissue reads the current one before it waits for its row.
THEOREM AccessIsLawful == Spec => []Rights!Lawful
  <1>1. Init => OneCurrent
    BY DEF Init, OneCurrent, CurrentCreds
  <1>2. RInv /\ OneCurrent /\ [Next]_vars => OneCurrent'
    BY NextAtomic, AtomicOneCurrent
  <1> QED
    BY <1>1, <1>2, SpecRInv, RowsAreLawful, PTL DEF Spec
=============================================================================
