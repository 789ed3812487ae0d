------------------------- MODULE AdminAccessProofs -------------------------
(***************************************************************************)
(* Proofs about AdminAccess for any number of passkeys, devices, sessions, *)
(* tokens and requests: its types, that a revoked passkey has no live      *)
(* session, that a token opens one session, that one recovery credential   *)
(* is open, and that two logins leave one live session on a device.        *)
(*                                                                         *)
(* At the end, what the administrator does at the server as a whole: a     *)
(* behaviour of MCAdministration is one of the access and one of the       *)
(* catalogue, whose first rows satisfy the invariants of CatalogueProofs.  *)
(***************************************************************************)
EXTENDS MCAdministration, CatalogueProofs, FiniteSetTheorems, TLAPS

\* A challenge or recovery credential that is spent by its first use.
Fresh(t) == token[t] \in {"open", "expired"}

\* Two requests never hold one lock.
Apart == \A p, q \in Req : p # q => req[p].locks \cap req[q].locks = {}

\* The steps an operation passes through.
Stage(p) ==
    LET r == req[p]
    IN  /\ r.op = "none" => r.step = "idle" /\ r.locks = {}
        /\ r.op \in {"login", "recovery"} => r.step \in {"device", "commit"}
        /\ r.op = "register" => r.step \in {"passkey", "site", "commit"}
        /\ r.op = "revoke" => r.step \in {"flush", "commit"}
        /\ r.op \in Commands => r.step \in {"keys", "sessions", "issue", "commit"}

\* A request revokes sessions that exist.
Noted(p) == \A s \in req[p].ends : sess[s] # NoEntry

\* A login holds what it was given, and at its commit the device, with every
\* live session on it that a login has opened.
LoginWork(p) ==
    LET r == req[p]
    IN  r.op \in {"login", "recovery"} =>
            /\ r.dev \in Device
            /\ r.token \in Token \cap r.locks /\ Fresh(r.token)
            /\ r.op = "login" => r.key \in Passkey \cap r.locks /\ passkey[r.key] = "active"
            /\ r.op = "recovery" => r.key = NoKey
            /\ r.step = "commit" =>
                 /\ r.dev \in r.locks
                 /\ \A s \in Live : sess[s].dev = r.dev /\ sess[s].token \notin Registration
                                    => s \in r.ends

\* A registration has a session, and then a challenge and a passkey of its own.
RegisterWork(p) ==
    LET r == req[p]
    IN  r.op = "register" =>
            /\ r.sess \in Session /\ sess[r.sess] # NoEntry
            /\ r.step # "passkey" =>
                 /\ r.token \in Registration \cap r.locks /\ Fresh(r.token)
                 /\ r.key \in Passkey \cap r.locks

\* A revocation holds its passkey at the commit, and nothing else.
RevokeWork(p) ==
    LET r == req[p]
    IN  r.op = "revoke" =>
            /\ r.key \in Passkey /\ r.locks \subseteq {r.key}
            /\ r.step = "commit" => r.key \in r.locks

\* A command holds the site, and with a new credential every open one.
CommandWork(p) ==
    LET r == req[p]
    IN  r.op \in Commands =>
            /\ Site \in r.locks
            /\ r.token # NoToken =>
                 r.token \in Recovery /\ token[r.token] = "none" /\ Open \subseteq r.locks

\* Who revokes the passkeys it holds revokes their live sessions too.
WorkCovers(p) ==
    LET r == req[p]
    IN  r.op \in Commands \cup {"revoke"} /\ r.step \in {"issue", "commit"} =>
            \A s \in Live : sess[s].key \in Passkey \cap r.locks => s \in r.ends

Work(p) ==
    /\ Stage(p) /\ Noted(p) /\ LoginWork(p) /\ RegisterWork(p)
    /\ RevokeWork(p) /\ CommandWork(p) /\ WorkCovers(p)

\* The token of a session is spent.
SpentTokens ==
    \A s \in Session : sess[s] # NoEntry => token[sess[s].token] \in {"used", "revoked"}

IInv ==
    /\ TypeOK
    /\ Apart
    /\ \A p \in Req : Work(p)
    /\ SpentTokens
    /\ RevokedPasskeyHasNoLiveSession
    /\ TokenOpensOneSession
    /\ OneOpenRecovery
    /\ OneLoginPerDevice

-----------------------------------------------------------------------------
(* Records.                                                                *)

\* A session that exists has a passkey or none, a token and a device.
LEMMA EntryFields ==
    ASSUME NEW e \in Entry \cup {NoEntry}
    PROVE  /\ e # NoEntry => e \in Entry
           /\ e \in Entry => /\ e # NoEntry
                             /\ e.key \in Passkey \cup {NoKey} /\ e.token \in Token
                             /\ e.dev \in Device /\ e.state \in {"live", "revoked"}
           /\ e.state = "live" => e \in Entry
  BY AdminAccessAssumption DEF Entry, NoEntry

\* A request with nothing to do is in order.
LEMMA IdleWork ==
    ASSUME NEW p \in Req, req[p] = Idle
    PROVE  Idle \in Request /\ Work(p)
  <1>1. Idle \in Request
    BY AdminAccessAssumption DEF Idle, Request
  <1>2. /\ req[p].op = "none" /\ req[p].step = "idle"
        /\ req[p].locks = {} /\ req[p].ends = {}
    BY DEF Idle
  <1>3. "none" \notin Commands \cup {"login", "recovery", "register", "revoke"}
    BY DEF Commands
  <1> QED
    BY <1>1, <1>2, <1>3
    DEF Work, Stage, Noted, LoginWork, RegisterWork, RevokeWork, CommandWork, WorkCovers

\* The names of the commands are not those of requests.
LEMMA CommandNames ==
    /\ "none" \notin Commands /\ "login" \notin Commands /\ "recovery" \notin Commands
    /\ "register" \notin Commands /\ "revoke" \notin Commands
  BY DEF Commands

-----------------------------------------------------------------------------
(* What the steps of others leave in order.                                *)

\* A request stays in order while another one commits: what it has locked is
\* left alone, and the sessions that appear are not of what it has locked.
LEMMA Undisturbed ==
    ASSUME TypeOK, NEW q \in Req, Work(q), req'[q] = req[q],
           \A k \in Passkey \cap req[q].locks : passkey'[k] = passkey[k],
           \A t \in Token \cap req[q].locks : Fresh(t) => Fresh(t)',
           req[q].op \in Commands =>
               \A t \in Recovery : /\ token[t] = "none" => token'[t] = "none"
                                   /\ token'[t] = "open" => token[t] = "open",
           \A s \in Session : sess[s] # NoEntry => sess'[s] # NoEntry,
           \A s \in Live' :
               \/ /\ s \in Live
                  /\ sess'[s].key = sess[s].key /\ sess'[s].token = sess[s].token
                  /\ sess'[s].dev = sess[s].dev
               \/ /\ sess'[s].key \notin Passkey \cap req[q].locks
                  /\ sess'[s].dev \in req[q].locks => sess'[s].token \in Registration
    PROVE  Work(q)'
  <1> DEFINE r == req[q]
  <1>1. r.ends \subseteq Session /\ r.locks \subseteq Lock
    BY DEF TypeOK, Request
  <1>2. Stage(q)'
    BY DEF Work, Stage
  <1>3. Noted(q)'
    BY <1>1 DEF Work, Noted
  <1>4. LoginWork(q)'
    BY DEF Work, LoginWork
  <1>5. RegisterWork(q)'
    BY DEF Work, RegisterWork, Token, Challenge
  <1>6. RevokeWork(q)'
    BY DEF Work, RevokeWork
  <1>7. CommandWork(q)'
    <2>1. r.op \in Commands => Open' \subseteq Open
      BY DEF Open
    <2> QED
      BY <2>1 DEF Work, CommandWork
  <1>8. WorkCovers(q)'
    BY DEF Work, WorkCovers
  <1> QED
    BY <1>2, <1>3, <1>4, <1>5, <1>6, <1>7, <1>8 DEF Work

\* A step that moves one request and writes nothing preserves the invariant if
\* the request's new record is in order and its locks were free.
LEMMA MoveInv ==
    ASSUME IInv, NEW p \in Req, NEW r \in Request,
           req' = [req EXCEPT ![p] = r],
           UNCHANGED <<ready, locked, passkey, token, sess>>,
           Free(p, r.locks \ req[p].locks),
           Work(p)'
    PROVE  IInv'
  <1>1. TypeOK'
    BY DEF IInv, TypeOK
  <1>2. req'[p] = r /\ \A q \in Req \ {p} : req'[q] = req[q]
    BY DEF IInv, TypeOK
  <1>3. ASSUME NEW q \in Req, q # p PROVE r.locks \cap req[q].locks = {}
    BY <1>3 DEF IInv, Apart, Free
  <1>4. Apart'
    BY <1>2, <1>3 DEF IInv, Apart
  <1>5. Live' = Live /\ Open' = Open
    BY DEF Live, Open
  <1>6. ASSUME NEW q \in Req, q # p PROVE Work(q)'
    <2>1. req'[q] = req[q] /\ Work(q)
      BY <1>2, <1>6 DEF IInv
    <2> QED
      BY <2>1, <1>5 DEF Work, Stage, Noted, LoginWork, RegisterWork, RevokeWork,
                        CommandWork, WorkCovers, Fresh
  <1>7. \A q \in Req : Work(q)'
    BY <1>6
  <1> QED
    BY <1>1, <1>4, <1>7, <1>5 DEF IInv, SpentTokens, RevokedPasskeyHasNoLiveSession,
       TokenOpensOneSession, OneOpenRecovery, OneLoginPerDevice

-----------------------------------------------------------------------------
(* The steps that write nothing.                                           *)

\* The first step of a request.
LEMMA BeginInv ==
    ASSUME IInv, NEW p \in Req, NEW r \in Request, Begin(p, r), Free(p, r.locks),
           UNCHANGED <<ready, locked, passkey, token, sess>>,
           req' = [req EXCEPT ![p] = r] => Work(p)'
    PROVE  IInv'
  <1>1. req' = [req EXCEPT ![p] = r]
    BY DEF Begin
  <1>2. Free(p, r.locks \ req[p].locks)
    BY DEF Free
  <1> QED
    BY <1>1, <1>2, MoveInv

\* A further lock.
LEMMA TakeInv ==
    ASSUME IInv, NEW p \in Req, NEW locks \in SUBSET Lock, NEW ends \in SUBSET Session,
           NEW step \in {"site", "sessions", "issue", "commit"},
           Take(p, locks, ends, step),
           UNCHANGED <<ready, locked, passkey, token, sess>>,
           Work(p)'
    PROVE  IInv'
  <1> DEFINE r == [req[p] EXCEPT !.locks = @ \cup locks, !.ends = @ \cup ends,
                                 !.step = step]
  <1>1. req[p] \in Request
    BY DEF IInv, TypeOK
  <1>2. r \in Request
    BY <1>1 DEF Request
  <1>3. req' = [req EXCEPT ![p] = r]
    BY DEF Take
  <1>4. Free(p, r.locks \ req[p].locks)
    BY <1>1 DEF Take, Free, Request
  <1> QED
    BY <1>2, <1>3, <1>4, MoveInv

\* The record of a request that takes a lock.
LEMMA TakeFields ==
    ASSUME TypeOK, NEW p \in Req, NEW locks, NEW ends, NEW step,
           Take(p, locks, ends, step)
    PROVE  /\ req'[p].op = req[p].op /\ req'[p].step = step
           /\ req'[p].sess = req[p].sess /\ req'[p].key = req[p].key
           /\ req'[p].token = req[p].token /\ req'[p].dev = req[p].dev
           /\ req'[p].locks = req[p].locks \cup locks
           /\ req'[p].ends = req[p].ends \cup ends
  BY DEF TypeOK, Take, Request

LEMMA LiveExists ==
    ASSUME TypeOK, NEW s \in Live
    PROVE  s \in Session /\ sess[s] \in Entry /\ sess[s] # NoEntry
  BY EntryFields DEF Live, TypeOK

LEMMA LoginCheckInv ==
    ASSUME IInv, NEW p \in Req, NEW k \in Passkey, NEW c \in Authentication,
           NEW d \in Device, LoginCheck(p, k, c, d)
    PROVE  IInv'
  <1> DEFINE r == [Idle EXCEPT !.op = "login", !.step = "device", !.key = k,
                               !.token = c, !.dev = d, !.locks = {k, c}]
  <1>1. r \in Request
    BY DEF Request, Idle, Lock, Token, Challenge
  <1>2. ASSUME req' = [req EXCEPT ![p] = r] PROVE Work(p)'
    <2>1. req'[p] = r
      BY <1>2 DEF IInv, TypeOK
    <2>2. /\ r.op = "login" /\ r.step = "device" /\ r.key = k /\ r.token = c
          /\ r.dev = d /\ r.locks = {k, c} /\ r.ends = {}
      BY DEF Idle
    <2>3. passkey'[k] = "active" /\ token'[c] = "open"
      BY DEF LoginCheck
    <2> QED
      BY <2>1, <2>2, <2>3, CommandNames
      DEF Work, Stage, Noted, LoginWork, RegisterWork, RevokeWork, CommandWork, WorkCovers,
          Fresh, Token, Challenge
  <1>3. Begin(p, r) /\ Free(p, r.locks)
    BY DEF LoginCheck, Idle
  <1>4. UNCHANGED <<ready, locked, passkey, token, sess>>
    BY DEF LoginCheck
  <1> QED
    BY <1>1, <1>2, <1>3, <1>4, BeginInv

LEMMA RecoveryCheckInv ==
    ASSUME IInv, NEW p \in Req, NEW c \in Recovery, NEW d \in Device,
           RecoveryCheck(p, c, d)
    PROVE  IInv'
  <1> DEFINE r == [Idle EXCEPT !.op = "recovery", !.step = "device",
                               !.token = c, !.dev = d, !.locks = {c}]
  <1>1. r \in Request
    BY DEF Request, Idle, Lock, Token
  <1>2. ASSUME req' = [req EXCEPT ![p] = r] PROVE Work(p)'
    <2>1. req'[p] = r
      BY <1>2 DEF IInv, TypeOK
    <2>2. /\ r.op = "recovery" /\ r.step = "device" /\ r.key = NoKey /\ r.token = c
          /\ r.dev = d /\ r.locks = {c} /\ r.ends = {}
      BY DEF Idle
    <2>3. token'[c] = "open"
      BY DEF RecoveryCheck
    <2> QED
      BY <2>1, <2>2, <2>3, CommandNames
      DEF Work, Stage, Noted, LoginWork, RegisterWork, RevokeWork, CommandWork, WorkCovers,
          Fresh, Token
  <1>3. Begin(p, r) /\ Free(p, r.locks)
    BY DEF RecoveryCheck, Idle
  <1>4. UNCHANGED <<ready, locked, passkey, token, sess>>
    BY DEF RecoveryCheck
  <1> QED
    BY <1>1, <1>2, <1>3, <1>4, BeginInv

LEMMA TakeDeviceInv ==
    ASSUME IInv, NEW p \in Req, TakeDevice(p)
    PROVE  IInv'
  <1> DEFINE ends == {s \in Live : sess[s].dev = req[p].dev}
  <1>1. Take(p, {req[p].dev}, ends, "commit") /\ req[p].step = "device"
    BY DEF TakeDevice
  <1>2. UNCHANGED <<ready, locked, passkey, token, sess>>
    BY DEF TakeDevice
  <1>3. req[p].op \in {"login", "recovery"} /\ req[p].dev \in Device /\ TypeOK /\ Work(p)
    BY <1>1 DEF IInv, TypeOK, Request, Work, Stage, LoginWork
  <1>4. Work(p)'
    <2>1. \A s \in ends : sess[s] # NoEntry
      BY <1>3, LiveExists
    <2>2. Live' = Live
      BY <1>2 DEF Live
    <2> QED
      BY <1>1, <1>2, <1>3, <2>1, <2>2, TakeFields, CommandNames
      DEF Work, Stage, Noted, LoginWork, RegisterWork, RevokeWork, CommandWork, WorkCovers,
          Fresh
  <1>5. {req[p].dev} \in SUBSET Lock /\ ends \in SUBSET Session
    BY <1>3 DEF Lock, Live
  <1> QED
    BY <1>1, <1>2, <1>4, <1>5, TakeInv

LEMMA RegisterCheckInv ==
    ASSUME IInv, NEW p \in Req, NEW s \in Session, RegisterCheck(p, s)
    PROVE  IInv'
  <1> DEFINE r == [Idle EXCEPT !.op = "register", !.step = "passkey", !.sess = s]
  <1>1. r \in Request
    BY DEF Request, Idle, Lock
  <1>2. ASSUME req' = [req EXCEPT ![p] = r] PROVE Work(p)'
    <2>1. req'[p] = r
      BY <1>2 DEF IInv, TypeOK
    <2>2. /\ r.op = "register" /\ r.step = "passkey" /\ r.sess = s /\ r.ends = {}
      BY DEF Idle
    <2>3. sess'[s] # NoEntry
      BY DEF RegisterCheck, Valid, NoEntry
    <2> QED
      BY <2>1, <2>2, <2>3, CommandNames
      DEF Work, Stage, Noted, LoginWork, RegisterWork, RevokeWork, CommandWork, WorkCovers
  <1>3. Begin(p, r) /\ Free(p, r.locks)
    BY DEF RegisterCheck, Idle, Free
  <1>4. UNCHANGED <<ready, locked, passkey, token, sess>>
    BY DEF RegisterCheck
  <1> QED
    BY <1>1, <1>2, <1>3, <1>4, BeginInv

LEMMA RegisterPasskeyInv ==
    ASSUME IInv, NEW p \in Req, NEW c \in Registration, NEW k \in Passkey,
           RegisterPasskey(p, c, k)
    PROVE  IInv'
  <1> DEFINE r == [req[p] EXCEPT
                      !.token = c, !.key = k, !.locks = {c, k},
                      !.ends = IF Recovering(p) THEN Live ELSE {},
                      !.step = IF Recovering(p) THEN "site" ELSE "commit"]
  <1>1. req[p] \in Request /\ req[p].op = "register" /\ Work(p) /\ TypeOK
    BY DEF IInv, TypeOK, RegisterPasskey
  <1>2. r \in Request
    <2>1. /\ (IF Recovering(p) THEN Live ELSE {}) \in SUBSET Session
          /\ (IF Recovering(p) THEN "site" ELSE "commit") \in {"site", "commit"}
      BY DEF Live
    <2>2. c \in Token /\ {c, k} \in SUBSET Lock
      BY DEF Lock, Token, Challenge
    <2> QED
      BY <1>1, <2>1, <2>2 DEF Request
  <1>3. req' = [req EXCEPT ![p] = r]
    BY DEF RegisterPasskey
  <1>4. UNCHANGED <<ready, locked, passkey, token, sess>>
    BY DEF RegisterPasskey
  <1>5. /\ r.op = "register" /\ r.sess = req[p].sess /\ r.token = c /\ r.key = k
        /\ r.locks = {c, k} /\ r.ends \subseteq Live /\ r.step \in {"site", "commit"}
    BY <1>1 DEF Request
  <1>6. Free(p, r.locks \ req[p].locks)
    BY <1>5 DEF RegisterPasskey, Free
  <1>7. Work(p)'
    <2>1. req'[p] = r
      BY <1>1, <1>3 DEF TypeOK
    <2>2. \A s \in r.ends : sess'[s] # NoEntry
      BY <1>1, <1>4, <1>5, LiveExists
    <2>3. token'[c] = "open" /\ req[p].sess \in Session /\ sess'[req[p].sess] # NoEntry
      BY <1>1, <1>4 DEF RegisterPasskey, Work, RegisterWork
    <2> QED
      BY <1>5, <2>1, <2>2, <2>3, CommandNames
      DEF Work, Stage, Noted, LoginWork, RegisterWork, RevokeWork, CommandWork, WorkCovers,
          Fresh
  <1> QED
    BY <1>2, <1>3, <1>4, <1>6, <1>7, MoveInv

LEMMA TakeSiteInv ==
    ASSUME IInv, NEW p \in Req, TakeSite(p)
    PROVE  IInv'
  <1>1. Take(p, {Site}, {}, "commit") /\ req[p].step = "site"
    BY DEF TakeSite
  <1>2. UNCHANGED <<ready, locked, passkey, token, sess>>
    BY DEF TakeSite
  <1>3. req[p].op = "register" /\ TypeOK /\ Work(p)
    BY <1>1 DEF IInv, TypeOK, Request, Work, Stage
  <1>4. Work(p)'
    BY <1>1, <1>2, <1>3, TakeFields, CommandNames
    DEF Work, Stage, Noted, LoginWork, RegisterWork, RevokeWork, CommandWork, WorkCovers, Fresh
  <1>5. {Site} \in SUBSET Lock /\ {} \in SUBSET Session
    BY DEF Lock
  <1> QED
    BY <1>1, <1>2, <1>4, <1>5, TakeInv

LEMMA RevokeCheckInv ==
    ASSUME IInv, NEW p \in Req, NEW s \in Session, NEW k \in Passkey, RevokeCheck(p, s, k)
    PROVE  IInv'
  <1> DEFINE r == [Idle EXCEPT !.op = "revoke", !.step = "flush", !.key = k]
  <1>1. r \in Request
    BY DEF Request, Idle, Lock
  <1>2. ASSUME req' = [req EXCEPT ![p] = r] PROVE Work(p)'
    <2>1. req'[p] = r
      BY <1>2 DEF IInv, TypeOK
    <2>2. /\ r.op = "revoke" /\ r.step = "flush" /\ r.key = k
          /\ r.ends = {} /\ r.locks = {}
      BY DEF Idle
    <2> QED
      BY <2>1, <2>2, CommandNames
      DEF Work, Stage, Noted, LoginWork, RegisterWork, RevokeWork, CommandWork, WorkCovers
  <1>3. Begin(p, r) /\ Free(p, r.locks)
    BY DEF RevokeCheck, Idle, Free
  <1>4. UNCHANGED <<ready, locked, passkey, token, sess>>
    BY DEF RevokeCheck
  <1> QED
    BY <1>1, <1>2, <1>3, <1>4, BeginInv

LEMMA RevokeFlushInv ==
    ASSUME IInv, NEW p \in Req, RevokeFlush(p)
    PROVE  IInv'
  <1> DEFINE ends == {s \in Live : sess[s].key = req[p].key}
  <1>1. Take(p, {req[p].key}, ends, "commit") /\ req[p].step = "flush"
    BY DEF RevokeFlush
  <1>2. UNCHANGED <<ready, locked, passkey, token, sess>>
    BY DEF RevokeFlush
  <1>3. TypeOK /\ Work(p) /\ req[p].op = "revoke" /\ req[p].key \in Passkey
    BY <1>1 DEF IInv, TypeOK, Request, Work, Stage, RevokeWork
  <1>4. Work(p)'
    <2>1. \A s \in ends : sess[s] # NoEntry
      BY <1>3, LiveExists
    <2>2. Live' = Live
      BY <1>2 DEF Live
    <2>3. req'[p].locks = {req[p].key}
      BY <1>1, <1>3, TakeFields DEF Work, RevokeWork
    <2> QED
      BY <1>1, <1>2, <1>3, <2>1, <2>2, <2>3, TakeFields, CommandNames
      DEF Work, Stage, Noted, LoginWork, RegisterWork, RevokeWork, CommandWork, WorkCovers
  <1>5. {req[p].key} \in SUBSET Lock /\ ends \in SUBSET Session
    BY <1>3 DEF Lock, Live
  <1> QED
    BY <1>1, <1>2, <1>4, <1>5, TakeInv

\* The site row is no passkey and no token.
LEMMA SiteApart ==
    Site \notin Passkey /\ Site \notin Token
  BY AdminAccessAssumption

LEMMA CommandInv ==
    ASSUME IInv, NEW p \in Req, NEW op \in Commands, Command(p, op)
    PROVE  IInv'
  <1> DEFINE r == [Idle EXCEPT !.op = op, !.step = FirstStep(op), !.locks = {Site}]
  <1>1. FirstStep(op) \in {"keys", "sessions", "issue", "commit"}
    BY DEF FirstStep, Commands
  <1>2. r \in Request
    BY <1>1 DEF Request, Idle, Lock
  <1>3. ASSUME req' = [req EXCEPT ![p] = r] PROVE Work(p)'
    <2>1. req'[p] = r
      BY <1>3 DEF IInv, TypeOK
    <2>2. /\ r.op = op /\ r.step = FirstStep(op) /\ r.locks = {Site}
          /\ r.token = NoToken /\ r.ends = {}
      BY DEF Idle
    <2> QED
      BY <1>1, <2>1, <2>2, CommandNames, SiteApart
      DEF Work, Stage, Noted, LoginWork, RegisterWork, RevokeWork, CommandWork, WorkCovers
  <1>4. Begin(p, r) /\ Free(p, r.locks)
    BY DEF Command, Idle
  <1>5. UNCHANGED <<ready, locked, passkey, token, sess>>
    BY DEF Command
  <1> QED
    BY <1>2, <1>3, <1>4, <1>5, BeginInv

LEMMA ResetKeysInv ==
    ASSUME IInv, NEW p \in Req, ResetKeys(p)
    PROVE  IInv'
  <1>1. Take(p, Active, {}, "sessions") /\ req[p].step = "keys"
    BY DEF ResetKeys
  <1>2. UNCHANGED <<ready, locked, passkey, token, sess>>
    BY DEF ResetKeys
  <1>3. TypeOK /\ Work(p) /\ req[p].op \in Commands
    BY <1>1 DEF IInv, TypeOK, Request, Work, Stage
  <1>4. Work(p)'
    <2>1. Open' = Open
      BY <1>2 DEF Open
    <2> QED
      BY <1>1, <1>2, <1>3, <2>1, TakeFields, CommandNames
      DEF Work, Stage, Noted, LoginWork, RegisterWork, RevokeWork, CommandWork, WorkCovers
  <1>5. Active \in SUBSET Lock /\ {} \in SUBSET Session
    BY DEF Lock, Active
  <1> QED
    BY <1>1, <1>2, <1>4, <1>5, TakeInv

LEMMA RevokeSessionsInv ==
    ASSUME IInv, NEW p \in Req, RevokeSessions(p)
    PROVE  IInv'
  <1>1. PICK step \in {"issue", "commit"} :
            Take(p, {}, Live, step) /\ req[p].step = "sessions"
    BY DEF RevokeSessions
  <1>2. UNCHANGED <<ready, locked, passkey, token, sess>>
    BY DEF RevokeSessions
  <1>3. TypeOK /\ Work(p) /\ req[p].op \in Commands
    BY <1>1 DEF IInv, TypeOK, Request, Work, Stage
  <1>4. Work(p)'
    <2>1. Open' = Open /\ Live' = Live
      BY <1>2 DEF Open, Live
    <2>2. \A s \in Live : sess[s] # NoEntry
      BY <1>3, LiveExists
    <2> QED
      BY <1>1, <1>2, <1>3, <2>1, <2>2, TakeFields, CommandNames
      DEF Work, Stage, Noted, LoginWork, RegisterWork, RevokeWork, CommandWork, WorkCovers
  <1>5. {} \in SUBSET Lock /\ Live \in SUBSET Session
    BY DEF Live
  <1> QED
    BY <1>1, <1>2, <1>4, <1>5, TakeInv

LEMMA IssueRecoveryInv ==
    ASSUME IInv, NEW p \in Req, NEW c \in Recovery, IssueRecovery(p, c)
    PROVE  IInv'
  <1> DEFINE r == [req[p] EXCEPT !.token = c, !.locks = @ \cup Unspent, !.step = "commit"]
  <1>1. TypeOK /\ req[p] \in Request /\ Work(p) /\ req[p].op \in Commands
        /\ req[p].step = "issue"
    BY DEF IInv, TypeOK, Request, Work, Stage, IssueRecovery
  <1>2. r \in Request
    <2>1. Unspent \subseteq Lock /\ c \in Token
      BY DEF Unspent, Lock, Token
    <2> QED
      BY <1>1, <2>1 DEF Request
  <1>3. req' = [req EXCEPT ![p] = r]
    BY DEF IssueRecovery
  <1>4. UNCHANGED <<ready, locked, passkey, token, sess>>
    BY DEF IssueRecovery
  <1>5. /\ r.op = req[p].op /\ r.token = c /\ r.locks = req[p].locks \cup Unspent
        /\ r.ends = req[p].ends /\ r.step = "commit"
    BY <1>1 DEF Request
  <1>6. Free(p, r.locks \ req[p].locks)
    BY <1>5 DEF IssueRecovery, Free
  <1>7. Work(p)'
    <2>1. req'[p] = r
      BY <1>1, <1>3 DEF TypeOK
    <2>2. Open' \subseteq Unspent /\ Live' = Live /\ token'[c] = "none"
      BY <1>4 DEF Open, Unspent, Live, IssueRecovery
    <2>3. Passkey \cap r.locks = Passkey \cap req[p].locks
      BY <1>5, AdminAccessAssumption DEF Unspent, Token
    <2>4. WorkCovers(p)'
      BY <1>1, <1>4, <1>5, <2>1, <2>2, <2>3 DEF Work, WorkCovers
    <2> QED
      BY <1>1, <1>4, <1>5, <2>1, <2>2, <2>4, CommandNames
      DEF Work, Stage, Noted, LoginWork, RegisterWork, RevokeWork, CommandWork
  <1> QED
    BY <1>2, <1>3, <1>4, <1>6, <1>7, MoveInv

-----------------------------------------------------------------------------
(* The steps that write.                                                   *)

\* A challenge is offered or used up, or a token expires.
LEMMA TokenInv ==
    ASSUME IInv, NEW c \in Token, NEW v \in {"open", "used", "expired"},
           token' = [token EXCEPT ![c] = v],
           UNCHANGED <<ready, locked, passkey, sess, req>>,
           token[c] \in {"none", "open"},
           v = "used" => \A q \in Req : c \notin req[q].locks,
           c \in Recovery => token[c] = "open" /\ v = "expired"
    PROVE  IInv'
  <1>1. TypeOK /\ TypeOK'
    BY DEF IInv, TypeOK, TokenStatus
  <1>2. token'[c] = v /\ \A t \in Token \ {c} : token'[t] = token[t]
    BY <1>1 DEF TypeOK
  <1>3. Live' = Live
    BY DEF Live
  <1>4. \A t \in Recovery : /\ token[t] = "none" => token'[t] = "none"
                            /\ token'[t] = "open" => token[t] = "open"
    BY <1>2 DEF Token
  <1>5. ASSUME NEW q \in Req PROVE Work(q)'
    <2>1. \A t \in Token \cap req[q].locks : Fresh(t) => Fresh(t)'
      BY <1>2 DEF Fresh
    <2>2. Work(q)
      BY DEF IInv
    <2> QED
      BY <1>1, <1>3, <1>4, <2>1, <2>2, Undisturbed
  <1>6. Open' \subseteq Open
    BY <1>4 DEF Open
  <1>7. SpentTokens'
    <2>1. \A s \in Session : sess[s] # NoEntry => sess[s].token \in Token
      BY <1>1, EntryFields DEF TypeOK
    <2> QED
      BY <1>2, <2>1 DEF IInv, SpentTokens
  <1> QED
    BY <1>1, <1>3, <1>5, <1>6, <1>7
    DEF IInv, Apart, RevokedPasskeyHasNoLiveSession, TokenOpensOneSession, OneOpenRecovery,
        OneLoginPerDevice

LEMMA AuthenticationOptionsInv ==
    ASSUME IInv, NEW c \in Authentication, AuthenticationOptions(c)
    PROVE  IInv'
  <1>1. c \in Token /\ c \notin Recovery
    BY AdminAccessAssumption DEF Token, Challenge
  <1> QED
    BY <1>1, TokenInv DEF AuthenticationOptions

LEMMA RegistrationOptionsInv ==
    ASSUME IInv, NEW s \in Session, NEW c \in Registration, RegistrationOptions(s, c)
    PROVE  IInv'
  <1>1. c \in Token /\ c \notin Recovery
    BY AdminAccessAssumption DEF Token, Challenge
  <1> QED
    BY <1>1, TokenInv DEF RegistrationOptions

LEMMA InvalidResponseInv ==
    ASSUME IInv, NEW p \in Req, NEW c \in Challenge, InvalidResponse(p, c)
    PROVE  IInv'
  <1>1. c \in Token /\ c \notin Recovery
    BY AdminAccessAssumption DEF Token
  <1>2. \A q \in Req : c \notin req[q].locks
    <2>1. req[p].locks = {}
      BY DEF InvalidResponse, Idle
    <2> QED
      BY <2>1 DEF InvalidResponse, Free
  <1> QED
    BY <1>1, <1>2, TokenInv DEF InvalidResponse

LEMMA ExpireInv ==
    ASSUME IInv, NEW t \in Token, Expire(t)
    PROVE  IInv'
  BY TokenInv DEF Expire

LEMMA LogoutInv ==
    ASSUME IInv, NEW s \in Session, Logout(s)
    PROVE  IInv'
  <1>1. TypeOK /\ s \in Live /\ sess[s] \in Entry
    BY LiveExists DEF IInv, Logout
  <1>2. /\ UNCHANGED <<ready, locked, passkey, token, req>>
        /\ sess' = [sess EXCEPT ![s].state = "revoked"]
    BY DEF Logout
  <1>3. [sess[s] EXCEPT !.state = "revoked"] \in Entry
    BY <1>1 DEF Entry
  <1>4. /\ sess'[s] = [sess[s] EXCEPT !.state = "revoked"]
        /\ \A t \in Session \ {s} : sess'[t] = sess[t]
    BY <1>1, <1>2 DEF TypeOK
  <1>5. /\ sess'[s].state = "revoked" /\ sess'[s].token = sess[s].token
        /\ sess'[s] # NoEntry
    BY <1>1, <1>3, <1>4, EntryFields DEF Entry
  <1>6. TypeOK'
    BY <1>1, <1>2, <1>3 DEF TypeOK
  <1>7. Live' = Live \ {s}
    BY <1>4, <1>5 DEF Live
  <1>8. \A t \in Live' : t \in Live /\ sess'[t] = sess[t]
    BY <1>4, <1>7 DEF Live
  <1>9. ASSUME NEW q \in Req PROVE Work(q)'
    <2>1. Work(q)
      BY DEF IInv
    <2>2. \A t \in Session : sess[t] # NoEntry => sess'[t] # NoEntry
      BY <1>4, <1>5
    <2>3. \A t \in Token : Fresh(t) => Fresh(t)'
      BY <1>2 DEF Fresh
    <2> QED
      BY <1>1, <1>2, <1>8, <2>1, <2>2, <2>3, Undisturbed
  <1>10. SpentTokens'
    BY <1>1, <1>2, <1>4, <1>5, EntryFields DEF IInv, SpentTokens
  <1>11. TokenOpensOneSession'
    <2>1. \A t \in Session : /\ sess'[t].token = sess[t].token
                             /\ sess'[t] # NoEntry => sess[t] # NoEntry
      BY <1>1, <1>4, <1>5, EntryFields
    <2> QED
      BY <2>1 DEF IInv, TokenOpensOneSession
  <1>12. Open' = Open
    BY <1>2 DEF Open
  <1> QED
    BY <1>2, <1>6, <1>8, <1>9, <1>10, <1>11, <1>12
    DEF IInv, Apart, RevokedPasskeyHasNoLiveSession, OneOpenRecovery, OneLoginPerDevice

-----------------------------------------------------------------------------
(* The steps that commit a request.                                        *)

\* The end of a request.
LEMMA EndInv ==
    ASSUME IInv, NEW p \in Req, End(p)
    PROVE  /\ req' \in [Req -> Request] /\ req'[p] = Idle
           /\ \A q \in Req \ {p} : req'[q] = req[q]
           /\ Work(p)' /\ Apart'
  <1>1. Idle \in Request
    BY AdminAccessAssumption DEF Idle, Request
  <1>2. /\ req' \in [Req -> Request] /\ req'[p] = Idle
        /\ \A q \in Req \ {p} : req'[q] = req[q]
    BY <1>1 DEF End, IInv, TypeOK
  <1>3. Apart'
    BY <1>2 DEF IInv, Apart, Idle
  <1>4. Work(p)'
    <2>1. /\ req'[p].op = "none" /\ req'[p].step = "idle"
          /\ req'[p].locks = {} /\ req'[p].ends = {}
      BY <1>2 DEF Idle
    <2> QED
      BY <2>1, CommandNames
      DEF Work, Stage, Noted, LoginWork, RegisterWork, RevokeWork, CommandWork, WorkCovers
  <1> QED
    BY <1>2, <1>3, <1>4

\* The revocation of the noted sessions changes their state alone.
LEMMA EndedFields ==
    ASSUME TypeOK, NEW p \in Req, Noted(p), NEW s \in Session
    PROVE  /\ Ended(p)[s] \in Entry \cup {NoEntry}
           /\ Ended(p)[s] = NoEntry <=> sess[s] = NoEntry
           /\ Ended(p)[s].key = sess[s].key /\ Ended(p)[s].token = sess[s].token
           /\ Ended(p)[s].dev = sess[s].dev
           /\ Ended(p)[s].state = "live" <=> s \in Live \ req[p].ends
  <1>1. CASE s \in req[p].ends
    <2>1. sess[s] \in Entry
      BY <1>1, EntryFields DEF TypeOK, Noted
    <2>2. Ended(p)[s] = [sess[s] EXCEPT !.state = "revoked"]
      BY <1>1 DEF Ended
    <2>3. Ended(p)[s] \in Entry
      BY <2>1, <2>2 DEF Entry
    <2>4. /\ Ended(p)[s].key = sess[s].key /\ Ended(p)[s].token = sess[s].token
          /\ Ended(p)[s].dev = sess[s].dev /\ Ended(p)[s].state = "revoked"
      BY <2>1, <2>2 DEF Entry
    <2> QED
      BY <1>1, <2>1, <2>3, <2>4, EntryFields
  <1>2. CASE s \notin req[p].ends
    <2>1. Ended(p)[s] = sess[s]
      BY <1>2 DEF Ended
    <2> QED
      BY <1>2, <2>1 DEF TypeOK, Live
  <1> QED
    BY <1>1, <1>2

\* A new session takes a free entry.
LEMMA WithNewFields ==
    ASSUME TypeOK, NEW p \in Req, Noted(p), NEW n \in Session, sess[n] = NoEntry,
           NEW key \in Passkey \cup {NoKey}, NEW dev \in Device, req[p].token \in Token,
           sess' = WithNew(p, n, key, dev)
    PROVE  /\ sess' \in [Session -> Entry \cup {NoEntry}]
           /\ sess'[n] \in Entry /\ sess'[n] # NoEntry
           /\ sess'[n].key = key /\ sess'[n].token = req[p].token /\ sess'[n].dev = dev
           /\ \A s \in Session \ {n} :
                 /\ sess'[s] = NoEntry <=> sess[s] = NoEntry
                 /\ sess'[s].key = sess[s].key /\ sess'[s].token = sess[s].token
                 /\ sess'[s].dev = sess[s].dev
           /\ Live' = (Live \ req[p].ends) \cup {n}
  <1> DEFINE e == [state |-> "live", key |-> key, token |-> req[p].token, dev |-> dev]
  <1>1. e \in Entry
    BY DEF Entry
  <1>2. sess' = [Ended(p) EXCEPT ![n] = e] /\ DOMAIN Ended(p) = Session
    BY DEF WithNew, Ended
  <1>3. sess'[n] = e /\ \A s \in Session \ {n} : sess'[s] = Ended(p)[s]
    BY <1>2
  <1>4. \A s \in Session : sess'[s] \in Entry \cup {NoEntry}
    BY <1>1, <1>3, EndedFields
  <1>5. sess' \in [Session -> Entry \cup {NoEntry}]
    BY <1>2, <1>4
  <1>6. \A s \in Session \ {n} : s \in Live' <=> s \in Live \ req[p].ends
    BY <1>3, EndedFields DEF Live
  <1>7. n \in Live'
    BY <1>3 DEF Live
  <1>8. Live' = (Live \ req[p].ends) \cup {n}
    BY <1>6, <1>7 DEF Live
  <1>9. sess'[n] # NoEntry
    BY <1>1, <1>3, EntryFields
  <1>10. sess'[n].key = key /\ sess'[n].token = req[p].token /\ sess'[n].dev = dev
    BY <1>3
  <1>11. \A s \in Session \ {n} :
            /\ sess'[s] = NoEntry <=> sess[s] = NoEntry
            /\ sess'[s].key = sess[s].key /\ sess'[s].token = sess[s].token
            /\ sess'[s].dev = sess[s].dev
    BY <1>3, EndedFields
  <1> QED
    BY <1>1, <1>3, <1>5, <1>8, <1>9, <1>10, <1>11

\* The token of a request that opens a session was spent by no other.
LEMMA NewSessionToken ==
    ASSUME IInv, NEW p \in Req, NEW n \in Session, sess[n] = NoEntry,
           req[p].token \in Token, Fresh(req[p].token),
           NEW key \in Passkey \cup {NoKey}, NEW dev \in Device,
           sess' = WithNew(p, n, key, dev),
           token' = [token EXCEPT ![req[p].token] = "used"]
    PROVE  SpentTokens' /\ TokenOpensOneSession'
  <1>1. TypeOK /\ Noted(p) /\ SpentTokens /\ TokenOpensOneSession
    BY DEF IInv, Work
  <1>2. /\ sess'[n] # NoEntry /\ sess'[n].token = req[p].token
        /\ \A s \in Session \ {n} : /\ sess'[s] = NoEntry <=> sess[s] = NoEntry
                                    /\ sess'[s].token = sess[s].token
    BY <1>1, WithNewFields
  <1>3. /\ token'[req[p].token] = "used"
        /\ \A t \in Token \ {req[p].token} : token'[t] = token[t]
    BY <1>1 DEF TypeOK
  <1>4. \A s \in Session : sess[s] # NoEntry => sess[s].token \in Token
    BY <1>1, EntryFields DEF TypeOK
  <1>5. \A s \in Session : sess[s] # NoEntry => sess[s].token # req[p].token
    BY <1>1 DEF SpentTokens, Fresh
  <1>6. \A s \in Session : sess[s] = NoEntry => sess[s].token \notin Token
    BY AdminAccessAssumption DEF NoEntry
  <1>7. SpentTokens'
    BY <1>1, <1>2, <1>3, <1>4 DEF SpentTokens
  <1>8. TokenOpensOneSession'
    <2>1. ASSUME NEW s \in Session, NEW t \in Session,
                 sess'[s].token = sess'[t].token, sess'[s] # NoEntry
          PROVE  s = t
      <3>1. CASE s = n /\ t # n
        BY <2>1, <3>1, <1>2, <1>5, <1>6
      <3>2. CASE s # n /\ t = n
        BY <2>1, <3>2, <1>2, <1>5
      <3>3. CASE s # n /\ t # n
        BY <2>1, <3>3, <1>1, <1>2 DEF TokenOpensOneSession
      <3> QED
        BY <3>1, <3>2, <3>3
    <2> QED
      BY <2>1 DEF TokenOpensOneSession
  <1> QED
    BY <1>7, <1>8

\* A token that a request holds and uses up is none of another request.
LEMMA UsedToken ==
    ASSUME IInv, NEW p \in Req, req[p].token \in Token \cap req[p].locks,
           Fresh(req[p].token), token' = [token EXCEPT ![req[p].token] = "used"]
    PROVE  /\ token' \in [Token -> TokenStatus]
           /\ Open' \subseteq Open
           /\ \A q \in Req \ {p} : \A t \in Token \cap req[q].locks : Fresh(t) => Fresh(t)'
           /\ \A t \in Recovery : /\ token[t] = "none" => token'[t] = "none"
                                  /\ token'[t] = "open" => token[t] = "open"
  <1>1. token \in [Token -> TokenStatus]
    BY DEF IInv, TypeOK
  <1>2. /\ token'[req[p].token] = "used"
        /\ \A t \in Token \ {req[p].token} : token'[t] = token[t]
    BY <1>1
  <1>3. token' \in [Token -> TokenStatus]
    BY <1>1 DEF TokenStatus
  <1>4. \A t \in Recovery : /\ token[t] = "none" => token'[t] = "none"
                            /\ token'[t] = "open" => token[t] = "open"
    BY <1>2 DEF Fresh, Token
  <1>5. Open' \subseteq Open
    BY <1>4 DEF Open
  <1>6. \A q \in Req \ {p} : req[p].token \notin req[q].locks
    BY DEF IInv, Apart
  <1>7. \A q \in Req \ {p} : \A t \in Token \cap req[q].locks : Fresh(t) => Fresh(t)'
    BY <1>2, <1>6 DEF Fresh
  <1> QED
    BY <1>3, <1>4, <1>5, <1>7

LEMMA LoginCommitInv ==
    ASSUME IInv, NEW p \in Req, NEW n \in Session, LoginCommit(p, n)
    PROVE  IInv'
  <1> DEFINE r == req[p]
  <1>1. /\ TypeOK /\ Noted(p) /\ r \in Request
        /\ r.dev \in Device \cap r.locks
        /\ r.token \in Token \cap r.locks /\ Fresh(r.token)
        /\ r.key \in Passkey \cup {NoKey}
        /\ r.key \in Passkey => r.key \in r.locks /\ passkey[r.key] = "active"
    BY AdminAccessAssumption DEF IInv, TypeOK, LoginCommit, Work, LoginWork
  <1>2. \A s \in Live : sess[s].dev = r.dev /\ sess[s].token \notin Registration
                         => s \in r.ends
    BY DEF IInv, LoginCommit, Work, LoginWork
  <1>3. /\ sess[n] = NoEntry /\ sess' = WithNew(p, n, r.key, r.dev)
        /\ token' = [token EXCEPT ![r.token] = "used"]
        /\ End(p) /\ UNCHANGED <<ready, locked, passkey>>
    BY DEF LoginCommit
  <1>4. /\ sess' \in [Session -> Entry \cup {NoEntry}]
        /\ sess'[n] # NoEntry
        /\ sess'[n].key = r.key /\ sess'[n].token = r.token /\ sess'[n].dev = r.dev
        /\ \A s \in Session \ {n} :
              /\ sess'[s] = NoEntry <=> sess[s] = NoEntry
              /\ sess'[s].key = sess[s].key /\ sess'[s].token = sess[s].token
              /\ sess'[s].dev = sess[s].dev
        /\ Live' = (Live \ r.ends) \cup {n}
    <2>1. TypeOK /\ Noted(p) /\ sess[n] = NoEntry /\ r.key \in Passkey \cup {NoKey}
      BY <1>1, <1>3
    <2>2. r.dev \in Device /\ r.token \in Token /\ sess' = WithNew(p, n, r.key, r.dev)
      BY <1>1, <1>3
    <2> QED
      BY <2>1, <2>2, WithNewFields
  <1>5. SpentTokens' /\ TokenOpensOneSession'
    BY <1>1, <1>3, NewSessionToken
  <1>6. /\ token' \in [Token -> TokenStatus] /\ Open' \subseteq Open
        /\ \A q \in Req \ {p} : \A t \in Token \cap req[q].locks : Fresh(t) => Fresh(t)'
        /\ \A t \in Recovery : /\ token[t] = "none" => token'[t] = "none"
                               /\ token'[t] = "open" => token[t] = "open"
    BY <1>1, <1>3, UsedToken
  <1>7. /\ req' \in [Req -> Request] /\ \A q \in Req \ {p} : req'[q] = req[q]
        /\ Work(p)' /\ Apart'
    BY <1>3, EndInv
  <1>8. TypeOK'
    BY <1>1, <1>3, <1>4, <1>6, <1>7 DEF TypeOK
  <1>9. ASSUME NEW q \in Req, q # p PROVE Work(q)'
    <2>1. Work(q) /\ req'[q] = req[q] /\ req[q].locks \cap r.locks = {}
      BY <1>7, <1>9 DEF IInv, Apart
    <2>2. r.key \notin Passkey \cap req[q].locks /\ r.dev \notin req[q].locks
      BY <1>1, <2>1
    <2>3. \A s \in Live' \ {n} : s \in Live /\ s \in Session \ {n}
      BY <1>4 DEF Live
    <2>4. \A s \in Live' :
            \/ /\ s \in Live
               /\ sess'[s].key = sess[s].key /\ sess'[s].token = sess[s].token
               /\ sess'[s].dev = sess[s].dev
            \/ /\ sess'[s].key \notin Passkey \cap req[q].locks
               /\ sess'[s].dev \in req[q].locks => sess'[s].token \in Registration
      BY <1>4, <2>2, <2>3
    <2>5. \A s \in Session : sess[s] # NoEntry => sess'[s] # NoEntry
      BY <1>4
    <2>6. \A t \in Token \cap req[q].locks : Fresh(t) => Fresh(t)'
      BY <1>6, <1>9
    <2>7. \A k \in Passkey \cap req[q].locks : passkey'[k] = passkey[k]
      BY <1>3
    <2>8. \A t \in Recovery : /\ token[t] = "none" => token'[t] = "none"
                              /\ token'[t] = "open" => token[t] = "open"
      BY <1>6
    <2>9. TypeOK
      BY <1>1
    <2> QED
      BY <2>1, <2>4, <2>5, <2>6, <2>7, <2>8, <2>9, Undisturbed
  <1>10. \A q \in Req : Work(q)'
    BY <1>7, <1>9
  <1>11. RevokedPasskeyHasNoLiveSession'
    <2>1. \A s \in Live' \ {n} : s \in Live /\ sess'[s].key = sess[s].key
      BY <1>4 DEF Live
    <2>2. n \in Session /\ sess'[n].key # NoKey => passkey'[sess'[n].key] = "active"
      BY <1>1, <1>3, <1>4
    <2> QED
      BY <1>3, <2>1, <2>2 DEF IInv, RevokedPasskeyHasNoLiveSession
  <1>12. OneLoginPerDevice'
    <2>1. \A s \in Live' \ {n} :
             /\ s \in Live /\ s \notin r.ends
             /\ sess'[s].dev = sess[s].dev /\ sess'[s].token = sess[s].token
      BY <1>4 DEF Live
    <2>2. ASSUME NEW s \in Live', NEW t \in Live', sess'[s].dev = sess'[t].dev,
                 {sess'[s].token, sess'[t].token} \cap Registration = {}
          PROVE  s = t
      <3>1. CASE s # n /\ t # n
        BY <2>1, <2>2, <3>1 DEF IInv, OneLoginPerDevice
      <3>2. CASE s = n /\ t # n
        BY <1>2, <1>4, <2>1, <2>2, <3>2
      <3>3. CASE s # n /\ t = n
        BY <1>2, <1>4, <2>1, <2>2, <3>3
      <3> QED
        BY <3>1, <3>2, <3>3
    <2> QED
      BY <2>2 DEF OneLoginPerDevice
  <1>13. OneOpenRecovery'
    BY <1>6 DEF IInv, OneOpenRecovery
  <1> QED
    BY <1>5, <1>7, <1>8, <1>10, <1>11, <1>12, <1>13 DEF IInv

LEMMA RegisterCommitInv ==
    ASSUME IInv, NEW p \in Req, RegisterCommit(p)
    PROVE  IInv'
  <1> DEFINE r == req[p]
  <1>1. /\ TypeOK
        /\ r.token \in Token \cap r.locks /\ Fresh(r.token)
        /\ r.key \in Passkey \cap r.locks
    BY DEF IInv, RegisterCommit, Work, RegisterWork, Token, Challenge
  <1>2. /\ passkey' = [passkey EXCEPT ![r.key] = "active"]
        /\ token' = [token EXCEPT ![r.token] = "used"]
        /\ End(p) /\ UNCHANGED <<ready, locked, sess>>
    BY DEF RegisterCommit
  <1>3. /\ passkey' \in [Passkey -> KeyStatus] /\ passkey'[r.key] = "active"
        /\ \A k \in Passkey \ {r.key} : passkey'[k] = passkey[k]
    BY <1>1, <1>2 DEF TypeOK, KeyStatus
  <1>4. /\ token' \in [Token -> TokenStatus] /\ Open' \subseteq Open
        /\ \A q \in Req \ {p} : \A t \in Token \cap req[q].locks : Fresh(t) => Fresh(t)'
        /\ \A t \in Recovery : /\ token[t] = "none" => token'[t] = "none"
                               /\ token'[t] = "open" => token[t] = "open"
    BY <1>1, <1>2, UsedToken
  <1>5. /\ req' \in [Req -> Request] /\ \A q \in Req \ {p} : req'[q] = req[q]
        /\ Work(p)' /\ Apart'
    BY <1>2, EndInv
  <1>6. TypeOK'
    BY <1>1, <1>2, <1>3, <1>4, <1>5 DEF TypeOK
  <1>7. Live' = Live
    BY <1>2 DEF Live
  <1>8. ASSUME NEW q \in Req, q # p PROVE Work(q)'
    <2>1. Work(q) /\ req'[q] = req[q] /\ req[q].locks \cap r.locks = {}
      BY <1>5, <1>8 DEF IInv, Apart
    <2>2. \A k \in Passkey \cap req[q].locks : passkey'[k] = passkey[k]
      BY <1>1, <1>3, <2>1
    <2>3. \A t \in Token \cap req[q].locks : Fresh(t) => Fresh(t)'
      BY <1>4, <1>8
    <2>4. \A s \in Live' : s \in Live /\ sess'[s] = sess[s]
      BY <1>2, <1>7
    <2>5. \A t \in Recovery : /\ token[t] = "none" => token'[t] = "none"
                              /\ token'[t] = "open" => token[t] = "open"
      BY <1>4
    <2>6. TypeOK /\ sess' = sess
      BY <1>1, <1>2
    <2> QED
      BY <2>1, <2>2, <2>3, <2>4, <2>5, <2>6, Undisturbed
  <1>9. \A q \in Req : Work(q)'
    BY <1>5, <1>8
  <1>10. RevokedPasskeyHasNoLiveSession'
    <2>1. \A s \in Live : sess[s].key \in Passkey \cup {NoKey}
      BY <1>1, LiveExists, EntryFields
    <2> QED
      BY <1>2, <1>3, <1>7, <2>1 DEF IInv, RevokedPasskeyHasNoLiveSession
  <1>11. SpentTokens'
    <2>1. \A s \in Session : sess[s] # NoEntry => sess[s].token \in Token
      BY <1>1, EntryFields DEF TypeOK
    <2> QED
      BY <1>1, <1>2, <2>1 DEF IInv, TypeOK, SpentTokens
  <1>12. TokenOpensOneSession' /\ OneLoginPerDevice' /\ OneOpenRecovery'
    BY <1>2, <1>4, <1>7 DEF IInv, TokenOpensOneSession, OneLoginPerDevice, OneOpenRecovery
  <1> QED
    BY <1>5, <1>6, <1>9, <1>10, <1>11, <1>12 DEF IInv

LEMMA RecoveryCommitInv ==
    ASSUME IInv, NEW p \in Req, NEW n \in Session, RecoveryCommit(p, n)
    PROVE  IInv'
  <1> DEFINE r == req[p]
  <1>1. /\ TypeOK /\ Noted(p) /\ r.sess \in Session /\ sess[r.sess] # NoEntry
        /\ r.token \in Registration /\ r.token \in Token \cap r.locks /\ Fresh(r.token)
        /\ r.key \in Passkey \cap r.locks
    BY DEF IInv, RecoveryCommit, Work, RegisterWork, Token, Challenge
  <1>2. PICK dev \in Device : dev = sess[r.sess].dev
    BY <1>1, EntryFields DEF TypeOK
  <1>3. /\ sess[n] = NoEntry /\ sess' = WithNew(p, n, r.key, dev)
        /\ token' = [token EXCEPT ![r.token] = "used"]
        /\ passkey' = [passkey EXCEPT ![r.key] = "active"]
        /\ End(p) /\ locked' = FALSE /\ ready' = ready
    BY <1>2 DEF RecoveryCommit
  <1>4. /\ sess' \in [Session -> Entry \cup {NoEntry}]
        /\ sess'[n] # NoEntry
        /\ sess'[n].key = r.key /\ sess'[n].token = r.token /\ sess'[n].dev = dev
        /\ \A s \in Session \ {n} :
              /\ sess'[s] = NoEntry <=> sess[s] = NoEntry
              /\ sess'[s].key = sess[s].key /\ sess'[s].token = sess[s].token
              /\ sess'[s].dev = sess[s].dev
        /\ Live' = (Live \ r.ends) \cup {n}
    <2>1. TypeOK /\ Noted(p) /\ sess[n] = NoEntry /\ r.key \in Passkey \cup {NoKey}
      BY <1>1, <1>3
    <2>2. r.token \in Token /\ sess' = WithNew(p, n, r.key, dev)
      BY <1>1, <1>3
    <2> QED
      BY <2>1, <2>2, WithNewFields
  <1>5. SpentTokens' /\ TokenOpensOneSession'
    BY <1>1, <1>2, <1>3, NewSessionToken
  <1>6. /\ passkey' \in [Passkey -> KeyStatus] /\ passkey'[r.key] = "active"
        /\ \A k \in Passkey \ {r.key} : passkey'[k] = passkey[k]
    BY <1>1, <1>3 DEF TypeOK, KeyStatus
  <1>7. /\ token' \in [Token -> TokenStatus] /\ Open' \subseteq Open
        /\ \A q \in Req \ {p} : \A t \in Token \cap req[q].locks : Fresh(t) => Fresh(t)'
        /\ \A t \in Recovery : /\ token[t] = "none" => token'[t] = "none"
                               /\ token'[t] = "open" => token[t] = "open"
    BY <1>1, <1>3, UsedToken
  <1>8. /\ req' \in [Req -> Request] /\ \A q \in Req \ {p} : req'[q] = req[q]
        /\ Work(p)' /\ Apart'
    BY <1>3, EndInv
  <1>9. TypeOK'
    BY <1>1, <1>3, <1>4, <1>6, <1>7, <1>8 DEF TypeOK
  <1>10. \A s \in Live' \ {n} :
            /\ s \in Live /\ s \in Session \ {n}
            /\ sess'[s].key = sess[s].key /\ sess'[s].token = sess[s].token
            /\ sess'[s].dev = sess[s].dev
    BY <1>4 DEF Live
  <1>11. ASSUME NEW q \in Req, q # p PROVE Work(q)'
    <2>1. Work(q) /\ req'[q] = req[q] /\ req[q].locks \cap r.locks = {}
      BY <1>8, <1>11 DEF IInv, Apart
    <2>2. \A k \in Passkey \cap req[q].locks : passkey'[k] = passkey[k]
      BY <1>1, <1>6, <2>1
    <2>3. \A s \in Live' :
            \/ /\ s \in Live
               /\ sess'[s].key = sess[s].key /\ sess'[s].token = sess[s].token
               /\ sess'[s].dev = sess[s].dev
            \/ /\ sess'[s].key \notin Passkey \cap req[q].locks
               /\ sess'[s].dev \in req[q].locks => sess'[s].token \in Registration
      BY <1>1, <1>4, <1>10, <2>1
    <2>4. \A s \in Session : sess[s] # NoEntry => sess'[s] # NoEntry
      BY <1>4
    <2>5. \A t \in Token \cap req[q].locks : Fresh(t) => Fresh(t)'
      BY <1>7, <1>11
    <2>6. \A t \in Recovery : /\ token[t] = "none" => token'[t] = "none"
                              /\ token'[t] = "open" => token[t] = "open"
      BY <1>7
    <2>7. TypeOK
      BY <1>1
    <2> QED
      BY <2>1, <2>2, <2>3, <2>4, <2>5, <2>6, <2>7, Undisturbed
  <1>12. \A q \in Req : Work(q)'
    BY <1>8, <1>11
  <1>13. RevokedPasskeyHasNoLiveSession'
    <2>1. passkey'[sess'[n].key] = "active"
      BY <1>4, <1>6
    <2>2. \A s \in Live : sess[s].key \in Passkey \cup {NoKey}
      BY <1>1, LiveExists, EntryFields
    <2>3. ASSUME NEW s \in Live' \ {n}, sess'[s].key # NoKey
          PROVE  passkey'[sess'[s].key] = "active"
      <3>1. s \in Live /\ sess'[s].key = sess[s].key
        BY <1>10
      <3>2. passkey[sess[s].key] = "active" /\ sess[s].key \in Passkey
        BY <2>2, <2>3, <3>1 DEF IInv, RevokedPasskeyHasNoLiveSession
      <3> QED
        BY <1>6, <3>1, <3>2
    <2> QED
      BY <2>1, <2>3 DEF RevokedPasskeyHasNoLiveSession
  <1>14. OneLoginPerDevice'
    <2>1. sess'[n].token \in Registration
      BY <1>1, <1>4
    <2>2. ASSUME NEW s \in Live', NEW t \in Live', sess'[s].dev = sess'[t].dev,
                 {sess'[s].token, sess'[t].token} \cap Registration = {}
          PROVE  s = t
      <3>1. s # n /\ t # n
        BY <2>1, <2>2
      <3> QED
        BY <1>10, <2>2, <3>1 DEF IInv, OneLoginPerDevice
    <2> QED
      BY <2>2 DEF OneLoginPerDevice
  <1>15. OneOpenRecovery'
    BY <1>7 DEF IInv, OneOpenRecovery
  <1> QED
    BY <1>5, <1>8, <1>9, <1>12, <1>13, <1>14, <1>15 DEF IInv

\* A commit that revokes sessions and passkeys and opens no session.
LEMMA RevokingInv ==
    ASSUME IInv, NEW p \in Req, End(p), sess' = Ended(p), TypeOK',
           \A k \in Passkey : \/ passkey'[k] = passkey[k]
                              \/ /\ k \in req[p].locks
                                 /\ \A s \in Live : sess[s].key = k => s \in req[p].ends,
           \A q \in Req \ {p} : \A t \in Token \cap req[q].locks : Fresh(t) => Fresh(t)',
           \A q \in Req \ {p} : req[q].op \in Commands =>
               \A t \in Recovery : /\ token[t] = "none" => token'[t] = "none"
                                   /\ token'[t] = "open" => token[t] = "open",
           \A t \in Token :
               token[t] \in {"used", "revoked"} => token'[t] \in {"used", "revoked"},
           OneOpenRecovery'
    PROVE  IInv'
  <1>1. TypeOK /\ Noted(p)
    BY DEF IInv, Work
  <1>2. \A s \in Session :
           /\ sess'[s] = NoEntry <=> sess[s] = NoEntry
           /\ sess'[s].key = sess[s].key /\ sess'[s].token = sess[s].token
           /\ sess'[s].dev = sess[s].dev
           /\ sess'[s].state = "live" <=> s \in Live \ req[p].ends
    BY <1>1, EndedFields
  <1>3. Live' = Live \ req[p].ends
    BY <1>2 DEF Live
  <1>4. \A s \in Live' :
           /\ s \in Live /\ s \in Session
           /\ sess'[s].key = sess[s].key /\ sess'[s].token = sess[s].token
           /\ sess'[s].dev = sess[s].dev
    BY <1>2, <1>3 DEF Live
  <1>5. /\ \A q \in Req \ {p} : req'[q] = req[q]
        /\ Work(p)' /\ Apart'
    BY EndInv
  <1>6. ASSUME NEW q \in Req, q # p PROVE Work(q)'
    <2>1. Work(q) /\ req'[q] = req[q] /\ req[q].locks \cap req[p].locks = {}
      BY <1>5, <1>6 DEF IInv, Apart
    <2>2. \A k \in Passkey \cap req[q].locks : passkey'[k] = passkey[k]
      BY <2>1
    <2>3. \A t \in Token \cap req[q].locks : Fresh(t) => Fresh(t)'
      BY <1>6
    <2>4. req[q].op \in Commands =>
            \A t \in Recovery : /\ token[t] = "none" => token'[t] = "none"
                                /\ token'[t] = "open" => token[t] = "open"
      BY <1>6
    <2>5. \A s \in Session : sess[s] # NoEntry => sess'[s] # NoEntry
      BY <1>2
    <2> QED
      BY <1>1, <1>4, <2>1, <2>2, <2>3, <2>4, <2>5, Undisturbed
  <1>7. \A q \in Req : Work(q)'
    BY <1>5, <1>6
  <1>8. RevokedPasskeyHasNoLiveSession'
    <2>1. \A s \in Live : sess[s].key \in Passkey \cup {NoKey}
      BY <1>1, LiveExists, EntryFields
    <2> QED
      BY <1>3, <1>4, <2>1 DEF IInv, RevokedPasskeyHasNoLiveSession
  <1>9. SpentTokens'
    <2>1. \A s \in Session : sess[s] # NoEntry => sess[s].token \in Token
      BY <1>1, EntryFields DEF TypeOK
    <2> QED
      BY <1>2, <2>1 DEF IInv, SpentTokens
  <1>10. TokenOpensOneSession'
    BY <1>2 DEF IInv, TokenOpensOneSession
  <1>11. OneLoginPerDevice'
    BY <1>4 DEF IInv, OneLoginPerDevice
  <1> QED
    BY <1>5, <1>7, <1>8, <1>9, <1>10, <1>11 DEF IInv

LEMMA RevokeCommitInv ==
    ASSUME IInv, NEW p \in Req, RevokeCommit(p)
    PROVE  IInv'
  <1>1. TypeOK /\ Noted(p) /\ req[p].key \in Passkey \cap req[p].locks
    BY DEF IInv, RevokeCommit, Work, RevokeWork
  <1>2. \A s \in Live : sess[s].key = req[p].key => s \in req[p].ends
    BY <1>1 DEF IInv, RevokeCommit, Work, WorkCovers
  <1>3. /\ passkey' = [passkey EXCEPT ![req[p].key] = "revoked"]
        /\ sess' = Ended(p) /\ End(p) /\ UNCHANGED <<ready, locked, token>>
    BY DEF RevokeCommit
  <1>4. /\ passkey' \in [Passkey -> KeyStatus]
        /\ \A k \in Passkey \ {req[p].key} : passkey'[k] = passkey[k]
    BY <1>1, <1>3 DEF TypeOK, KeyStatus
  <1>5. sess' \in [Session -> Entry \cup {NoEntry}]
    <2>1. \A s \in Session : Ended(p)[s] \in Entry \cup {NoEntry}
      BY <1>1, EndedFields
    <2> QED
      BY <1>3, <2>1 DEF Ended
  <1>6. TypeOK'
    BY <1>1, <1>3, <1>4, <1>5, EndInv DEF TypeOK
  <1>7. \A k \in Passkey : \/ passkey'[k] = passkey[k]
                           \/ /\ k \in req[p].locks
                              /\ \A s \in Live : sess[s].key = k => s \in req[p].ends
    BY <1>1, <1>2, <1>4
  <1>8. Open' = Open /\ \A t \in Token : Fresh(t)' = Fresh(t)
    BY <1>3 DEF Open, Fresh
  <1>9. OneOpenRecovery'
    BY <1>8 DEF IInv, OneOpenRecovery
  <1> QED
    BY <1>3, <1>6, <1>7, <1>8, <1>9, RevokingInv

\* A command that commits holds the site, so that no other command is open; the
\* credential it opens is the only one.
LEMMA CommandCommitInv ==
    ASSUME IInv, NEW p \in Req, CommandCommit(p)
    PROVE  IInv'
  <1> DEFINE r == req[p]
  <1>1. TypeOK /\ Noted(p) /\ r \in Request /\ r.op \in Commands /\ r.step = "commit"
    BY DEF IInv, TypeOK, CommandCommit, Work
  <1>2. /\ Site \in r.locks
        /\ r.token # NoToken =>
             r.token \in Recovery /\ token[r.token] = "none" /\ Open \subseteq r.locks
        /\ \A s \in Live : sess[s].key \in Passkey \cap r.locks => s \in r.ends
    BY <1>1 DEF IInv, Work, CommandWork, WorkCovers
  <1>3. /\ passkey' = [k \in Passkey |-> IF k \in r.locks THEN "revoked" ELSE passkey[k]]
        /\ token' = [t \in Token |-> IF t = r.token THEN "open"
                                     ELSE IF t \in r.locks THEN "revoked" ELSE token[t]]
        /\ sess' = Ended(p) /\ End(p)
        /\ ready' = TRUE
        /\ locked' = CASE r.op = "lock" -> TRUE
                       [] r.op = "unlock" -> FALSE
                       [] OTHER -> locked
    BY DEF CommandCommit
  <1>4. /\ passkey' \in [Passkey -> KeyStatus]
        /\ \A k \in Passkey : k \in r.locks \/ passkey'[k] = passkey[k]
    BY <1>1, <1>3 DEF TypeOK, KeyStatus
  <1>5. \A t \in Token : /\ t = r.token => token'[t] = "open"
                         /\ t # r.token /\ t \in r.locks => token'[t] = "revoked"
                         /\ t # r.token /\ t \notin r.locks => token'[t] = token[t]
    BY <1>3
  <1>6. token' \in [Token -> TokenStatus]
    <2>1. \A t \in Token : token'[t] \in TokenStatus
      BY <1>1, <1>5 DEF TypeOK, TokenStatus
    <2> QED
      BY <1>3, <2>1
  <1>7. sess' \in [Session -> Entry \cup {NoEntry}]
    <2>1. \A s \in Session : Ended(p)[s] \in Entry \cup {NoEntry}
      BY <1>1, EndedFields
    <2> QED
      BY <1>3, <2>1 DEF Ended
  <1>8. ready' \in BOOLEAN /\ locked' \in BOOLEAN
    BY <1>1, <1>3 DEF TypeOK
  <1>9. TypeOK'
    BY <1>3, <1>4, <1>6, <1>7, <1>8, EndInv DEF TypeOK
  <1>10. \A k \in Passkey : \/ passkey'[k] = passkey[k]
                            \/ /\ k \in r.locks
                               /\ \A s \in Live : sess[s].key = k => s \in r.ends
    BY <1>2, <1>4
  <1>11. ASSUME NEW q \in Req, q # p PROVE req[q].locks \cap r.locks = {}
    BY <1>11 DEF IInv, Apart
  <1>12. r.token \in Token => r.token \in Recovery /\ token[r.token] = "none"
    BY <1>2, AdminAccessAssumption
  <1>13. ASSUME NEW q \in Req, q # p, NEW t \in Token \cap req[q].locks, Fresh(t)
         PROVE  Fresh(t)'
    BY <1>5, <1>11, <1>12, <1>13 DEF Fresh
  <1>14. \A q \in Req \ {p} : req[q].op \notin Commands
    BY <1>2, <1>11 DEF IInv, Work, CommandWork
  <1>15. \A t \in Token :
            token[t] \in {"used", "revoked"} => token'[t] \in {"used", "revoked"}
    BY <1>5, <1>12
  <1>16. OneOpenRecovery'
    <2>1. CASE r.token = NoToken
      <3>1. Open' \subseteq Open
        BY <1>5, <2>1, AdminAccessAssumption DEF Open, Token
      <3> QED
        BY <3>1 DEF IInv, OneOpenRecovery
    <2>2. CASE r.token # NoToken
      <3>1. Open' \subseteq {r.token}
        BY <1>2, <1>5, <2>2 DEF Open, Token
      <3> QED
        BY <3>1 DEF OneOpenRecovery
    <2> QED
      BY <2>1, <2>2
  <1> QED
    BY <1>3, <1>9, <1>10, <1>13, <1>14, <1>15, <1>16, RevokingInv

-----------------------------------------------------------------------------
(* The theorems.                                                           *)

LEMMA InitInv == Init => IInv
  <1> SUFFICES ASSUME Init PROVE IInv
    OBVIOUS
  <1>1. TypeOK
    <2>1. Idle \in Request
      BY AdminAccessAssumption DEF Idle, Request
    <2> QED
      BY <2>1 DEF Init, TypeOK, KeyStatus, TokenStatus
  <1>2. Live = {} /\ Open = {}
    BY DEF Init, Live, Open, NoEntry, Token
  <1>3. \A p \in Req : Work(p)
    BY IdleWork DEF Init
  <1>4. Apart
    BY DEF Init, Apart, Idle
  <1>5. SpentTokens /\ TokenOpensOneSession
    BY DEF Init, SpentTokens, TokenOpensOneSession
  <1> QED
    BY <1>1, <1>2, <1>3, <1>4, <1>5
    DEF IInv, RevokedPasskeyHasNoLiveSession, OneOpenRecovery, OneLoginPerDevice

\* A request that is rolled back has written nothing.
LEMMA RollbackInv ==
    ASSUME IInv, NEW p \in Req, Rollback(p)
    PROVE  IInv'
  <1>1. End(p) /\ UNCHANGED <<ready, locked, passkey, token, sess>>
    BY DEF Rollback
  <1>2. Idle \in Request /\ req' = [req EXCEPT ![p] = Idle]
    BY <1>1, AdminAccessAssumption DEF End, Idle, Request
  <1>3. Free(p, Idle.locks \ req[p].locks)
    BY DEF Free, Idle
  <1> QED
    BY <1>1, <1>2, <1>3, EndInv, MoveInv

LEMMA NextInv == IInv /\ [Next]_vars => IInv'
  <1> SUFFICES ASSUME IInv, [Next]_vars PROVE IInv'
    OBVIOUS
  <1>1. CASE \E c \in Authentication : AuthenticationOptions(c)
    BY <1>1, AuthenticationOptionsInv
  <1>2. CASE \E s \in Session, c \in Registration : RegistrationOptions(s, c)
    BY <1>2, RegistrationOptionsInv
  <1>3. CASE \E p \in Req, c \in Challenge : InvalidResponse(p, c)
    BY <1>3, InvalidResponseInv
  <1>4. CASE \E t \in Token : Expire(t)
    BY <1>4, ExpireInv
  <1>5. CASE \E s \in Session : Logout(s)
    BY <1>5, LogoutInv
  <1>6. ASSUME NEW p \in Req, Login(p) PROVE IInv'
    BY <1>6, LoginCheckInv, RecoveryCheckInv, TakeDeviceInv, LoginCommitInv DEF Login
  <1>7. ASSUME NEW p \in Req, Register(p) PROVE IInv'
    BY <1>7, RegisterCheckInv, RegisterPasskeyInv, TakeSiteInv, RegisterCommitInv,
       RecoveryCommitInv DEF Register
  <1>8. ASSUME NEW p \in Req, Revoke(p) PROVE IInv'
    BY <1>8, RevokeCheckInv, RevokeFlushInv, RevokeCommitInv DEF Revoke
  <1>9. ASSUME NEW p \in Req, Operate(p) PROVE IInv'
    BY <1>9, CommandInv, ResetKeysInv, RevokeSessionsInv, IssueRecoveryInv,
       CommandCommitInv DEF Operate
  <1>10. ASSUME NEW p \in Req, Rollback(p) PROVE IInv'
    BY <1>10, RollbackInv
  <1>11. CASE UNCHANGED vars
    <2>1. Live' = Live /\ Open' = Open
      BY <1>11 DEF vars, Live, Open
    <2>2. \A p \in Req : Work(p) => Work(p)'
      BY <1>11, <2>1
      DEF vars, Work, Stage, Noted, LoginWork, RegisterWork, RevokeWork, CommandWork,
          WorkCovers, Fresh
    <2> QED
      BY <1>11, <2>1, <2>2
      DEF vars, IInv, TypeOK, Apart, SpentTokens, RevokedPasskeyHasNoLiveSession,
          TokenOpensOneSession, OneOpenRecovery, OneLoginPerDevice
  <1> QED
    BY <1>1, <1>2, <1>3, <1>4, <1>5, <1>6, <1>7, <1>8, <1>9, <1>10, <1>11 DEF Next

\* The invariant holds in every state of every behaviour: requests take the
\* locks of what they check before they rely on it.
THEOREM Invariance == Spec => []IInv
  BY InitInv, NextInv, PTL DEF Spec

\* Every row, session and request has its type.
THEOREM TypeCorrect == Spec => []TypeOK
  <1>1. IInv => TypeOK
    BY DEF IInv
  <1> QED
    BY <1>1, Invariance, PTL

\* Once a passkey is revoked, by the administrator or by a reset, no session of
\* it is live, and no login that checked it earlier opens one: revoke_passkey and
\* reset_credentials write the passkey before they read its sessions.
THEOREM RevocationEndsSessions == Spec => []RevokedPasskeyHasNoLiveSession
  <1>1. IInv => RevokedPasskeyHasNoLiveSession
    BY DEF IInv
  <1> QED
    BY <1>1, Invariance, PTL

\* A challenge or a recovery credential opens at most one session, however often
\* and however close together it is presented (_challenge, recovery_for_token_hash).
THEOREM TokensAreSpentOnce == Spec => []TokenOpensOneSession
  <1>1. IInv => TokenOpensOneSession
    BY DEF IInv
  <1> QED
    BY <1>1, Invariance, PTL

\* At most one recovery credential is open: the command that makes one revokes the
\* others, and only one command holds the site row (_issue_recovery).
THEOREM SingleOpenRecovery == Spec => []OneOpenRecovery
  <1>1. IInv => OneOpenRecovery
    BY DEF IInv
  <1> QED
    BY <1>1, Invariance, PTL

\* At most one live session of a device was opened by a login, with whatever
\* passkey or recovery credential (_admin_device, revoke_device_sessions).
THEOREM SingleLoginPerDevice == Spec => []OneLoginPerDevice
  <1>1. IInv => OneLoginPerDevice
    BY DEF IInv
  <1> QED
    BY <1>1, Invariance, PTL

-----------------------------------------------------------------------------
(* What the administrator does at the server, as a whole.                  *)

\* The rows of an edition that is a source, and of a translation of it.
LEMMA FirstRow ==
  ASSUME NEW b \in BookId, NEW e \in EditionId
  PROVE  /\ SourceOf(b) \in EditionRow /\ SourceOf(b) # Null
         /\ SourceOf(b).book = b /\ SourceOf(b).role = "source"
         /\ Relations(SourceOf(b)) = {} /\ SourceOf(b).source = Null
         /\ TranslationOf(b, e) \in EditionRow /\ TranslationOf(b, e) # Null
         /\ TranslationOf(b, e).book = b /\ TranslationOf(b, e).role = "translation"
         /\ Relations(TranslationOf(b, e)) = {e} /\ TranslationOf(b, e).source = e
  <1>1. SourceOf(b) \in EditionRow
    BY DEF SourceOf, EditionRow
  <1>2. TranslationOf(b, e) \in EditionRow
    BY DEF TranslationOf, SourceOf, EditionRow
  <1>3. /\ SourceOf(b).book = b /\ SourceOf(b).role = "source"
        /\ SourceOf(b).source = Null /\ SourceOf(b).supersedes = Null
    BY DEF SourceOf
  <1>4. /\ TranslationOf(b, e).book = b /\ TranslationOf(b, e).role = "translation"
        /\ TranslationOf(b, e).source = e /\ TranslationOf(b, e).supersedes = Null
    BY DEF TranslationOf, SourceOf
  <1>5. e # Null
    BY CatalogueAssumption
  <1>6. SourceOf(b) # Null /\ TranslationOf(b, e) # Null
    BY <1>1, <1>2, NullAssumption
  <1>7. Relations(SourceOf(b)) = {} /\ Relations(TranslationOf(b, e)) = {e}
    BY <1>3, <1>4, <1>5 DEF Relations
  <1> QED
    BY <1>1, <1>2, <1>3, <1>4, <1>6, <1>7

\* The first rows, with a second edition or without one.
Starts(second, opened, preferred, there) ==
    /\ second \in Seconds /\ opened \in {Null, edition1} /\ preferred \in {Null, edition1}
    /\ there = There(second)
    /\ FirstRows(second, opened, preferred, there)
    /\ handler = [h \in Handler |-> NoRequest] /\ overtaken = FALSE

LEMMA CatalogueStartIs ==
  ASSUME CatalogueStart
  PROVE  \E second, opened, preferred, there : Starts(second, opened, preferred, there)
  BY DEF CatalogueStart, Starts

\* What the first rows are, row by row.
LEMMA StartRows ==
  ASSUME NEW second, NEW opened, NEW preferred, NEW there,
         Starts(second, opened, preferred, there)
  PROVE  /\ \A b \in BookId : BookHere(b) <=> b = book1 \/ (b = book2 /\ book2 \in there)
         /\ books[book1] = [cover |-> 3] /\ books \in [BookId -> BookRow \cup {Null}]
         /\ \A b \in BookId : BookHere(b) => b = book1 \/ books[b].cover = Null
         /\ \A e : EditionHere(e) <=> e = edition1 \/ (e = edition2 /\ second # Null)
         /\ editions[edition1] = SourceOf(book1) /\ editions[edition2] = second
         /\ editions \in [EditionId -> EditionRow \cup {Null}]
         /\ there \subseteq issued /\ (second # Null => second.book \in there /\ edition2 \in there)
         /\ \A x \in there : second # Null
         /\ there \subseteq BookId \cup EditionId \cup SixFiles
  <1>0. /\ book1 \in BookId /\ book2 \in BookId /\ book1 # book2
        /\ edition1 \in EditionId /\ edition2 \in EditionId /\ edition1 # edition2
        /\ 3 \in SixFiles /\ 4 \in SixFiles /\ SixFiles \subseteq StoredId
    BY MCCatalogueAssumption DEF SixFiles
  <1>1. [cover |-> 3] \in BookRow /\ [cover |-> Null] \in BookRow
    BY <1>0 DEF BookRow
  <1>2. [cover |-> 3] # Null /\ [cover |-> Null] # Null
    BY <1>1, NullAssumption
  <1>3. \A b \in BookId : books[b] = CASE b = book1 -> [cover |-> 3]
                                        [] b = book2 /\ book2 \in there -> [cover |-> Null]
                                        [] OTHER -> Null
    BY DEF Starts, FirstRows, Seconds, There
  <1>4. /\ \A b \in BookId : BookHere(b) <=> b = book1 \/ (b = book2 /\ book2 \in there)
        /\ books[book1] = [cover |-> 3]
        /\ \A b \in BookId : books[b] = Null \/ books[b] = [cover |-> 3] \/ books[b] = [cover |-> Null]
        /\ \A b \in BookId : BookHere(b) => b = book1 \/ books[b] = [cover |-> Null]
    BY <1>0, <1>2, <1>3, Zenon DEF BookHere
  <1>5. books \in [BookId -> BookRow \cup {Null}]
    <2>1. \A b \in BookId : books[b] \in BookRow \cup {Null}
      BY <1>1, <1>4
    <2>2. books = [b \in BookId |-> books[b]]
      BY DEF Starts, FirstRows, Seconds, There
    <2> QED
      BY <2>1, <2>2
  <1>6. \A e \in EditionId : editions[e] = CASE e = edition1 -> SourceOf(book1)
                                              [] e = edition2 -> second
                                              [] OTHER -> Null
    BY DEF Starts, FirstRows, Seconds, There
  <1>7. SourceOf(book1) # Null /\ second \in EditionRow \cup {Null} /\ SourceOf(book1) \in EditionRow
    BY <1>0, FirstRow DEF Starts, FirstRows, Seconds, There
  <1>8. /\ \A e : EditionHere(e) <=> e = edition1 \/ (e = edition2 /\ second # Null)
        /\ editions[edition1] = SourceOf(book1) /\ editions[edition2] = second
        /\ \A e \in EditionId : editions[e] \in {SourceOf(book1), second, Null}
    BY <1>0, <1>6, <1>7, Zenon DEF EditionHere
  <1>9. editions \in [EditionId -> EditionRow \cup {Null}]
    <2>1. editions = [e \in EditionId |-> editions[e]]
      BY DEF Starts, FirstRows, Seconds, There
    <2> QED
      BY <1>7, <1>8, <2>1
  <1>10. second # Null => second.book \in BookId
    BY <1>0, FirstRow DEF Starts, FirstRows, Seconds, There
  <1>11. there = IF second = Null THEN {} ELSE {second.book, edition2, 4}
    BY DEF Starts, FirstRows, Seconds, There
  <1>12. there \subseteq issued
    BY DEF Starts, FirstRows, Seconds, There
  <1>13. /\ second # Null => second.book \in there /\ edition2 \in there
         /\ \A x \in there : second # Null
         /\ there \subseteq BookId \cup EditionId \cup SixFiles
    BY <1>0, <1>10, <1>11
  <1>14. \A b \in BookId : BookHere(b) => b = book1 \/ books[b].cover = Null
    BY <1>4
  <1> QED
    BY <1>4, <1>5, <1>8, <1>9, <1>12, <1>13, <1>14

\* The first rows are typed.
LEMMA StartTyped ==
  ASSUME NEW second, NEW opened, NEW preferred, NEW there,
         Starts(second, opened, preferred, there)
  PROVE  CatalogueTypeOK
  <1>0. /\ book1 \in BookId /\ edition1 \in EditionId /\ edition2 \in EditionId
        /\ \A n \in {1, 2, 3, 4} : n \in SixFiles
        /\ SixFiles \subseteq StoredId /\ 1 \in 1 .. MaxFileRevision
    BY MCCatalogueAssumption, CatalogueAssumption DEF SixFiles
  <1>1. edition_files \subseteq FileRow
    <2>1. [edition |-> edition1, revision |-> 1, source |-> 1, text |-> 2] \in FileRow
      BY <1>0 DEF FileRow
    <2>2. ASSUME NEW x \in there \cap SixFiles
          PROVE  [edition |-> edition2, revision |-> 1, source |-> x, text |-> Null] \in FileRow
      BY <1>0 DEF FileRow
    <2> QED
      BY <2>1, <2>2 DEF Starts, FirstRows, Seconds, There
  <1>2. preferences \in [Person \X BookId -> PreferenceRow \cup {Null}]
    <2>1. [preferred |-> preferred, opened |-> Null] \in PreferenceRow
          /\ [preferred |-> Null, opened |-> opened] \in PreferenceRow
      BY <1>0 DEF PreferenceRow, Starts
    <2>2. \A k \in Person \X BookId : preferences[k] \in PreferenceRow \cup {Null}
      <3>1. TAKE k \in Person \X BookId
      <3>2. preferences[k] =
              CASE k = <<Administrator, book1>> /\ preferred # Null ->
                     [preferred |-> preferred, opened |-> Null]
                [] k[1] # Administrator /\ k[2] = book1 /\ opened # Null ->
                     [preferred |-> Null, opened |-> opened]
                [] OTHER -> Null
        BY DEF Starts, FirstRows, Seconds, There
      <3>3. preferences[k] \in {[preferred |-> preferred, opened |-> Null],
                                [preferred |-> Null, opened |-> opened], Null}
        BY <3>2, Zenon
      <3> QED
        BY <3>3, <2>1
    <2>3. preferences = [k \in Person \X BookId |-> preferences[k]]
      BY DEF Starts, FirstRows, Seconds, There
    <2> QED
      BY <2>2, <2>3
  <1>3. issued \subseteq BookId \cup EditionId \cup StoredId
    <2>1. issued = {1, 2, 3, book1, edition1} \cup there
      BY DEF Starts, FirstRows
    <2>2. there \subseteq BookId \cup EditionId \cup SixFiles
      BY StartRows
    <2> QED
      BY <1>0, <2>1, <2>2
  <1>4. stored_files \subseteq StoredId /\ overtaken \in BOOLEAN
    BY <1>0 DEF Starts, FirstRows, Seconds, There
  <1>5. handler \in [Handler -> Handling]
    BY IdleIsTyped DEF Starts, FirstRows, Seconds, There
  <1> QED
    BY <1>1, <1>2, <1>3, <1>4, <1>5, StartRows DEF CatalogueTypeOK

\* The first rows agree with one another, as the rows of every later state do.
LEMMA StartHolds ==
  ASSUME NEW second, NEW opened, NEW preferred, NEW there,
         Starts(second, opened, preferred, there)
  PROVE  CatalogueInv
  <1>0. /\ book1 \in BookId /\ book2 \in BookId /\ edition1 \in EditionId /\ edition2 \in EditionId
        /\ edition1 # edition2 /\ edition1 # Null
    BY MCCatalogueAssumption, CatalogueAssumption
  <1>1. \A h \in Handler : handler[h].op = "idle"
    BY DEF Starts, FirstRows, Seconds, There, NoRequest
  <1>2. LocksAreExclusive /\ \A h \in Handler : ReadStands(handler[h])
    BY <1>1 DEF LocksAreExclusive, Locked, ReadStands
  <1>3. RowsAreIssued
    <2>1. book1 \in issued /\ edition1 \in issued
      BY DEF Starts, FirstRows, Seconds, There
    <2> QED
      BY <2>1, StartRows DEF RowsAreIssued
  <1>4. FilesHaveTheirEdition
    <2>1. \A f \in edition_files : f.edition = edition1 \/ (f.edition = edition2 /\ \E x : x \in there)
      BY DEF Starts, FirstRows, Seconds, There
    <2> QED
      BY <2>1, StartRows DEF FilesHaveTheirEdition
  <1>5. ASSUME NEW e \in EditionId, EditionHere(e)
        PROVE  RowHolds(e)
    <2>1. CASE e = edition1
      <3>1. editions[e] = SourceOf(book1)
        BY <2>1, StartRows
      <3> QED
        BY <1>0, <3>1, StartRows, FirstRow DEF RowHolds
    <2>2. CASE e = edition2 /\ second = TranslationOf(book1, edition1)
      <3>1. editions[e] = TranslationOf(book1, edition1) /\ editions[edition1] = SourceOf(book1)
        BY <2>2, StartRows
      <3>2. EditionHere(edition1) /\ BookHere(book1)
        BY <1>0, StartRows
      <3> QED
        BY <1>0, <2>2, <3>1, <3>2, FirstRow DEF RowHolds
    <2>3. CASE e = edition2 /\ second = SourceOf(book2)
      <3>1. editions[e] = SourceOf(book2)
        BY <2>3, StartRows
      <3>2. BookHere(book2)
        <4>1. second # Null /\ second.book = book2
          BY <1>0, <2>3, FirstRow
        <4> QED
          BY <1>0, <4>1, StartRows
      <3> QED
        BY <1>0, <3>1, <3>2, FirstRow DEF RowHolds
    <2>4. e = edition1 \/ (e = edition2 /\ second # Null)
      BY <1>5, StartRows
    <2> QED
      BY <2>1, <2>2, <2>3, <2>4 DEF Starts, FirstRows, Seconds, There
  <1>6. ASSUME NEW k \in Person \X BookId, preferences[k] # Null
        PROVE  PreferenceHolds(k)
    <2>1. preferences[k] =
            CASE k = <<Administrator, book1>> /\ preferred # Null ->
                   [preferred |-> preferred, opened |-> Null]
              [] k[1] # Administrator /\ k[2] = book1 /\ opened # Null ->
                   [preferred |-> Null, opened |-> opened]
              [] OTHER -> Null
      BY DEF Starts, FirstRows, Seconds, There
    <2>2. k = <<Administrator, book1>> => k[2] = book1
      OBVIOUS
    <2>3. /\ k[2] = book1
          /\ preferences[k] \in {[preferred |-> preferred, opened |-> Null],
                                 [preferred |-> Null, opened |-> opened]}
      BY <1>6, <2>1, <2>2, Zenon
    <2>4. {preferred, opened} \subseteq {Null, edition1}
      BY DEF Starts, FirstRows, Seconds, There
    <2>5. {preferences[k].preferred, preferences[k].opened} \ {Null} \subseteq {edition1}
      BY <2>3, <2>4
    <2>6. EditionHere(edition1) /\ editions[edition1].book = book1
      BY <1>0, StartRows, FirstRow
    <2> QED
      BY <2>3, <2>5, <2>6 DEF PreferenceHolds
  <1>7. RelationsHold
    <2>1. EachHolds
      BY <1>5, <1>6 DEF EachHolds, RowHolds, PreferenceHolds
    <2> QED
      BY <2>1, RelationsByRow
  <1> QED
    BY <1>2, <1>3, <1>4, <1>7, StartTyped DEF CatalogueInv

\* Every stored file of the first rows is named by them.
LEMMA StartFiles ==
  ASSUME NEW second, NEW opened, NEW preferred, NEW there,
         Starts(second, opened, preferred, there)
  PROVE  FilesInv
  <1>0. /\ book1 \in BookId /\ edition1 \in EditionId
        /\ \A n \in {1, 2, 3} : n \in SixFiles
        /\ \A n \in SixFiles : n # Null /\ n # book1 /\ n # edition1
    BY MCCatalogueAssumption, CatalogueAssumption DEF SixFiles
  <1>1. \A x : x \in stored_files <=> x \in SixFiles /\ (x \in {1, 2, 3} \/ x \in there)
    BY <1>0 DEF Starts, FirstRows, Seconds, There
  <1>2. \A x : x \in Objects(edition_files) <=> x \in {1, 2} \/ x \in there \cap SixFiles
    <2>1. /\ \A f \in edition_files :
               \/ f.source = 1 /\ f.text = 2
               \/ f.source \in there \cap SixFiles /\ f.text = Null
          /\ \E f \in edition_files : f.source = 1 /\ f.text = 2
          /\ \A x \in there \cap SixFiles : \E f \in edition_files : f.source = x
      <3> DEFINE Brought(x) == [edition |-> edition2, revision |-> 1, source |-> x, text |-> Null]
                 First == [edition |-> edition1, revision |-> 1, source |-> 1, text |-> 2]
      <3>1. edition_files = {First} \cup {Brought(x) : x \in there \cap SixFiles}
        BY DEF Starts, FirstRows
      <3>2. /\ First.source = 1 /\ First.text = 2
            /\ \A x : Brought(x).source = x /\ Brought(x).text = Null
        OBVIOUS
      <3> HIDE DEF First, Brought
      <3> QED
        BY <3>1, <3>2
    <2>2. \A x : x \in Objects(edition_files) <=> x # Null /\ \E f \in edition_files : x \in {f.source, f.text}
      BY ObjectIn
    <2> QED
      BY <1>0, <2>1, <2>2
  <1>3. \A x : x \in Covers(books) <=> x = 3
    <2>1. \A x : x \in Covers(books) <=> x # Null /\ \E b \in BookId : books[b] # Null /\ x = books[b].cover
      BY CoverIn
    <2>2. books[book1].cover = 3 /\ books[book1] # Null
      BY <1>0, StartRows DEF BookHere
    <2>3. \A b \in BookId : books[b] # Null => b = book1 \/ books[b].cover = Null
      BY StartRows DEF BookHere
    <2> QED
      BY <1>0, <2>1, <2>2, <2>3
  <1>4. \A x : x \in Named <=> x \in stored_files
    BY <1>0, <1>1, <1>2, <1>3 DEF Named
  <1>5. FilesAgree
    BY <1>4 DEF FilesAgree
  <1>6. \A h \in Handler : handler[h].op = "idle"
    BY DEF Starts, FirstRows, Seconds, There, NoRequest
  <1> QED
    BY <1>5, <1>6, NamedFiles DEF FilesInv, CoverStands

\* A stored file the instance brings is the next of six, and one that was not used:
\* NewFile asks for it.
LEMMA StepIsCatalogue ==
  ASSUME CatalogueStep
  PROVE  CatalogueNext
  <1>1. ASSUME NEW cover \in {Null, Used + 2}, Used < 6, ImportCommit(Used + 1, Null, cover)
        PROVE  CatalogueNext
    <2>1. Used \in Nat
      <3>1. IsFiniteSet(SixFiles)
        <4>1. \E a, b \in Int : SixFiles = a .. b
          <5>1. 1 \in Int /\ 6 \in Int
            OBVIOUS
          <5> QED
            BY <5>1, Zenon DEF SixFiles
        <4> QED
          BY <4>1, FS_Interval
      <3>2. IsFiniteSet(issued \cap SixFiles)
        BY <3>1, FS_Subset
      <3> QED
        BY <3>2, FS_CardinalityType DEF Used
    <2>2. PICK n : n = Used + 1
      OBVIOUS
    <2>3. n \in StoredId /\ n # Null
      BY <1>1, <2>1, <2>2, MCCatalogueAssumption, CatalogueAssumption DEF SixFiles
    <2>4. \A e : NewFile(e, n, Null) => n \in FreshId(StoredId)
      BY <2>3 DEF NewFile
    <2>5. CASE \E h \in Handler : ReplaceCommit(h, n, Null)
      <3>1. n \in FreshId(StoredId)
        BY <2>4, <2>5 DEF ReplaceCommit
      <3>2. ImportCommit(n, Null, Null)
        BY <2>5 DEF ImportCommit
      <3> QED
        BY <3>1, <3>2 DEF CatalogueNext
    <2>6. CASE \E b \in FreshId(BookId), e \in FreshId(EditionId),
                  role \in {"source", "translation"}, given, preferred \in BOOLEAN :
                  ImportBook(b, e, role, given, n, Null, cover, preferred)
      <3>1. n \in FreshId(StoredId) /\ cover \in FreshId(StoredId) \cup {Null}
        BY <2>4, <2>6 DEF ImportBook
      <3>2. ImportCommit(n, Null, cover)
        BY <2>6 DEF ImportCommit
      <3> QED
        BY <3>1, <3>2 DEF CatalogueNext
    <2>7. CASE \E h \in Handler, e \in FreshId(EditionId), preferred \in BOOLEAN :
                  ImportEdition(h, e, n, Null, cover, preferred)
      <3>1. n \in FreshId(StoredId) /\ cover \in FreshId(StoredId) \cup {Null}
        BY <2>4, <2>7 DEF ImportEdition
      <3>2. ImportCommit(n, Null, cover)
        BY <2>7 DEF ImportCommit
      <3> QED
        BY <3>1, <3>2 DEF CatalogueNext
    <2> QED
      BY <1>1, <2>2, <2>5, <2>6, <2>7 DEF ImportCommit
  <1>2. ASSUME NEW h \in Handler, RequestBegins(h, NewRows, EditionsHere \cup {Null})
        PROVE  CatalogueNext
    <2>1. NewRows \subseteq EditionRow /\ EditionsHere \subseteq EditionId
      BY FirstRow DEF NewRows, EditionsHere
    <2>2. RequestBegins(h, EditionRow, EditionId \cup {Null})
      BY <1>2, <2>1 DEF RequestBegins
    <2> QED
      BY <2>2 DEF CatalogueNext
  <1> QED
    BY <1>1, <1>2 DEF CatalogueStep, CatalogueNext

\* What the instance starts with.
LEMMA AdministrationStarts ==
  AdministrationInit => Init /\ CatalogueInv /\ FilesInv
  <1> SUFFICES ASSUME AdministrationInit
               PROVE  Init /\ CatalogueInv /\ FilesInv
    OBVIOUS
  <1>1. Init /\ CatalogueStart
    BY DEF AdministrationInit
  <1>2. PICK second, opened, preferred, there : Starts(second, opened, preferred, there)
    BY <1>1, CatalogueStartIs
  <1> QED
    BY <1>1, <1>2, StartHolds, StartFiles

\* A step is one of the access or one of the catalogue.
LEMMA AdministrationSteps ==
  [AdministrationNext]_<<part, vars, catalogueRows>>
    => [Next]_vars /\ [CatalogueNext]_catalogueVars
  <1> SUFFICES ASSUME [AdministrationNext]_<<part, vars, catalogueRows>>
               PROVE  [Next]_vars /\ [CatalogueNext]_catalogueVars
    OBVIOUS
  <1>1. CASE UNCHANGED <<part, vars, catalogueRows>>
    BY <1>1 DEF catalogueRows
  <1>2. CASE Next /\ UNCHANGED <<part, catalogueRows>>
    BY <1>2 DEF catalogueRows
  <1>3. CASE CatalogueStep /\ UNCHANGED <<part, vars>>
    BY <1>3, StepIsCatalogue
  <1> QED
    BY <1>1, <1>2, <1>3 DEF AdministrationNext

\* A behaviour of the instance is one of the access, and its catalogue, which starts
\* with rows, takes steps of the catalogue only.
THEOREM AdministrationImplementsItsParts ==
  AdministrationSpec => Spec /\ [][CatalogueNext]_catalogueVars
  <1> QED
    BY AdministrationStarts, AdministrationSteps, PTL DEF AdministrationSpec, Spec

\* The rows that are there at the start agree, and every step keeps that they do.
THEOREM AdministrationInvariance ==
  AdministrationSpec => [](IInv /\ CatalogueInv /\ FilesInv)
  <1>1. CatalogueInv /\ FilesInv /\ [CatalogueNext]_catalogueVars => CatalogueInv' /\ FilesInv'
    BY CatalogueStepKeeps, FilesStepKeeps
  <1> QED
    BY <1>1, AdministrationStarts, AdministrationImplementsItsParts, Invariance, PTL
       DEF AdministrationSpec

\* The rows of both halves are typed, in the states of the instance.
THEOREM RowsTypeCorrect == AdministrationSpec => []RowsTypeOK
  <1>1. IInv /\ CatalogueInv => RowsTypeOK
    BY DEF IInv, CatalogueInv, RowsTypeOK
  <1> QED
    BY <1>1, AdministrationInvariance, PTL
=============================================================================
