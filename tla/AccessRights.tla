---------------------------- MODULE AccessRights ----------------------------
(***************************************************************************)
(* What a reader's credential, its devices and their sessions are worth,   *)
(* as if every operation took one step: a login, a logout, a revocation of *)
(* sessions or of a device, and the operations of the administrator.       *)
(* Time is not part of it: an open session is let in until it expires.     *)
(***************************************************************************)
CONSTANTS Reader, Cred, Dev, Sess, NoReader, NoCred, NoDev

VARIABLES
    owner,      \* the reader of a credential
    status,     \* of a credential
    holder,     \* the credential that authorised a device
    trusted,    \* the devices that are authorised and not revoked
    place,      \* the device of a session
    open        \* the sessions that may be used

rights == <<owner, status, holder, trusted, place, open>>

RightsInit ==
    /\ owner = [c \in Cred |-> NoReader] /\ status = [c \in Cred |-> "none"]
    /\ holder = [d \in Dev |-> NoCred] /\ trusted = {}
    /\ place = [s \in Sess |-> NoDev] /\ open = {}

Current(r) == {c \in Cred : owner[c] = r /\ status[c] \in {"active", "suspended"}}

\* Devices and open sessions that a set of credentials has authorised.
DevicesOf(C) == {d \in trusted : holder[d] \in C}
OpenOf(C) == {s \in open : holder[place[s]] \in C}

\* The first credential of a reader.
Create(r, c) ==
    /\ status[c] = "none" /\ \A x \in Cred : owner[x] # r
    /\ owner' = [owner EXCEPT ![c] = r] /\ status' = [status EXCEPT ![c] = "active"]
    /\ UNCHANGED <<holder, trusted, place, open>>

\* A login opens one session on a device of the credential, which may be a new
\* one, in place of the session that was open there.
LogIn(c, d, s) ==
    /\ status[c] = "active" /\ place[s] = NoDev
    /\ holder[d] = NoCred \/ (holder[d] = c /\ d \in trusted)
    /\ holder' = [holder EXCEPT ![d] = c] /\ trusted' = trusted \cup {d}
    /\ place' = [place EXCEPT ![s] = d]
    /\ open' = {x \in open : place[x] # d} \cup {s}
    /\ UNCHANGED <<owner, status>>

\* The device was revoked while the login was under way: its session is none.
LogInTooLate(d, s) ==
    /\ place[s] = NoDev /\ holder[d] # NoCred /\ d \notin trusted
    /\ place' = [place EXCEPT ![s] = d]
    /\ UNCHANGED <<owner, status, holder, trusted, open>>

\* A logout, or the revocation of chosen sessions.
LogOut(S) ==
    /\ open' = open \ S
    /\ UNCHANGED <<owner, status, holder, trusted, place>>

RevokeDevice(d) ==
    /\ trusted' = trusted \ {d} /\ open' = {s \in open : place[s] # d}
    /\ UNCHANGED <<owner, status, holder, place>>

\* The sessions of a credential end and its devices stay.
EndSessions(c) ==
    /\ open' = open \ OpenOf({c})
    /\ UNCHANGED <<owner, status, holder, trusted, place>>

Suspend(c) ==
    /\ status[c] \in {"active", "suspended"}
    /\ status' = [status EXCEPT ![c] = "suspended"]
    /\ open' = open \ OpenOf({c})
    /\ UNCHANGED <<owner, holder, trusted, place>>

Resume(c) ==
    /\ status[c] = "suspended" /\ status' = [status EXCEPT ![c] = "active"]
    /\ UNCHANGED <<owner, holder, trusted, place, open>>

Revoke(c) ==
    /\ status[c] \in {"active", "suspended"}
    /\ status' = [status EXCEPT ![c] = "revoked"]
    /\ trusted' = trusted \ DevicesOf({c}) /\ open' = open \ OpenOf({c})
    /\ UNCHANGED <<owner, holder, place>>

\* The next credential of a reader takes the place of the current one.
Reissue(r, n) ==
    /\ status[n] = "none" /\ \E x \in Cred : owner[x] = r
    /\ owner' = [owner EXCEPT ![n] = r]
    /\ status' = [x \in Cred |-> IF x = n THEN "active"
                                 ELSE IF x \in Current(r) THEN "revoked" ELSE status[x]]
    /\ trusted' = trusted \ DevicesOf(Current(r))
    /\ open' = open \ OpenOf(Current(r))
    /\ UNCHANGED <<holder, place>>

RightsNext ==
    \/ \E r \in Reader, c \in Cred : Create(r, c) \/ Reissue(r, c)
    \/ \E d \in Dev, s \in Sess : \/ LogInTooLate(d, s)
                                  \/ \E c \in Cred : LogIn(c, d, s)
    \/ \E S \in SUBSET Sess : LogOut(S)
    \/ \E d \in Dev : RevokeDevice(d)
    \/ \E c \in Cred : EndSessions(c) \/ Suspend(c) \/ Resume(c) \/ Revoke(c)

RightsSpec == RightsInit /\ [][RightsNext]_rights

\* Who may use a session holds an active credential on a device that is trusted,
\* one session a device, and a reader has one credential that is not revoked.
Lawful ==
    /\ \A s \in open : place[s] \in trusted /\ status[holder[place[s]]] = "active"
    /\ \A d \in trusted : status[holder[d]] \in {"active", "suspended"}
    /\ \A s, u \in open : place[s] = place[u] => s = u
    /\ \A r \in Reader : \A c, x \in Current(r) : c = x
=============================================================================
