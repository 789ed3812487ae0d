---------------------------- MODULE ClientSession ----------------------------
(***************************************************************************)
(* The login state of the web client: the tabs of one browser, each with   *)
(* an access token in memory, that share the cookies and meet the server's *)
(* rotating refresh tokens.                                                *)
(*                                                                         *)
(* A tab (client.ts, AuthProvider, ProtectedRoute, LoginPage, AppShell)    *)
(* restores its login with one refresh when it is loaded, sends requests   *)
(* with its access token, and meets a 401 with one refresh that all the    *)
(* refused requests share, then sends each of them once more.  Cookies are *)
(* attached when a request is sent and change when its answer comes.       *)
(*                                                                         *)
(* The server is reduced to what ReaderAccess models in full: sessions     *)
(* with a generation of refresh token, the reuse of an old generation      *)
(* revokes the session, a login revokes the sessions of its device.        *)
(***************************************************************************)
EXTENDS Naturals, Sequences, FiniteSets

CONSTANTS
    Tab,
    Slot,           \* the requests that can be open at the same time
    TabOf,          \* the tab of each slot
    User,
    Nobody,
    MaxSessions,    \* bound: logins
    MaxTokens       \* bound: refresh tokens of a session

ASSUME ClientSessionAssumption ==
    /\ TabOf \in [Slot -> Tab]
    /\ Nobody \notin User
    /\ MaxSessions \in Nat \ {0} /\ MaxTokens \in Nat \ {0}

\* A token, of access or refresh: the session and its generation.  NoToken: null.
Token == [session : 1 .. MaxSessions, generation : 1 .. MaxTokens]
NoToken == [session |-> 0, generation |-> 0]
AnyToken == Token \cup {NoToken}

VARIABLES
    sessions,   \* the server's sessions, in the order of the logins
    expired,    \* access tokens that are expired
    jar,        \* the cookies: refresh token, and the device of the device secret
    tab,        \* state of the module client.ts and of AuthProvider
    flight,     \* refreshFlight of each tab
    requests,   \* the requests under way
    replayed,   \* history: sessions revoked because an old token was used
    overlapped, \* history: two tabs refreshed at once, or an answer was lost
    foreign     \* history: a login beside another tab's user or a late refresh, or the
                \* profile of one user came to the page of another

sessionVars ==
    <<sessions, expired, jar, tab, flight, requests, replayed, overlapped, foreign>>

\* "site": a tab that is loading asks for the public settings first.
Flights == [step : {"none", "site", "sent", "granted", "refused"}, cookie : AnyToken,
            device : 0 .. MaxSessions, token : AnyToken]
NoFlight == [step |-> "none", cookie |-> NoToken, device |-> 0, token |-> NoToken]

ClientRequest ==
    [op : {"none", "get", "profile", "revoke", "exit", "logout", "login",
           "register", "verify"},
     user : User \cup {Nobody},
     step : {"idle", "sent", "waiting", "ok", "refused"},
     used : AnyToken, retry : BOOLEAN, device : 0 .. MaxSessions,
     token : AnyToken]
NoRequest == [op |-> "none", user |-> Nobody, step |-> "idle", used |-> NoToken,
              retry |-> FALSE, device |-> 0, token |-> NoToken]

SessionTypeOK ==
    /\ sessions \in Seq([user : User, generation : 1 .. MaxTokens, live : BOOLEAN,
                         device : 1 .. MaxSessions, recovery : BOOLEAN])
    /\ Len(sessions) <= MaxSessions
    /\ expired \subseteq Token
    /\ jar \in [refresh : AnyToken, device : 0 .. MaxSessions]
    /\ tab \in [Tab -> [phase : {"closed", "loading", "anonymous", "authenticated"},
                        user : User \cup {Nobody}, access : AnyToken]]
    /\ flight \in [Tab -> Flights]
    /\ requests \in [Slot -> ClientRequest]
    /\ replayed \in BOOLEAN /\ overlapped \in BOOLEAN /\ foreign \in BOOLEAN

Sent(cookies) == [step |-> "sent", cookie |-> cookies.refresh,
                  device |-> cookies.device, token |-> NoToken]
Refreshing(t) == flight[t].step \notin {"none", "site"}
Waiting(t) == {r \in Slot : TabOf[r] = t /\ requests[r].step = "waiting"}
Owner(token) == IF token = NoToken THEN Nobody ELSE sessions[token.session].user
Live(token) == token # NoToken /\ sessions[token.session].live
Recovering(token) == token # NoToken /\ sessions[token.session].recovery

\* clearAuth: the pages of the routes give way to the login page.
Anonymous(s) == [s EXCEPT !.phase = "anonymous", !.user = Nobody, !.access = NoToken]

\* applyTokenResponse, after the token.
Authenticated(s, user, token) ==
    [s EXCEPT !.phase = "authenticated", !.user = user, !.access = token]

\* A browser with the cookies of an earlier login, or with none.
SessionInit ==
    /\ \/ \E u \in User :
            /\ sessions = <<[user |-> u, generation |-> 1, live |-> TRUE, device |-> 1,
                             recovery |-> FALSE]>>
            /\ jar = [refresh |-> [session |-> 1, generation |-> 1], device |-> 1]
       \/ sessions = <<>> /\ jar = [refresh |-> NoToken, device |-> 0]
    /\ tab = [t \in Tab |-> [phase |-> "closed", user |-> Nobody, access |-> NoToken]]
    /\ flight = [t \in Tab |-> NoFlight]
    /\ expired = {} /\ requests = [r \in Slot |-> NoRequest]
    /\ replayed = FALSE /\ overlapped = FALSE /\ foreign = FALSE

-----------------------------------------------------------------------------
(* Loading a tab, and the refresh.                                         *)

\* Mutant: every refused request starts a refresh of its own.
StartRefresh_Own(t) ==
    /\ flight' = [flight EXCEPT ![t] = Sent(jar)]
    /\ overlapped' = (overlapped \/ \E u \in Tab \ {t} : Refreshing(u))

\* refreshAccessToken: a refresh starts, unless one is under way.
StartRefresh(t) ==
    IF Refreshing(t) THEN UNCHANGED <<flight, overlapped>>
    ELSE /\ flight' = [flight EXCEPT ![t] = Sent(jar)]
         /\ overlapped' = (overlapped \/ \E u \in Tab \ {t} : Refreshing(u))

\* The tab is opened or loaded again: the state in memory, the
\* requests and the refresh of the old page are gone.
OpenTab(t) ==
    /\ tab' = [tab EXCEPT ![t] = [phase |-> "loading", user |-> Nobody,
                                  access |-> NoToken]]
    /\ requests' = [r \in Slot |-> IF TabOf[r] = t THEN NoRequest ELSE requests[r]]
    /\ flight' = [flight EXCEPT ![t] = [NoFlight EXCEPT !.step = "site"]]
    /\ overlapped' = (overlapped \/ Refreshing(t))
    /\ UNCHANGED <<sessions, expired, jar, replayed, foreign>>

\* The settings have come or not, the login is restored.
SiteArrives(t) ==
    /\ flight[t].step = "site" /\ StartRefresh(t)
    /\ UNCHANGED <<sessions, expired, jar, tab, requests, replayed, foreign>>

\* The server meets a refresh: a current token is replaced, an old one revokes
\* the session, one without its device secret is refused.
ServerRefreshes(t) ==
    LET f == flight[t]
        s == sessions[f.cookie.session]
        refuse == flight' = [flight EXCEPT ![t].step = "refused"]
    IN  /\ f.step = "sent"
        /\ \/ f.cookie = NoToken /\ refuse /\ UNCHANGED <<sessions, replayed>>
           \/ /\ f.cookie # NoToken
              /\ \/ /\ s.device = f.device /\ f.cookie.generation = s.generation
                    /\ s.live /\ s.generation < MaxTokens
                    /\ sessions' = [sessions EXCEPT ![f.cookie.session].generation = @ + 1]
                    /\ flight' = [flight EXCEPT ![t].step = "granted",
                                    ![t].token = [f.cookie EXCEPT !.generation = @ + 1]]
                    /\ UNCHANGED replayed
                 \/ /\ s.device = f.device /\ f.cookie.generation < s.generation
                    /\ sessions' = [sessions EXCEPT ![f.cookie.session].live = FALSE]
                    /\ replayed' = (replayed \/ s.live)
                    /\ refuse
                 \/ /\ s.device # f.device \/ ~s.live
                    /\ refuse /\ UNCHANGED <<sessions, replayed>>
        /\ UNCHANGED <<expired, jar, tab, requests, overlapped, foreign>>

\* Any answer but 2xx ends the login of the page, 503 of a server that is busy
\* too.
ServerUnavailable(t) ==
    /\ flight[t].step = "sent"
    /\ flight' = [flight EXCEPT ![t].step = "refused"]
    /\ UNCHANGED <<sessions, expired, jar, tab, requests, replayed, overlapped, foreign>>

\* The requests that waited for the refresh are sent again.
Resent(t, token) ==
    [r \in Slot |-> IF r \in Waiting(t)
                    THEN [requests[r] EXCEPT !.step = "sent", !.used = token,
                                             !.retry = TRUE]
                    ELSE requests[r]]

\* Mutant: the requests that waited are forgotten.
RefreshGranted_ForgetsWaiters(t) ==
    /\ flight[t].step = "granted"
    /\ jar' = [jar EXCEPT !.refresh = flight[t].token]
    /\ tab' = [tab EXCEPT ![t].access = flight[t].token]
    /\ flight' = [flight EXCEPT ![t] = NoFlight]
    /\ UNCHANGED <<sessions, expired, requests, replayed, overlapped, foreign>>

RefreshGranted(t) ==
    /\ flight[t].step = "granted"
    /\ LET token == flight[t].token
       IN  /\ jar' = [jar EXCEPT !.refresh = token]
           /\ tab' = [tab EXCEPT ![t] =
                        IF @.phase = "loading"
                        THEN Authenticated(@, Owner(token), token)
                        ELSE [@ EXCEPT !.access = token]]
           /\ requests' = Resent(t, token)
    /\ flight' = [flight EXCEPT ![t] = NoFlight]
    /\ UNCHANGED <<sessions, expired, replayed, overlapped, foreign>>

\* The requests that waited fail; logout fails, and clears the state like the
\* refusal itself.
RefreshRefused(t) ==
    /\ flight[t].step = "refused"
    /\ jar' = IF flight[t].cookie = NoToken THEN [jar EXCEPT !.refresh = NoToken] ELSE jar
    /\ tab' = [tab EXCEPT ![t] = Anonymous(@)]
    /\ requests' = [r \in Slot |-> IF r \in Waiting(t) THEN NoRequest ELSE requests[r]]
    /\ flight' = [flight EXCEPT ![t] = NoFlight]
    /\ UNCHANGED <<sessions, expired, replayed, overlapped, foreign>>

\* The network fails before or after the server has met the refresh: only a page
\* that is loading, or a logout, gives the login up.
RefreshLost(t) ==
    /\ Refreshing(t)
    /\ tab' = [tab EXCEPT ![t] =
                 IF @.phase = "loading"
                    \/ \E r \in Waiting(t) : requests[r].op \in {"logout", "exit"}
                 THEN Anonymous(@) ELSE @]
    /\ requests' = [r \in Slot |-> IF r \in Waiting(t) THEN NoRequest ELSE requests[r]]
    /\ flight' = [flight EXCEPT ![t] = NoFlight]
    /\ overlapped' = TRUE
    /\ UNCHANGED <<sessions, expired, jar, replayed, foreign>>

-----------------------------------------------------------------------------
(* Requests.                                                               *)

\* A page sends a request: it reads or changes something ("get"), changes the
\* displayed name ("profile"), revokes the session or device it belongs to
\* (SessionsPage, DevicesPage, AdminSecurityPage), registers a passkey or logs out.
SendRequest(r, op) ==
    LET t == TabOf[r]
    IN  /\ op \in {"get", "profile", "revoke", "register", "logout"}
        /\ tab[t].phase = "authenticated" /\ requests[r].op = "none"
        /\ requests' = [requests EXCEPT ![r] =
                          [NoRequest EXCEPT !.op = op, !.step = "sent",
                                            !.used = tab[t].access]]
        /\ UNCHANGED <<sessions, expired, jar, tab, flight, replayed, overlapped, foreign>>

\* LoginPage: one submission at a time.
Login(r, user) ==
    LET t == TabOf[r]
    IN  /\ tab[t].phase = "anonymous" /\ requests[r].op = "none"
        /\ \A q \in Slot : TabOf[q] = t => requests[q].op # "login"
        /\ requests' = [requests EXCEPT ![r] =
                          [NoRequest EXCEPT !.op = "login", !.user = user,
                                            !.step = "sent", !.used = tab[t].access,
                                            !.device = jar.device]]
        /\ UNCHANGED <<sessions, expired, jar, tab, flight, replayed, overlapped, foreign>>

\* An access token is good until it expires or its session is revoked; a logout
\* only needs it not to be expired.
Accepted(r) ==
    /\ requests[r].used # NoToken /\ requests[r].used \notin expired
    /\ Live(requests[r].used) \/ requests[r].op \in {"logout", "exit"}

\* A session of recovery is refused all but the registration and the logout, and not
\* with a 401: such a request ends as Lost.  The profile and the challenge of a
\* registration are those of the token's user.
ServerAnswers(r) ==
    LET q == requests[r]
    IN  /\ q.step = "sent" /\ q.op \notin {"login", "verify"}
        /\ Accepted(r) /\ Recovering(q.used) => q.op \in {"register", "logout"}
        /\ requests' = [requests EXCEPT
                          ![r].step = IF Accepted(r) THEN "ok" ELSE "refused",
                          ![r].user = IF Accepted(r) THEN Owner(q.used) ELSE @]
        /\ sessions' = IF Accepted(r) /\ q.op \in {"revoke", "exit", "logout"}
                       THEN [sessions EXCEPT ![q.used.session].live = FALSE]
                       ELSE sessions
        /\ UNCHANGED <<expired, jar, tab, flight, replayed, overlapped, foreign>>

\* The request is answered with a new session; those in ends are revoked.
NewSession(r, row, ends) ==
    /\ Len(sessions) < MaxSessions
    /\ sessions' = Append([i \in 1 .. Len(sessions) |->
                             IF i \in ends THEN [sessions[i] EXCEPT !.live = FALSE]
                             ELSE sessions[i]], row)
    /\ requests' = [requests EXCEPT
                      ![r].step = "ok", ![r].device = row.device,
                      ![r].token = [session |-> Len(sessions) + 1, generation |-> 1]]

RowFor(user, device, recovery) ==
    [user |-> user, generation |-> 1, live |-> TRUE, device |-> device,
     recovery |-> recovery]

\* A login uses the device of the secret when it is the user's own, and revokes
\* the sessions it has; or it adds a device.  A recovery credential gives a session
\* that can only register a passkey.
ServerLogsIn(r) ==
    LET q == requests[r]
        device == IF q.device # 0 /\ sessions[q.device].user = q.user
                  THEN q.device ELSE Len(sessions) + 1
    IN  /\ q.step = "sent" /\ q.op = "login"
        /\ \/ \E recovery \in BOOLEAN :
                NewSession(r, RowFor(q.user, device, recovery),
                           {i \in DOMAIN sessions : sessions[i].device = device})
           \/ requests' = [requests EXCEPT ![r].step = "refused"] /\ UNCHANGED sessions
        /\ UNCHANGED <<expired, jar, tab, flight, replayed, overlapped, foreign>>

\* A passkey is registered for the user of the challenge.  A session of recovery is
\* replaced by a normal one on its device, and the user's sessions are revoked.
ServerRegisters(r) ==
    LET q == requests[r]
    IN  /\ q.step = "sent" /\ q.op = "verify"
        /\ \/ /\ ~Accepted(r)
              /\ requests' = [requests EXCEPT ![r].step = "refused"] /\ UNCHANGED sessions
           \/ /\ Accepted(r) /\ Owner(q.used) = q.user /\ ~Recovering(q.used)
              /\ requests' = [requests EXCEPT ![r].step = "ok"] /\ UNCHANGED sessions
           \/ /\ Accepted(r) /\ Owner(q.used) = q.user /\ Recovering(q.used)
              /\ NewSession(r, RowFor(q.user, sessions[q.used.session].device, FALSE),
                            {i \in DOMAIN sessions : sessions[i].user = q.user})
        /\ UNCHANGED <<expired, jar, tab, flight, replayed, overlapped, foreign>>

Finish(r) == requests' = [requests EXCEPT ![r] = NoRequest]

\* What comes after an answer: a page that has revoked its own session logs out, and
\* the challenge of a registration is signed and sent with the token of that moment.
Succeeds(r) ==
    LET t == TabOf[r]
        Goes(op, user) == [NoRequest EXCEPT !.op = op, !.user = user, !.step = "sent",
                                            !.used = tab[t].access]
    IN  /\ requests[r].step = "ok"
        /\ \/ requests[r].op = "get" /\ Finish(r)
           \/ /\ requests[r].op = "revoke"
              /\ requests' = [requests EXCEPT ![r] = Goes("exit", Nobody)]
           \/ /\ requests[r].op = "register"
              /\ requests' = [requests EXCEPT ![r] = Goes("verify", requests[r].user)]
        /\ UNCHANGED <<sessions, expired, jar, tab, flight, replayed, overlapped, foreign>>

\* updateDisplayName shows the user of the answer, whoever has logged in meanwhile.
ProfileArrives(r) ==
    LET t == TabOf[r]
    IN  /\ requests[r].step = "ok" /\ requests[r].op = "profile"
        /\ tab' = [tab EXCEPT ![t].user = requests[r].user]
        /\ foreign' = (foreign \/ /\ tab[t].phase # "anonymous"
                                  /\ tab[t].user # requests[r].user)
        /\ Finish(r)
        /\ UNCHANGED <<sessions, expired, jar, flight, replayed, overlapped>>

\* A login beside another tab that shows another user or is loading, or beside a
\* refresh under way that will still bring a token of another user.
BesideAnother(t, user) ==
    \/ \E u \in Tab \ {t} : tab[u].phase \notin {"closed", "anonymous"} /\ tab[u].user # user
    \/ \E u \in Tab : Refreshing(u) /\ Live(flight[u].cookie) /\ Owner(flight[u].cookie) # user

\* Mutant: the answer of a login leaves the cookies as they were.
LoginSucceeds_KeepsCookies(r) ==
    LET t == TabOf[r]
    IN  /\ requests[r].step = "ok" /\ requests[r].op = "login"
        /\ tab' = [tab EXCEPT ![t] = Authenticated(@, requests[r].user, requests[r].token)]
        /\ foreign' = (foreign \/ BesideAnother(t, requests[r].user))
        /\ Finish(r)
        /\ UNCHANGED <<sessions, expired, jar, flight, replayed, overlapped>>

LoginSucceeds(r) ==
    LET t == TabOf[r]
    IN  /\ requests[r].step = "ok" /\ requests[r].op = "login"
        /\ jar' = [refresh |-> requests[r].token, device |-> requests[r].device]
        /\ tab' = [tab EXCEPT ![t] = Authenticated(@, requests[r].user, requests[r].token)]
        /\ foreign' = (foreign \/ BesideAnother(t, requests[r].user))
        /\ Finish(r)
        /\ UNCHANGED <<sessions, expired, flight, replayed, overlapped>>

\* registerPasskey: when the session was one of recovery the answer logs in, whoever
\* is shown or has logged out meanwhile.
Registered(r) ==
    LET t == TabOf[r]
        q == requests[r]
    IN  /\ q.step = "ok" /\ q.op = "verify"
        /\ IF q.token = NoToken THEN UNCHANGED <<jar, tab, foreign>>
           ELSE /\ jar' = [jar EXCEPT !.refresh = q.token]
                /\ tab' = [tab EXCEPT ![t] = Authenticated(@, q.user, q.token)]
                /\ foreign' = (foreign \/ BesideAnother(t, q.user))
        /\ Finish(r)
        /\ UNCHANGED <<sessions, expired, flight, replayed, overlapped>>

\* AuthProvider.logout.
LogsOut(r) ==
    LET t == TabOf[r]
    IN  /\ requests[r].step = "ok" /\ requests[r].op \in {"logout", "exit"}
        /\ jar' = [jar EXCEPT !.refresh = NoToken]
        /\ tab' = [tab EXCEPT ![t] = Anonymous(@)]
        /\ Finish(r)
        /\ UNCHANGED <<sessions, expired, flight, replayed, overlapped, foreign>>

\* A first 401: refresh, or take the token that has come in the meantime.
Refused(r) ==
    LET t == TabOf[r]
    IN  /\ requests[r].step = "refused" /\ requests[r].op # "login"
        /\ ~requests[r].retry /\ requests[r].used # NoToken
        /\ IF tab[t].access = requests[r].used
           THEN /\ requests' = [requests EXCEPT ![r].step = "waiting"]
                /\ StartRefresh(t)
           ELSE /\ requests' = [requests EXCEPT ![r].step = "sent", ![r].retry = TRUE,
                                      ![r].used = tab[t].access]
                /\ UNCHANGED <<flight, overlapped>>
        /\ UNCHANGED <<sessions, expired, jar, tab, replayed, foreign>>

\* A second 401, or one without a token: the request fails.  With a token it ends
\* the login of the page, and a logout always does.
RefusedAgain(r) ==
    LET t == TabOf[r]
    IN  /\ requests[r].step = "refused"
        /\ requests[r].retry \/ requests[r].used = NoToken \/ requests[r].op = "login"
        /\ tab' = [tab EXCEPT ![t] =
                     IF \/ requests[r].op \in {"logout", "exit"}
                        \/ requests[r].used # NoToken /\ requests[r].op # "login"
                     THEN Anonymous(@) ELSE @]
        /\ Finish(r)
        /\ UNCHANGED <<sessions, expired, jar, flight, replayed, overlapped, foreign>>

\* The request or its answer is lost; a logout clears the page all the same.
Lost(r) ==
    LET t == TabOf[r]
    IN  /\ requests[r].step \notin {"idle", "waiting"}
        /\ tab' = IF requests[r].op \in {"logout", "exit"} THEN [tab EXCEPT ![t] = Anonymous(@)] ELSE tab
        /\ Finish(r)
        /\ UNCHANGED <<sessions, expired, jar, flight, replayed, overlapped, foreign>>

-----------------------------------------------------------------------------
\* An access token a tab has expires.
Expires(token) ==
    /\ token # NoToken /\ \E t \in Tab : tab[t].access = token
    /\ expired' = expired \cup {token}
    /\ UNCHANGED <<sessions, jar, tab, flight, requests, replayed, overlapped, foreign>>

\* An administrator or another device revokes a session.
Revoked(s) ==
    /\ s \in DOMAIN sessions /\ sessions[s].live
    /\ sessions' = [sessions EXCEPT ![s].live = FALSE]
    /\ UNCHANGED <<expired, jar, tab, flight, requests, replayed, overlapped, foreign>>

Answers(r) ==
    \/ ServerAnswers(r) \/ ServerLogsIn(r) \/ ServerRegisters(r)
    \/ Succeeds(r) \/ ProfileArrives(r) \/ LoginSucceeds(r) \/ Registered(r)
    \/ LogsOut(r) \/ Refused(r) \/ RefusedAgain(r)

Refreshes(t) == \/ SiteArrives(t) \/ ServerRefreshes(t) \/ ServerUnavailable(t)
                \/ RefreshGranted(t) \/ RefreshRefused(t)

SessionNext ==
    \/ \E t \in Tab :
         Refreshes(t) \/ RefreshLost(t) \/ OpenTab(t)
    \/ \E r \in Slot :
         \/ Answers(r) \/ Lost(r)
         \/ \E op \in {"get", "profile", "revoke", "register", "logout"} :
              SendRequest(r, op)
         \/ \E u \in User : Login(r, u)
    \/ \E token \in Token : Expires(token)
    \/ \E s \in 1 .. MaxSessions : Revoked(s)

SessionSpec == SessionInit /\ [][SessionNext]_sessionVars

-----------------------------------------------------------------------------
(* Properties.                                                             *)

\* The server revokes a session for the use of an old refresh token only after
\* two tabs refreshed at once or the answer of a refresh was lost: one tab never
\* loses its own login, however its requests, logins and logouts interleave
\* (refreshAccessToken, request).
ReplayHasACause == replayed => overlapped

\* No request goes out with a live token of another user than the one the page
\* shows, unless a login (or the registration that ends a recovery) came beside
\* another tab of another user, or beside a refresh that still brings a live token of
\* another user (setAccessToken takes it whoever is logged in), or the answer of a
\* changed profile came when another user had logged in on the page
\* (updateDisplayName shows its user whoever is logged in).  The late answer of a
\* refresh whose session a logout has ended brings a token as well, but a dead one.
ActsAsShownUser ==
    ~foreign => \A t \in Tab :
        tab[t].phase = "authenticated" /\ Live(tab[t].access) =>
            Owner(tab[t].access) = tab[t].user

\* Nothing waits for a refresh that is over: a refused request that waits, or a tab
\* that is loading, has a refresh under way, whose end it will see ("Multiple
\* expired requests share one refresh and retry once.", ADR 0006).
WaitsForARefresh ==
    \A t \in Tab :
        /\ Waiting(t) # {} => Refreshing(t)
        /\ tab[t].phase = "loading" => flight[t].step # "none"
=============================================================================
