------------------------- MODULE ClientSessionProofs -------------------------
(***************************************************************************)
(* Proofs about the login state of the web client (ClientSession), for any *)
(* number of tabs, open requests, users, sessions and tokens.              *)
(*                                                                         *)
(* TypeInv adds to the types what the server and the client guarantee      *)
(* together: every token a page or a cookie holds was issued by a session  *)
(* that exists, a refresh that is granted keeps the session of its cookie, *)
(* and a login brings a token of the user who asked for it.                *)
(*                                                                         *)
(* ReplayHasACause rests on Alone: as long as no answer is lost and no two *)
(* tabs refresh at once, the cookies hold the current token of their       *)
(* session, and a token that a login brings is held by nobody else.        *)
(*                                                                         *)
(* ActsAsShownUser rests on OneUser: cookies, refreshes under way and pages *)
(* can only bring live tokens of one user, the one the pages show.         *)
(***************************************************************************)
EXTENDS ClientSession, TLAPS

-----------------------------------------------------------------------------
(* The type invariant.                                                     *)

SessionRow == [user : User, generation : 1 .. MaxTokens, live : BOOLEAN,
               device : 1 .. MaxSessions, recovery : BOOLEAN]

\* A token that a session issued.
IsIssued(x) == x = NoToken \/ x.session \in DOMAIN sessions

\* Cookies, pages, refreshes and logins only have tokens that were issued.
TokensAreIssued ==
    /\ IsIssued(jar.refresh)
    /\ \A t \in Tab : /\ IsIssued(flight[t].cookie) /\ IsIssued(flight[t].token)
                      /\ IsIssued(tab[t].access)
    /\ \A r \in Slot : IsIssued(requests[r].token) /\ IsIssued(requests[r].used)

\* A refresh is answered with a token of the session of its cookie.
GrantsTheSession ==
    \A t \in Tab : flight[t].step = "granted" =>
        /\ flight[t].token # NoToken
        /\ flight[t].token.session = flight[t].cookie.session

\* A login, or a passkey's registration, is answered with a token of a session of the
\* user who asked.
LoginsHaveTheirUser ==
    \A r \in Slot :
        /\ requests[r].op \in {"login", "verify"} =>
             /\ requests[r].user \in User
             /\ requests[r].token # NoToken => Owner(requests[r].token) = requests[r].user
        /\ requests[r].step = "ok" /\ requests[r].op = "login" => requests[r].token # NoToken
        /\ requests[r].step = "ok" /\ requests[r].op = "register" => requests[r].user \in User

TypeInv == SessionTypeOK /\ TokensAreIssued /\ GrantsTheSession /\ LoginsHaveTheirUser

\* What a step never does to the sessions: forget one, change its user, revive it.
SessionsStay ==
    /\ DOMAIN sessions \subseteq DOMAIN sessions'
    /\ \A i \in DOMAIN sessions :
         /\ sessions'[i].user = sessions[i].user
         /\ sessions'[i].live => sessions[i].live

-----------------------------------------------------------------------------
LEMMA NoTokenIsNone ==
    /\ NoToken \notin Token /\ NoToken.session = 0
    /\ NoToken \in AnyToken
    /\ \A x \in AnyToken : x # NoToken => x \in Token
    /\ \A x \in AnyToken : x.session = 0 <=> x = NoToken
  BY ClientSessionAssumption DEF NoToken, Token, AnyToken

LEMMA NoFlightType == NoFlight \in Flights
  BY NoTokenIsNone, ClientSessionAssumption DEF NoFlight, Flights

LEMMA NoRequestType == NoRequest \in ClientRequest
  BY NoTokenIsNone, ClientSessionAssumption DEF NoRequest, ClientRequest

LEMMA RowsOfSessions ==
    ASSUME SessionTypeOK
    PROVE  /\ Len(sessions) \in Nat /\ DOMAIN sessions = 1 .. Len(sessions)
           /\ DOMAIN sessions \subseteq 1 .. MaxSessions
           /\ \A i \in DOMAIN sessions : sessions[i] \in SessionRow
  <1>1. sessions \in Seq(SessionRow) /\ Len(sessions) <= MaxSessions
    BY DEF SessionTypeOK, SessionRow
  <1> QED  BY <1>1, ClientSessionAssumption

LEMMA OwnerType ==
    ASSUME SessionTypeOK, NEW x \in AnyToken, IsIssued(x)
    PROVE  Owner(x) \in User \cup {Nobody}
  <1>1. CASE x = NoToken  BY <1>1 DEF Owner
  <1>2. CASE x.session \in DOMAIN sessions
    BY <1>2, RowsOfSessions DEF Owner, SessionRow
  <1> QED  BY <1>1, <1>2 DEF IsIssued

LEMMA InitTypeInv == SessionInit => TypeInv
  <1> SUFFICES ASSUME SessionInit PROVE TypeInv  OBVIOUS
  <1> USE NoTokenIsNone, ClientSessionAssumption
  <1>1. /\ sessions \in Seq(SessionRow) /\ Len(sessions) <= MaxSessions
        /\ jar \in [refresh : AnyToken, device : 0 .. MaxSessions]
        /\ IsIssued(jar.refresh)
    <2>1. CASE sessions = <<>> /\ jar = [refresh |-> NoToken, device |-> 0]
      BY <2>1 DEF IsIssued
    <2>2. ASSUME NEW u \in User,
                 sessions = <<[user |-> u, generation |-> 1, live |-> TRUE, device |-> 1,
                               recovery |-> FALSE]>>,
                 jar = [refresh |-> [session |-> 1, generation |-> 1], device |-> 1]
          PROVE  <1>1!1 /\ <1>1!2 /\ <1>1!3
      <3>1. [user |-> u, generation |-> 1, live |-> TRUE, device |-> 1,
             recovery |-> FALSE] \in SessionRow
        BY DEF SessionRow
      <3>2. sessions \in Seq(SessionRow) /\ Len(sessions) = 1  BY <3>1, <2>2
      <3>3. [session |-> 1, generation |-> 1] \in AnyToken
        BY DEF AnyToken, Token
      <3>4. DOMAIN sessions = 1 .. 1  BY <2>2
      <3> QED  BY <2>2, <3>2, <3>3, <3>4 DEF IsIssued
    <2> QED  BY <2>1, <2>2 DEF SessionInit
  <1>2. tab \in [Tab -> [phase : {"closed", "loading", "anonymous", "authenticated"},
                        user : User \cup {Nobody}, access : AnyToken]]
    BY DEF SessionInit
  <1>3. flight \in [Tab -> Flights] /\ requests \in [Slot -> ClientRequest]
    BY NoFlightType, NoRequestType DEF SessionInit
  <1>4. SessionTypeOK
    BY <1>1, <1>2, <1>3 DEF SessionTypeOK, SessionInit, SessionRow
  <1>5. TokensAreIssued
    BY <1>1 DEF SessionInit, TokensAreIssued, IsIssued, NoFlight, NoRequest
  <1>6. GrantsTheSession /\ LoginsHaveTheirUser
    BY DEF SessionInit, GrantsTheSession, LoginsHaveTheirUser, NoFlight, NoRequest
  <1> QED  BY <1>4, <1>5, <1>6 DEF TypeInv

-----------------------------------------------------------------------------
(* TypeInv, value by value: Good... of a value says what TypeInv says of a  *)
(* place that holds it, so that a step is judged by the values it writes.  *)

TabState == [phase : {"closed", "loading", "anonymous", "authenticated"},
             user : User \cup {Nobody}, access : AnyToken]
Cookies == [refresh : AnyToken, device : 0 .. MaxSessions]

GoodJar(j) == j \in Cookies /\ IsIssued(j.refresh)
GoodTab(s) == s \in TabState /\ IsIssued(s.access)
GoodFlight(f) ==
    /\ f \in Flights /\ IsIssued(f.cookie) /\ IsIssued(f.token)
    /\ f.step = "granted" => f.token # NoToken /\ f.token.session = f.cookie.session
GoodRequest(q) ==
    /\ q \in ClientRequest /\ IsIssued(q.token) /\ IsIssued(q.used)
    /\ q.op \in {"login", "verify"} =>
         /\ q.user \in User
         /\ q.token # NoToken => Owner(q.token) = q.user
    /\ q.step = "ok" /\ q.op = "login" => q.token # NoToken
    /\ q.step = "ok" /\ q.op = "register" => q.user \in User
GoodSessions == sessions \in Seq(SessionRow) /\ Len(sessions) <= MaxSessions
GoodRest == /\ expired \subseteq Token
            /\ replayed \in BOOLEAN /\ overlapped \in BOOLEAN /\ foreign \in BOOLEAN

GoodTabs == tab \in [Tab -> TabState] /\ \A t \in Tab : GoodTab(tab[t])
GoodFlights == flight \in [Tab -> Flights] /\ \A t \in Tab : GoodFlight(flight[t])
GoodRequests ==
    requests \in [Slot -> ClientRequest] /\ \A r \in Slot : GoodRequest(requests[r])

SessionRows == /\ GoodSessions /\ GoodRest /\ GoodJar(jar)
        /\ GoodTabs /\ GoodFlights /\ GoodRequests

LEMMA GoodRows == TypeInv <=> SessionRows
  <1>1. SessionTypeOK <=>
          /\ GoodSessions /\ GoodRest /\ jar \in Cookies /\ tab \in [Tab -> TabState]
          /\ flight \in [Tab -> Flights] /\ requests \in [Slot -> ClientRequest]
    BY DEF SessionTypeOK, GoodSessions, GoodRest, SessionRow, Cookies, TabState
  <1> QED
    BY <1>1 DEF TypeInv, TokensAreIssued, GrantsTheSession, LoginsHaveTheirUser, SessionRows,
                GoodTabs, GoodFlights, GoodRequests, GoodJar, GoodTab, GoodFlight, GoodRequest

LEMMA GoodRowsNext == SessionRows' => TypeInv'
  BY GoodRows, PTL

LEMMA Stays ==
    ASSUME TypeInv, SessionsStay, NEW x \in AnyToken, IsIssued(x)
    PROVE  IsIssued(x)' /\ Owner(x)' = Owner(x) /\ (Live(x)' => Live(x))
  BY NoTokenIsNone DEF IsIssued, SessionsStay, Owner, Live

LEMMA Unchanged == UNCHANGED sessions => SessionsStay
  BY DEF SessionsStay

LEMMA SessionStaysGood ==
    ASSUME TypeInv, SessionsStay
    PROVE  /\ \A j : GoodJar(j) => GoodJar(j)'
           /\ \A s : GoodTab(s) => GoodTab(s)'
           /\ \A f : GoodFlight(f) => GoodFlight(f)'
           /\ \A q : GoodRequest(q) => GoodRequest(q)'
  <1>1. ASSUME NEW j, GoodJar(j) PROVE GoodJar(j)'
    <2>1. PICK x \in AnyToken : x = j.refresh /\ IsIssued(x)  BY <1>1 DEF GoodJar, Cookies
    <2> QED  BY <1>1, <2>1, Stays DEF GoodJar
  <1>2. ASSUME NEW s, GoodTab(s) PROVE GoodTab(s)'
    <2>1. PICK x \in AnyToken : x = s.access /\ IsIssued(x)  BY <1>2 DEF GoodTab, TabState
    <2> QED  BY <1>2, <2>1, Stays DEF GoodTab
  <1>3. ASSUME NEW f, GoodFlight(f) PROVE GoodFlight(f)'
    <2>1. PICK x \in AnyToken : x = f.cookie /\ IsIssued(x)  BY <1>3 DEF GoodFlight, Flights
    <2>2. PICK y \in AnyToken : y = f.token /\ IsIssued(y)  BY <1>3 DEF GoodFlight, Flights
    <2>3. IsIssued(x)' /\ IsIssued(y)'  BY <2>1, <2>2, Stays
    <2> QED  BY <1>3, <2>1, <2>2, <2>3 DEF GoodFlight
  <1>4. ASSUME NEW q, GoodRequest(q) PROVE GoodRequest(q)'
    <2>1. PICK x \in AnyToken : x = q.token /\ IsIssued(x)
      BY <1>4 DEF GoodRequest, ClientRequest
    <2>2. IsIssued(x)' /\ Owner(x)' = Owner(x)  BY <2>1, Stays
    <2>3. PICK y \in AnyToken : y = q.used /\ IsIssued(y)
      BY <1>4 DEF GoodRequest, ClientRequest
    <2>4. IsIssued(y)'  BY <2>3, Stays
    <2> QED  BY <1>4, <2>1, <2>2, <2>3, <2>4 DEF GoodRequest
  <1> QED  BY <1>1, <1>2, <1>3, <1>4

LEMMA JarKept ==
    ASSUME TypeInv, SessionsStay, jar' = jar
    PROVE  GoodJar(jar)'
  <1>1. PICK j : j = jar  OBVIOUS
  <1> QED  BY <1>1, GoodRows, SessionStaysGood DEF SessionRows, GoodTabs, GoodFlights, GoodRequests

LEMMA TabKept ==
    ASSUME TypeInv, SessionsStay, NEW t \in Tab, tab'[t] = tab[t]
    PROVE  GoodTab(tab[t])'
  <1>1. PICK s : s = tab[t]  OBVIOUS
  <1> QED  BY <1>1, GoodRows, SessionStaysGood DEF SessionRows, GoodTabs, GoodFlights, GoodRequests

LEMMA FlightKept ==
    ASSUME TypeInv, SessionsStay, NEW t \in Tab, flight'[t] = flight[t]
    PROVE  GoodFlight(flight[t])'
  <1>1. PICK f : f = flight[t]  OBVIOUS
  <1> QED  BY <1>1, GoodRows, SessionStaysGood DEF SessionRows, GoodTabs, GoodFlights, GoodRequests

LEMMA RequestKept ==
    ASSUME TypeInv, SessionsStay, NEW r \in Slot, requests'[r] = requests[r]
    PROVE  GoodRequest(requests[r])'
  <1>1. PICK q : q = requests[r]  OBVIOUS
  <1> QED  BY <1>1, GoodRows, SessionStaysGood DEF SessionRows, GoodTabs, GoodFlights, GoodRequests

LEMMA TabsKept ==
    ASSUME TypeInv, SessionsStay, UNCHANGED tab
    PROVE  GoodTabs'
  BY TabKept, GoodRows DEF SessionRows, GoodTabs

LEMMA FlightsKept ==
    ASSUME TypeInv, SessionsStay, UNCHANGED flight
    PROVE  GoodFlights'
  BY FlightKept, GoodRows DEF SessionRows, GoodFlights

LEMMA RequestsKept ==
    ASSUME TypeInv, SessionsStay, UNCHANGED requests
    PROVE  GoodRequests'
  BY RequestKept, GoodRows DEF SessionRows, GoodRequests

\* One tab, flight or request is replaced by a good one.
LEMMA TabReplaced ==
    ASSUME TypeInv, SessionsStay, NEW t \in Tab, NEW s, GoodTab(s)',
           tab' = [tab EXCEPT ![t] = s]
    PROVE  GoodTabs'
  <1>1. s \in TabState  BY DEF GoodTab
  <1>2. tab' \in [Tab -> TabState]  BY <1>1, GoodRows DEF SessionRows, GoodTabs
  <1>3. ASSUME NEW u \in Tab PROVE GoodTab(tab[u])'
    <2>1. CASE u = t
      <3>1. tab'[u] = s  BY <2>1, GoodRows DEF SessionRows, GoodTabs
      <3> QED  BY <3>1
    <2>2. CASE u # t
      <3>1. tab'[u] = tab[u]  BY <2>2, GoodRows DEF SessionRows, GoodTabs
      <3> QED  BY <3>1, TabKept
    <2> QED  BY <2>1, <2>2
  <1> QED  BY <1>2, <1>3 DEF GoodTabs

LEMMA FlightReplaced ==
    ASSUME TypeInv, SessionsStay, NEW t \in Tab, NEW f, GoodFlight(f)',
           flight' = [flight EXCEPT ![t] = f]
    PROVE  GoodFlights'
  <1>1. f \in Flights  BY DEF GoodFlight
  <1>2. flight' \in [Tab -> Flights]  BY <1>1, GoodRows DEF SessionRows, GoodFlights
  <1>3. ASSUME NEW u \in Tab PROVE GoodFlight(flight[u])'
    <2>1. CASE u = t
      <3>1. flight'[u] = f  BY <2>1, GoodRows DEF SessionRows, GoodFlights
      <3> QED  BY <3>1
    <2>2. CASE u # t
      <3>1. flight'[u] = flight[u]  BY <2>2, GoodRows DEF SessionRows, GoodFlights
      <3> QED  BY <3>1, FlightKept
    <2> QED  BY <2>1, <2>2
  <1> QED  BY <1>2, <1>3 DEF GoodFlights

LEMMA RequestReplaced ==
    ASSUME TypeInv, SessionsStay, NEW r \in Slot, NEW q, GoodRequest(q)',
           requests' = [requests EXCEPT ![r] = q]
    PROVE  GoodRequests'
  <1>1. q \in ClientRequest  BY DEF GoodRequest
  <1>2. requests' \in [Slot -> ClientRequest]  BY <1>1, GoodRows DEF SessionRows, GoodRequests
  <1>3. ASSUME NEW p \in Slot PROVE GoodRequest(requests[p])'
    <2>1. CASE p = r
      <3>1. requests'[p] = q  BY <2>1, GoodRows DEF SessionRows, GoodRequests
      <3> QED  BY <3>1
    <2>2. CASE p # r
      <3>1. requests'[p] = requests[p]  BY <2>2, GoodRows DEF SessionRows, GoodRequests
      <3> QED  BY <3>1, RequestKept
    <2> QED  BY <2>1, <2>2
  <1> QED  BY <1>2, <1>3 DEF GoodRequests

-----------------------------------------------------------------------------
LEMMA SameSessions ==
    ASSUME TypeInv, UNCHANGED sessions
    PROVE  SessionsStay /\ GoodSessions'
  BY Unchanged, GoodRows DEF SessionRows, GoodSessions

LEMMA SameRest ==
    ASSUME TypeInv, UNCHANGED <<expired, replayed, overlapped, foreign>>
    PROVE  GoodRest'
  BY GoodRows DEF SessionRows, GoodRest

LEMMA RowsOfTypeInv ==
    ASSUME TypeInv
    PROVE  /\ GoodSessions /\ GoodRest /\ GoodJar(jar)
           /\ tab \in [Tab -> TabState] /\ \A t \in Tab : GoodTab(tab[t])
           /\ flight \in [Tab -> Flights] /\ \A t \in Tab : GoodFlight(flight[t])
           /\ requests \in [Slot -> ClientRequest]
           /\ \A r \in Slot : GoodRequest(requests[r])
  BY GoodRows DEF SessionRows, GoodTabs, GoodFlights, GoodRequests

LEMMA GoodEmpty ==
    ASSUME TypeInv, SessionsStay
    PROVE  /\ GoodRequest(NoRequest)' /\ GoodFlight(NoFlight)'
           /\ \A s : GoodTab(s) => GoodTab(Anonymous(s))'
  <1>1. GoodRequest(NoRequest)'
    BY NoRequestType, NoTokenIsNone DEF GoodRequest, NoRequest, IsIssued
  <1>2. GoodFlight(NoFlight)'
    BY NoFlightType, NoTokenIsNone DEF GoodFlight, NoFlight, IsIssued
  <1>3. ASSUME NEW s, GoodTab(s) PROVE GoodTab(Anonymous(s))'
    <2>0. s \in TabState  BY <1>3 DEF GoodTab
    <2>1. PICK a : a = [s EXCEPT !.phase = "anonymous", !.user = Nobody, !.access = NoToken]
      OBVIOUS
    <2>2. a \in TabState
      BY <2>0, <2>1, NoTokenIsNone DEF TabState
    <2>3. a.access = NoToken /\ a = Anonymous(s)
      BY <2>0, <2>1 DEF TabState, Anonymous
    <2>4. GoodTab(a)'  BY <2>2, <2>3, NoTokenIsNone DEF GoodTab, IsIssued
    <2> QED  BY <2>3, <2>4
  <1> QED  BY <1>1, <1>2, <1>3

\* The flight that starts.
LEMMA GoodSent ==
    ASSUME TypeInv, UNCHANGED sessions
    PROVE  GoodFlight(Sent(jar)) /\ GoodFlight([NoFlight EXCEPT !.step = "site"])
  <1>1. GoodFlight(Sent(jar))
    BY RowsOfTypeInv, NoTokenIsNone, ClientSessionAssumption
    DEF GoodJar, Cookies, GoodFlight, Flights, Sent, IsIssued
  <1>2. [NoFlight EXCEPT !.step = "site"] =
          [step |-> "site", cookie |-> NoToken, device |-> 0, token |-> NoToken]
    BY DEF NoFlight
  <1>3. GoodFlight([NoFlight EXCEPT !.step = "site"])
    BY <1>2, NoTokenIsNone, ClientSessionAssumption DEF GoodFlight, Flights, IsIssued
  <1> QED  BY <1>1, <1>3

LEMMA StartRefreshTyped ==
    ASSUME TypeInv, UNCHANGED sessions, NEW t \in Tab, StartRefresh(t)
    PROVE  GoodFlights' /\ overlapped' \in BOOLEAN
  <1> USE SameSessions, RowsOfTypeInv
  <1>1. CASE Refreshing(t)
    BY <1>1, FlightsKept DEF StartRefresh, GoodRest
  <1>2. CASE ~Refreshing(t)
    <2>1. PICK f : f = Sent(jar) /\ GoodFlight(f)  BY GoodSent
    <2>2. GoodFlight(f)'  BY <2>1, SessionStaysGood
    <2>3. flight' = [flight EXCEPT ![t] = f]  BY <1>2, <2>1 DEF StartRefresh
    <2>4. overlapped' \in BOOLEAN  BY <1>2 DEF StartRefresh
    <2> QED  BY <2>2, <2>3, <2>4, FlightReplaced
  <1> QED  BY <1>1, <1>2

LEMMA OpenTabTyped ==
    ASSUME TypeInv, NEW t \in Tab, OpenTab(t)
    PROVE  TypeInv'
  <1>1. SessionsStay /\ GoodSessions'  BY SameSessions DEF OpenTab
  <1>2. GoodRest'  BY RowsOfTypeInv DEF OpenTab, GoodRest
  <1>3. GoodJar(jar)'  BY <1>1, JarKept DEF OpenTab
  <1>4. GoodTabs'
    <2>1. PICK s : s = [phase |-> "loading", user |-> Nobody, access |-> NoToken]  OBVIOUS
    <2>2. GoodTab(s)'  BY <2>1, NoTokenIsNone DEF GoodTab, TabState, IsIssued
    <2> QED  BY <1>1, <2>1, <2>2, TabReplaced DEF OpenTab
  <1>5. GoodFlights'
    <2>1. PICK f : f = [NoFlight EXCEPT !.step = "site"] /\ GoodFlight(f)
      BY GoodSent DEF OpenTab
    <2>2. GoodFlight(f)'  BY <1>1, <2>1, SessionStaysGood
    <2> QED  BY <1>1, <2>1, <2>2, FlightReplaced DEF OpenTab
  <1>6. GoodRequests'
    <2>1. requests' = [r \in Slot |-> IF TabOf[r] = t THEN NoRequest ELSE requests[r]]
      BY DEF OpenTab
    <2>2. requests' \in [Slot -> ClientRequest]
      BY <2>1, NoRequestType, RowsOfTypeInv
    <2>3. ASSUME NEW r \in Slot PROVE GoodRequest(requests[r])'
      <3>1. CASE TabOf[r] = t
        <4>1. requests'[r] = NoRequest  BY <2>1, <3>1
        <4>2. GoodRequest(NoRequest)'  BY <1>1, GoodEmpty
        <4> QED  BY <4>1, <4>2
      <3>2. CASE TabOf[r] # t
        BY <1>1, <2>1, <3>2, RequestKept
      <3> QED  BY <3>1, <3>2
    <2> QED  BY <2>2, <2>3 DEF GoodRequests
  <1> QED  BY <1>1, <1>2, <1>3, <1>4, <1>5, <1>6, GoodRowsNext DEF SessionRows
-----------------------------------------------------------------------------
\* Requests that change without losing what they are about.
LEMMA GoodNext ==
    ASSUME NEW q, GoodRequest(q), NEW p \in ClientRequest,
           p.op = q.op, p.user = q.user, p.token = q.token, IsIssued(p.used),
           p.step = "ok" => q.op \notin {"login", "register"}
    PROVE  GoodRequest(p)
  BY DEF GoodRequest

LEMMA GoodAgain ==
    ASSUME NEW q, GoodRequest(q), NEW x \in AnyToken, IsIssued(x)
    PROVE  GoodRequest([q EXCEPT !.step = "sent", !.used = x, !.retry = TRUE])
  <1>1. PICK p : p = [q EXCEPT !.step = "sent", !.used = x, !.retry = TRUE]  OBVIOUS
  <1>2. q \in ClientRequest  BY DEF GoodRequest
  <1>3. p \in ClientRequest  BY <1>1, <1>2 DEF ClientRequest
  <1>4. p.op = q.op /\ p.user = q.user /\ p.token = q.token /\ p.step = "sent" /\ p.used = x
    BY <1>1, <1>2 DEF ClientRequest
  <1> QED  BY <1>1, <1>3, <1>4, GoodNext

LEMMA GoodStep ==
    ASSUME NEW q, GoodRequest(q), NEW s \in {"waiting", "ok", "refused"},
           s = "ok" => q.op \notin {"login", "register"}
    PROVE  GoodRequest([q EXCEPT !.step = s])
  <1>1. PICK p : p = [q EXCEPT !.step = s]  OBVIOUS
  <1>2. q \in ClientRequest  BY DEF GoodRequest
  <1>3. p \in ClientRequest  BY <1>1, <1>2 DEF ClientRequest
  <1>4. p.op = q.op /\ p.user = q.user /\ p.token = q.token /\ p.step = s /\ p.used = q.used
    BY <1>1, <1>2 DEF ClientRequest
  <1>5. IsIssued(p.used)  BY <1>4 DEF GoodRequest
  <1> QED  BY <1>1, <1>3, <1>4, <1>5, GoodNext

LEMMA RequestsGood ==
    ASSUME TypeInv, UNCHANGED sessions, NEW r \in Slot, NEW q, GoodRequest(q),
           requests' = [requests EXCEPT ![r] = q]
    PROVE  GoodRequests'
  <1>1. SessionsStay  BY SameSessions
  <1>2. GoodRequest(q)'  BY <1>1, SessionStaysGood
  <1> QED  BY <1>1, <1>2, RequestReplaced

LEMMA FinishTyped ==
    ASSUME TypeInv, UNCHANGED sessions, NEW r \in Slot, Finish(r)
    PROVE  GoodRequests'
  <1>1. SessionsStay  BY SameSessions
  <1>2. GoodRequest(NoRequest)'  BY <1>1, GoodEmpty
  <1> QED  BY <1>1, <1>2, RequestReplaced DEF Finish

LEMMA TabsGood ==
    ASSUME TypeInv, UNCHANGED sessions, NEW t \in Tab, NEW s, GoodTab(s),
           tab' = [tab EXCEPT ![t] = s]
    PROVE  GoodTabs'
  <1>1. SessionsStay  BY SameSessions
  <1>2. GoodTab(s)'  BY <1>1, SessionStaysGood
  <1> QED  BY <1>1, <1>2, TabReplaced

LEMMA AnonymousTyped ==
    ASSUME TypeInv, UNCHANGED sessions, NEW t \in Tab,
           tab' = [tab EXCEPT ![t] = Anonymous(@)] \/ UNCHANGED tab
    PROVE  GoodTabs'
  <1>1. SessionsStay  BY SameSessions
  <1>2. PICK s : s = tab[t] /\ GoodTab(s)  BY RowsOfTypeInv
  <1>3. GoodTab(Anonymous(s))'  BY <1>1, <1>2, GoodEmpty
  <1>4. PICK a : a = Anonymous(s)  OBVIOUS
  <1>5. GoodTab(a)'  BY <1>3, <1>4
  <1>6. CASE tab' = [tab EXCEPT ![t] = Anonymous(@)]
    <2>1. tab' = [tab EXCEPT ![t] = a]
      BY <1>2, <1>4, <1>6, RowsOfTypeInv
    <2> QED  BY <1>1, <1>5, <2>1, TabReplaced
  <1>7. CASE UNCHANGED tab  BY <1>1, <1>7, TabsKept
  <1> QED  BY <1>6, <1>7

LEMMA DropTyped ==
    ASSUME TypeInv, UNCHANGED sessions, NEW t \in Tab,
           requests' = [r \in Slot |-> IF r \in Waiting(t) THEN NoRequest ELSE requests[r]]
    PROVE  GoodRequests'
  <1>1. SessionsStay  BY SameSessions
  <1>2. requests' \in [Slot -> ClientRequest]  BY NoRequestType, RowsOfTypeInv
  <1>3. ASSUME NEW r \in Slot PROVE GoodRequest(requests[r])'
    <2>1. CASE r \in Waiting(t)
      <3>1. requests'[r] = NoRequest  BY <2>1
      <3>2. GoodRequest(NoRequest)'  BY <1>1, GoodEmpty
      <3> QED  BY <3>1, <3>2
    <2>2. CASE r \notin Waiting(t)  BY <1>1, <2>2, RequestKept
    <2> QED  BY <2>1, <2>2
  <1> QED  BY <1>2, <1>3 DEF GoodRequests

LEMMA ResentTyped ==
    ASSUME TypeInv, UNCHANGED sessions, NEW t \in Tab, NEW x \in AnyToken, IsIssued(x),
           requests' = Resent(t, x)
    PROVE  GoodRequests'
  <1>1. SessionsStay  BY SameSessions
  <1>2. ASSUME NEW r \in Slot
        PROVE  requests'[r] \in ClientRequest /\ GoodRequest(requests[r])'
    <2>1. PICK q : q = requests[r] /\ GoodRequest(q)  BY RowsOfTypeInv
    <2>2. CASE r \in Waiting(t)
      <3>1. PICK p : p = [q EXCEPT !.step = "sent", !.used = x, !.retry = TRUE]  OBVIOUS
      <3>2. requests'[r] = p  BY <2>1, <2>2, <3>1 DEF Resent
      <3>3. GoodRequest(p)  BY <2>1, <3>1, GoodAgain
      <3>4. GoodRequest(p)'  BY <1>1, <3>3, SessionStaysGood
      <3> QED  BY <3>2, <3>3, <3>4 DEF GoodRequest
    <2>3. CASE r \notin Waiting(t)
      <3>1. requests'[r] = requests[r]  BY <2>3 DEF Resent
      <3> QED  BY <1>1, <3>1, RequestKept, RowsOfTypeInv
    <2> QED  BY <2>2, <2>3
  <1>3. requests' \in [Slot -> ClientRequest]  BY <1>2 DEF Resent
  <1> QED  BY <1>2, <1>3 DEF GoodRequests

LEMMA RefusedFlight ==
    ASSUME TypeInv, SessionsStay, NEW t \in Tab,
           flight' = [flight EXCEPT ![t].step = "refused"]
    PROVE  GoodFlights'
  <1>1. PICK f : f = flight[t] /\ GoodFlight(f)  BY RowsOfTypeInv
  <1>2. PICK g : g = [f EXCEPT !.step = "refused"]  OBVIOUS
  <1>3. f \in Flights  BY <1>1 DEF GoodFlight
  <1>4. g \in Flights /\ g.cookie = f.cookie /\ g.token = f.token /\ g.step = "refused"
    BY <1>2, <1>3 DEF Flights
  <1>5. GoodFlight(g)  BY <1>1, <1>4 DEF GoodFlight
  <1>6. GoodFlight(g)'  BY <1>5, SessionStaysGood
  <1>7. flight' = [flight EXCEPT ![t] = g]  BY <1>1, <1>2, RowsOfTypeInv
  <1> QED  BY <1>6, <1>7, FlightReplaced

-----------------------------------------------------------------------------
LEMMA SiteArrivesTyped ==
    ASSUME TypeInv, NEW t \in Tab, SiteArrives(t)
    PROVE  TypeInv'
  <1>1. SessionsStay /\ GoodSessions'  BY SameSessions DEF SiteArrives
  <1>2. GoodFlights' /\ overlapped' \in BOOLEAN  BY StartRefreshTyped DEF SiteArrives
  <1>3. GoodRest'  BY <1>2, RowsOfTypeInv DEF SiteArrives, GoodRest
  <1>4. GoodJar(jar)' /\ GoodTabs' /\ GoodRequests'
    BY <1>1, JarKept, TabsKept, RequestsKept DEF SiteArrives
  <1> QED  BY <1>1, <1>2, <1>3, <1>4, GoodRowsNext DEF SessionRows

LEMMA ServerUnavailableTyped ==
    ASSUME TypeInv, NEW t \in Tab, ServerUnavailable(t)
    PROVE  TypeInv'
  <1>1. SessionsStay /\ GoodSessions'  BY SameSessions DEF ServerUnavailable
  <1>2. GoodFlights'  BY <1>1, RefusedFlight DEF ServerUnavailable
  <1>3. GoodRest'  BY SameRest DEF ServerUnavailable
  <1>4. GoodJar(jar)' /\ GoodTabs' /\ GoodRequests'
    BY <1>1, JarKept, TabsKept, RequestsKept DEF ServerUnavailable
  <1> QED  BY <1>1, <1>2, <1>3, <1>4, GoodRowsNext DEF SessionRows

LEMMA RefreshGrantedTyped ==
    ASSUME TypeInv, NEW t \in Tab, RefreshGranted(t)
    PROVE  TypeInv'
  <1>1. SessionsStay /\ GoodSessions'  BY SameSessions DEF RefreshGranted
  <1>2. GoodRest'  BY SameRest DEF RefreshGranted
  <1>3. PICK x \in AnyToken : x = flight[t].token /\ IsIssued(x)
    BY RowsOfTypeInv DEF GoodFlight, Flights
  <1>4. IsIssued(x)'  BY <1>1, <1>3, Stays
  <1>5. GoodJar(jar)'
    <2>1. jar' = [jar EXCEPT !.refresh = x] /\ jar \in Cookies
      BY <1>3, RowsOfTypeInv DEF RefreshGranted, GoodJar
    <2>2. jar' \in Cookies /\ jar'.refresh = x  BY <2>1 DEF Cookies
    <2> QED  BY <1>4, <2>2 DEF GoodJar
  <1>6. GoodTabs'
    <2>1. PICK s : s = tab[t] /\ GoodTab(s)  BY RowsOfTypeInv
    <2>2. Owner(x) \in User \cup {Nobody}
      BY <1>3, OwnerType DEF TypeInv
    <2>3. PICK a : a = IF s.phase = "loading" THEN Authenticated(s, Owner(x), x)
                       ELSE [s EXCEPT !.access = x]
      OBVIOUS
    <2>4. s \in TabState  BY <2>1 DEF GoodTab
    <2>5. a \in TabState /\ a.access = x
      BY <2>2, <2>3, <2>4 DEF TabState, Authenticated
    <2>6. GoodTab(a)'  BY <1>4, <2>5 DEF GoodTab
    <2>7. tab' = [tab EXCEPT ![t] = a]
      BY <1>3, <2>1, <2>3, RowsOfTypeInv DEF RefreshGranted
    <2> QED  BY <1>1, <2>6, <2>7, TabReplaced
  <1>7. GoodRequests'
    <2>1. requests' = Resent(t, x)  BY <1>3 DEF RefreshGranted
    <2>2. UNCHANGED sessions  BY DEF RefreshGranted
    <2> QED  BY <1>3, <2>1, <2>2, ResentTyped
  <1>8. GoodFlights'
    <2>1. GoodFlight(NoFlight)'  BY <1>1, GoodEmpty
    <2> QED  BY <1>1, <2>1, FlightReplaced DEF RefreshGranted
  <1> QED  BY <1>1, <1>2, <1>5, <1>6, <1>7, <1>8, GoodRowsNext DEF SessionRows

LEMMA RefreshRefusedTyped ==
    ASSUME TypeInv, NEW t \in Tab, RefreshRefused(t)
    PROVE  TypeInv'
  <1>0. UNCHANGED sessions  BY DEF RefreshRefused
  <1>1. SessionsStay /\ GoodSessions'  BY SameSessions DEF RefreshRefused
  <1>2. GoodRest'  BY SameRest DEF RefreshRefused
  <1>3. GoodJar(jar)'
    <2>1. CASE jar' = [jar EXCEPT !.refresh = NoToken]
      <3>1. jar' \in Cookies /\ jar'.refresh = NoToken
        BY <2>1, RowsOfTypeInv, NoTokenIsNone DEF GoodJar, Cookies
      <3> QED  BY <3>1, NoTokenIsNone DEF GoodJar, IsIssued
    <2>2. CASE jar' = jar  BY <1>1, <2>2, JarKept
    <2> QED  BY <2>1, <2>2 DEF RefreshRefused
  <1>4. GoodTabs'  BY <1>0, AnonymousTyped DEF RefreshRefused
  <1>5. GoodRequests'  BY <1>0, DropTyped DEF RefreshRefused
  <1>6. GoodFlights'
    <2>1. GoodFlight(NoFlight)'  BY <1>1, GoodEmpty
    <2> QED  BY <1>1, <2>1, FlightReplaced DEF RefreshRefused
  <1> QED  BY <1>1, <1>2, <1>3, <1>4, <1>5, <1>6, GoodRowsNext DEF SessionRows

LEMMA RefreshLostTyped ==
    ASSUME TypeInv, NEW t \in Tab, RefreshLost(t)
    PROVE  TypeInv'
  <1>0. UNCHANGED sessions  BY DEF RefreshLost
  <1>1. SessionsStay /\ GoodSessions'  BY SameSessions DEF RefreshLost
  <1>2. GoodRest'  BY RowsOfTypeInv DEF RefreshLost, GoodRest
  <1>3. GoodJar(jar)'  BY <1>1, JarKept DEF RefreshLost
  <1>4. GoodTabs'
    <2>1. tab' = [tab EXCEPT ![t] = Anonymous(@)] \/ UNCHANGED tab
      BY RowsOfTypeInv DEF RefreshLost
    <2> QED  BY <1>0, <2>1, AnonymousTyped
  <1>5. GoodRequests'  BY <1>0, DropTyped DEF RefreshLost
  <1>6. GoodFlights'
    <2>1. GoodFlight(NoFlight)'  BY <1>1, GoodEmpty
    <2> QED  BY <1>1, <2>1, FlightReplaced DEF RefreshLost
  <1> QED  BY <1>1, <1>2, <1>3, <1>4, <1>5, <1>6, GoodRowsNext DEF SessionRows
-----------------------------------------------------------------------------
\* A session that is revoked, or goes one generation on.
LEMMA SessionChanged ==
    ASSUME TypeInv, NEW i \in DOMAIN sessions, NEW row \in SessionRow,
           row.user = sessions[i].user, row.live => sessions[i].live,
           sessions' = [sessions EXCEPT ![i] = row]
    PROVE  SessionsStay /\ GoodSessions'
  <1>1. sessions \in Seq(SessionRow) /\ Len(sessions) <= MaxSessions
    BY RowsOfTypeInv DEF GoodSessions
  <1>2. DOMAIN sessions = 1 .. Len(sessions) /\ Len(sessions) \in Nat  BY <1>1
  <1>3. sessions' \in Seq(SessionRow) /\ Len(sessions') = Len(sessions)
    BY <1>1, <1>2
  <1>4. DOMAIN sessions' = DOMAIN sessions  OBVIOUS
  <1>5. ASSUME NEW k \in DOMAIN sessions
        PROVE  /\ sessions'[k].user = sessions[k].user
               /\ sessions'[k].live => sessions[k].live
    BY <1>4 
  <1> QED  BY <1>1, <1>3, <1>4, <1>5 DEF SessionsStay, GoodSessions

LEMMA RowOf ==
    ASSUME TypeInv, NEW i \in DOMAIN sessions
    PROVE  sessions[i] \in SessionRow
  BY RowsOfSessions DEF TypeInv

LEMMA SessionEnds ==
    ASSUME TypeInv, NEW i \in Nat,
           sessions' = [sessions EXCEPT ![i].live = FALSE]
    PROVE  SessionsStay /\ GoodSessions'
  <1>1. CASE i \in DOMAIN sessions
    <2>1. PICK row : row = [sessions[i] EXCEPT !.live = FALSE]  OBVIOUS
    <2>2. row \in SessionRow /\ row.user = sessions[i].user /\ row.live = FALSE
      BY <1>1, <2>1, RowOf DEF SessionRow
    <2>3. sessions' = [sessions EXCEPT ![i] = row]  BY <1>1, <2>1
    <2> QED  BY <1>1, <2>2, <2>3, SessionChanged
  <1>2. CASE i \notin DOMAIN sessions
    <2>1. sessions' = sessions
      BY <1>2, RowsOfTypeInv DEF GoodSessions
    <2> QED  BY <2>1, SameSessions
  <1> QED  BY <1>1, <1>2

LEMMA ServerRefreshesTyped ==
    ASSUME TypeInv, NEW t \in Tab, ServerRefreshes(t)
    PROVE  TypeInv' /\ SessionsStay
  <1> DEFINE i == flight[t].cookie.session
  <1>1. PICK f : f = flight[t] /\ GoodFlight(f)  BY RowsOfTypeInv
  <1>2. PICK c \in AnyToken : c = f.cookie /\ IsIssued(c)  BY <1>1 DEF GoodFlight, Flights
  <1>3. f \in Flights  BY <1>1 DEF GoodFlight
  <1>4. SessionsStay /\ GoodSessions' /\ GoodFlights'
    <2>1. CASE UNCHANGED sessions /\ flight' = [flight EXCEPT ![t].step = "refused"]
      BY <2>1, SameSessions, RefusedFlight
    <2>2. CASE /\ c # NoToken /\ sessions' = [sessions EXCEPT ![c.session].live = FALSE]
               /\ flight' = [flight EXCEPT ![t].step = "refused"]
      <3>1. c.session \in Nat
        BY <2>2, NoTokenIsNone, ClientSessionAssumption DEF Token
      <3>2. SessionsStay /\ GoodSessions'  BY <2>2, <3>1, SessionEnds
      <3> QED  BY <2>2, <3>2, RefusedFlight
    <2>3. CASE /\ c # NoToken /\ c.generation = sessions[c.session].generation
               /\ sessions[c.session].generation < MaxTokens
               /\ sessions' = [sessions EXCEPT ![c.session].generation = @ + 1]
               /\ flight' = [flight EXCEPT ![t].step = "granted",
                                ![t].token = [c EXCEPT !.generation = @ + 1]]
      <3>1. c \in Token /\ c.session \in DOMAIN sessions
        BY <1>2, <2>3, NoTokenIsNone DEF IsIssued
      <3>2. SessionsStay /\ GoodSessions'
        <4>1. PICK row : row = [sessions[c.session] EXCEPT !.generation = @ + 1]  OBVIOUS
        <4>2. sessions[c.session] \in SessionRow  BY <3>1, RowOf
        <4>3. /\ row \in SessionRow /\ row.user = sessions[c.session].user
              /\ row.live = sessions[c.session].live
          BY <2>3, <4>1, <4>2, ClientSessionAssumption DEF SessionRow
        <4>4. sessions' = [sessions EXCEPT ![c.session] = row]  BY <2>3, <3>1, <4>1
        <4> QED  BY <3>1, <4>3, <4>4, SessionChanged
      <3>3. PICK x : x = [c EXCEPT !.generation = @ + 1]  OBVIOUS
      <3>4. x \in Token /\ x.session = c.session
        BY <2>3, <3>1, <3>3, ClientSessionAssumption DEF Token
      <3>5. PICK g : g = [f EXCEPT !.step = "granted", !.token = x]  OBVIOUS
      <3>6. /\ g \in Flights /\ g.step = "granted" /\ g.cookie = f.cookie /\ g.token = x
        BY <1>3, <3>4, <3>5 DEF Flights, AnyToken
      <3>7. GoodFlight(g)
        BY <1>2, <3>1, <3>4, <3>6, NoTokenIsNone DEF GoodFlight, IsIssued
      <3>8. GoodFlight(g)'  BY <3>2, <3>7, SessionStaysGood
      <3>9. flight' = [flight EXCEPT ![t] = g]
        BY <1>1, <2>3, <3>3, <3>5, RowsOfTypeInv
      <3> QED  BY <3>2, <3>8, <3>9, FlightReplaced
    <2> QED  BY <1>1, <1>2, <2>1, <2>2, <2>3 DEF ServerRefreshes
  <1>5. GoodRest'  BY RowsOfTypeInv DEF ServerRefreshes, GoodRest
  <1>6. GoodJar(jar)' /\ GoodTabs' /\ GoodRequests'
    BY <1>4, JarKept, TabsKept, RequestsKept DEF ServerRefreshes
  <1> QED  BY <1>4, <1>5, <1>6, GoodRowsNext DEF SessionRows

LEMMA SendRequestTyped ==
    ASSUME TypeInv, NEW r \in Slot, NEW op, SendRequest(r, op)
    PROVE  TypeInv'
  <1>0. UNCHANGED sessions /\ TabOf[r] \in Tab
    BY ClientSessionAssumption DEF SendRequest
  <1>1. SessionsStay /\ GoodSessions'  BY <1>0, SameSessions
  <1>2. GoodRest'  BY SameRest DEF SendRequest
  <1>3. PICK x \in AnyToken : x = tab[TabOf[r]].access /\ IsIssued(x)
    BY <1>0, RowsOfTypeInv DEF TabState, GoodTab
  <1>4. PICK q : q = [NoRequest EXCEPT !.op = op, !.step = "sent", !.used = x]  OBVIOUS
  <1>5. /\ q \in ClientRequest /\ q.op \notin {"login", "verify"} /\ q.token = NoToken
        /\ q.step = "sent" /\ q.used = x
    BY <1>4, NoRequestType, NoTokenIsNone DEF SendRequest, NoRequest, ClientRequest
  <1>6. GoodRequest(q)  BY <1>3, <1>5, NoTokenIsNone DEF GoodRequest, IsIssued
  <1>7. requests' = [requests EXCEPT ![r] = q]
    BY <1>3, <1>4 DEF SendRequest
  <1>8. GoodRequests'  BY <1>0, <1>6, <1>7, RequestsGood
  <1>9. GoodJar(jar)' /\ GoodTabs' /\ GoodFlights'
    BY <1>1, JarKept, TabsKept, FlightsKept DEF SendRequest
  <1> QED  BY <1>1, <1>2, <1>8, <1>9, GoodRowsNext DEF SessionRows

LEMMA LoginTyped ==
    ASSUME TypeInv, NEW r \in Slot, NEW u \in User, Login(r, u)
    PROVE  TypeInv'
  <1>0. UNCHANGED sessions /\ TabOf[r] \in Tab
    BY ClientSessionAssumption DEF Login
  <1>1. SessionsStay /\ GoodSessions'  BY <1>0, SameSessions
  <1>2. GoodRest'  BY SameRest DEF Login
  <1>3. PICK x \in AnyToken : x = tab[TabOf[r]].access /\ IsIssued(x)
    BY <1>0, RowsOfTypeInv DEF TabState, GoodTab
  <1>3a. PICK d \in 0 .. MaxSessions : d = jar.device
    BY RowsOfTypeInv DEF GoodJar, Cookies
  <1>4. PICK q : q = [NoRequest EXCEPT !.op = "login", !.user = u, !.step = "sent",
                                       !.used = x, !.device = d]
    OBVIOUS
  <1>5. /\ q \in ClientRequest /\ q.op = "login" /\ q.token = NoToken /\ q.user = u
        /\ q.step = "sent" /\ q.used = x
    BY <1>4, NoRequestType, NoTokenIsNone DEF NoRequest, ClientRequest
  <1>6. GoodRequest(q)  BY <1>3, <1>5, NoTokenIsNone DEF GoodRequest, IsIssued
  <1>7. requests' = [requests EXCEPT ![r] = q]
    BY <1>3, <1>3a, <1>4 DEF Login
  <1>8. GoodRequests'  BY <1>0, <1>6, <1>7, RequestsGood
  <1>9. GoodJar(jar)' /\ GoodTabs' /\ GoodFlights'
    BY <1>1, JarKept, TabsKept, FlightsKept DEF Login
  <1> QED  BY <1>1, <1>2, <1>8, <1>9, GoodRowsNext DEF SessionRows

LEMMA ServerAnswersTyped ==
    ASSUME TypeInv, NEW r \in Slot, ServerAnswers(r)
    PROVE  TypeInv'
  <1>1. PICK q : q = requests[r] /\ GoodRequest(q)  BY RowsOfTypeInv
  <1>2. q.used \in AnyToken  BY <1>1 DEF GoodRequest, ClientRequest
  <1>3. q.used.session \in Nat
    BY <1>2, NoTokenIsNone, ClientSessionAssumption DEF AnyToken, Token, NoToken
  <1>4. SessionsStay /\ GoodSessions'
    <2>1. CASE UNCHANGED sessions  BY <2>1, SameSessions
    <2>2. CASE sessions' = [sessions EXCEPT ![q.used.session].live = FALSE]
      BY <1>3, <2>2, SessionEnds
    <2> QED  BY <1>1, <2>1, <2>2 DEF ServerAnswers
  <1>5. GoodRequests'
    <2>1. PICK s \in {"ok", "refused"}, u \in User \cup {Nobody} :
            /\ requests' = [requests EXCEPT ![r].step = s, ![r].user = u]
            /\ s = "ok" => u \in User
      <3>1. CASE Accepted(r)
        <4>1. q.used # NoToken  BY <1>1, <3>1 DEF Accepted
        <4>2. PICK x \in AnyToken : x = q.used /\ IsIssued(x)  BY <1>1, <1>2 DEF GoodRequest
        <4>3. Owner(x) \in User
          BY <4>1, <4>2, RowOf, NoTokenIsNone DEF Owner, IsIssued, SessionRow
        <4>4. /\ requests' = [requests EXCEPT ![r].step = "ok", ![r].user = Owner(q.used)]
          BY <1>1, <3>1 DEF ServerAnswers
        <4> QED  BY <4>2, <4>3, <4>4
      <3>2. CASE ~Accepted(r)
        <4>1. q.user \in User \cup {Nobody}  BY <1>1 DEF GoodRequest, ClientRequest
        <4>2. requests' = [requests EXCEPT ![r].step = "refused", ![r].user = q.user]
          BY <1>1, <3>2, RowsOfTypeInv DEF ServerAnswers
        <4> QED  BY <4>1, <4>2
      <3> QED  BY <3>1, <3>2
    <2>2. PICK p : p = [q EXCEPT !.step = s, !.user = u]  OBVIOUS
    <2>3. q.op \notin {"login", "verify"}  BY <1>1 DEF ServerAnswers
    <2>4. GoodRequest(p)
      <3>1. q \in ClientRequest  BY <1>1 DEF GoodRequest
      <3>2. /\ p \in ClientRequest /\ p.op = q.op /\ p.token = q.token /\ p.used = q.used
            /\ p.step = s /\ p.user = u
        BY <2>1, <2>2, <3>1 DEF ClientRequest
      <3> QED  BY <1>1, <2>1, <2>3, <3>2 DEF GoodRequest
    <2>5. GoodRequest(p)'  BY <1>4, <2>4, SessionStaysGood
    <2>6. requests' = [requests EXCEPT ![r] = p]
      BY <1>1, <2>1, <2>2, RowsOfTypeInv
    <2> QED  BY <1>4, <2>5, <2>6, RequestReplaced
  <1>6. GoodRest'  BY SameRest DEF ServerAnswers
  <1>7. GoodJar(jar)' /\ GoodTabs' /\ GoodFlights'
    BY <1>4, JarKept, TabsKept, FlightsKept DEF ServerAnswers
  <1> QED  BY <1>4, <1>5, <1>6, <1>7, GoodRowsNext DEF SessionRows

\* A login adds a session and ends some: those of its device, or of the user.
Ending(ends) ==
    [i \in 1 .. Len(sessions) |->
       IF i \in ends THEN [sessions[i] EXCEPT !.live = FALSE] ELSE sessions[i]]

LEMMA SessionAdded ==
    ASSUME TypeInv, NEW row \in SessionRow, NEW ends,
           Len(sessions) < MaxSessions, sessions' = Append(Ending(ends), row)
    PROVE  /\ SessionsStay /\ GoodSessions' /\ Len(sessions) \in Nat
           /\ DOMAIN sessions' = 1 .. Len(sessions) + 1
           /\ sessions'[Len(sessions) + 1] = row
           /\ \A i \in DOMAIN sessions : sessions'[i].generation = sessions[i].generation
  <1>1. sessions \in Seq(SessionRow) /\ DOMAIN sessions = 1 .. Len(sessions)
        /\ Len(sessions) \in Nat
    BY RowsOfTypeInv DEF GoodSessions
  <1>2. PICK old : old = Ending(ends)  OBVIOUS
  <1>3. \A i \in 1 .. Len(sessions) :
          /\ old[i] \in SessionRow /\ old[i].user = sessions[i].user
          /\ old[i].generation = sessions[i].generation
          /\ old[i].live => sessions[i].live
    <2> TAKE i \in 1 .. Len(sessions)
    <2>1. sessions[i] \in SessionRow  BY <1>1
    <2> QED  BY <1>2, <2>1 DEF SessionRow, Ending
  <1>4. old \in Seq(SessionRow) /\ Len(old) = Len(sessions)
        /\ DOMAIN old = 1 .. Len(sessions)
    BY <1>1, <1>2, <1>3 DEF Ending
  <1>5. sessions' = Append(old, row)  BY <1>2
  <1>6. /\ sessions' \in Seq(SessionRow) /\ Len(sessions') = Len(sessions) + 1
        /\ DOMAIN sessions' = 1 .. Len(sessions) + 1
        /\ sessions'[Len(sessions) + 1] = row
        /\ \A i \in 1 .. Len(sessions) : sessions'[i] = old[i]
    <2>1. PICK k : k = Len(sessions)  OBVIOUS
    <2>2. old \in Seq(SessionRow) /\ Len(old) = k /\ k \in Nat  BY <1>1, <1>4, <2>1
    <2>3. Append(old, row) \in Seq(SessionRow) /\ Len(Append(old, row)) = k + 1
      BY <2>2
    <2>4. Append(old, row)[k + 1] = row  BY <2>2
    <2>5. \A i \in 1 .. k : Append(old, row)[i] = old[i]  BY <2>2
    <2>6. DOMAIN Append(old, row) = 1 .. k + 1  BY <2>2, <2>3
    <2> QED  BY <1>5, <2>1, <2>3, <2>4, <2>5, <2>6
  <1>7. GoodSessions'
    BY <1>1, <1>6, ClientSessionAssumption DEF GoodSessions
  <1>8. \A i \in DOMAIN sessions : sessions'[i] = old[i]  BY <1>1, <1>6
  <1>9. SessionsStay
    BY <1>1, <1>3, <1>6, <1>8 DEF SessionsStay
  <1> QED  BY <1>1, <1>3, <1>6, <1>7, <1>8, <1>9

\* What a new session writes, value by value.
LEMMA NewSessionParts ==
    ASSUME TypeInv, NEW r \in Slot, NEW q, q = requests[r],
           NEW row \in SessionRow, NEW ends, NewSession(r, row, ends)
    PROVE  \E n \in 1 .. MaxSessions, x \in Token, p \in ClientRequest :
             /\ n = Len(sessions) + 1 /\ x.session = n /\ x.generation = 1
             /\ SessionsStay /\ GoodSessions'
             /\ DOMAIN sessions' = 1 .. n /\ sessions'[n] = row
             /\ \A i \in DOMAIN sessions : sessions'[i].generation = sessions[i].generation
             /\ requests' = [requests EXCEPT ![r] = p]
             /\ p.op = q.op /\ p.user = q.user /\ p.used = q.used
             /\ p.step = "ok" /\ p.token = x /\ p.device = row.device
  <1>1. Len(sessions) \in Nat /\ Len(sessions) < MaxSessions
    BY RowsOfTypeInv DEF GoodSessions, NewSession
  <1>2. PICK n \in 1 .. MaxSessions : n = Len(sessions) + 1
    BY <1>1, ClientSessionAssumption
  <1>3. PICK x \in Token : x = [session |-> n, generation |-> 1]
    <2>1. [session |-> n, generation |-> 1] \in Token
      BY ClientSessionAssumption DEF Token
    <2> QED  BY <2>1
  <1>4. PICK p : p = [q EXCEPT !.step = "ok", !.device = row.device, !.token = x]  OBVIOUS
  <1>5. q \in ClientRequest  BY RowsOfTypeInv
  <1>6. x \in AnyToken /\ row.device \in 0 .. MaxSessions
    BY ClientSessionAssumption DEF AnyToken, SessionRow
  <1>7. /\ p \in ClientRequest /\ p.op = q.op /\ p.user = q.user /\ p.used = q.used
        /\ p.step = "ok" /\ p.token = x /\ p.device = row.device
    BY <1>4, <1>5, <1>6 DEF ClientRequest
  <1>8. requests' = [requests EXCEPT ![r] = p]
    BY <1>2, <1>3, <1>4, RowsOfTypeInv DEF NewSession
  <1>9. sessions' = Append(Ending(ends), row)  BY DEF NewSession, Ending
  <1>10. /\ SessionsStay /\ GoodSessions'
         /\ DOMAIN sessions' = 1 .. n /\ sessions'[n] = row
         /\ \A i \in DOMAIN sessions : sessions'[i].generation = sessions[i].generation
    BY <1>1, <1>2, <1>9, SessionAdded
  <1> QED  BY <1>2, <1>3, <1>7, <1>8, <1>10

LEMMA NewSessionTyped ==
    ASSUME TypeInv, NEW r \in Slot, requests[r].op \in {"login", "verify"},
           NEW row \in SessionRow, row.user = requests[r].user, NEW ends,
           NewSession(r, row, ends)
    PROVE  SessionsStay /\ GoodSessions' /\ GoodRequests'
  <1>1. PICK q : q = requests[r] /\ GoodRequest(q)  BY RowsOfTypeInv
  <1>2. q \in ClientRequest /\ q.op \in {"login", "verify"} /\ q.user \in User
    BY <1>1 DEF GoodRequest
  <1>3. PICK n \in 1 .. MaxSessions, x \in Token, p \in ClientRequest :
             /\ x.session = n /\ SessionsStay /\ GoodSessions'
             /\ DOMAIN sessions' = 1 .. n /\ sessions'[n] = row
             /\ requests' = [requests EXCEPT ![r] = p]
             /\ p.op = q.op /\ p.user = q.user /\ p.used = q.used
             /\ p.step = "ok" /\ p.token = x
    BY <1>1, NewSessionParts
  <1>4. IsIssued(x)' /\ Owner(x)' = q.user
    BY <1>1, <1>3, NoTokenIsNone DEF IsIssued, Owner
  <1>5. IsIssued(q.used)'
    <2>1. PICK y \in AnyToken : y = q.used /\ IsIssued(y)
      BY <1>1, <1>2 DEF GoodRequest, ClientRequest
    <2>2. IsIssued(y)'  BY <1>3, <2>1, Stays
    <2> QED  BY <2>1, <2>2
  <1>6. GoodRequest(p)'
    BY <1>2, <1>3, <1>4, <1>5, NoTokenIsNone DEF GoodRequest
  <1> QED  BY <1>3, <1>6, RequestReplaced

\* What the server answers to a login or a registration: a new session, or none.
LEMMA SessionAnswers ==
    ASSUME TypeInv, NEW r \in Slot, ServerLogsIn(r) \/ ServerRegisters(r)
    PROVE  /\ UNCHANGED <<expired, jar, tab, flight, replayed, overlapped, foreign>>
           /\ \/ /\ UNCHANGED sessions
                 /\ \E s \in {"ok", "refused"} :
                      /\ requests' = [requests EXCEPT ![r].step = s]
                      /\ s = "ok" => requests[r].op = "verify"
              \/ /\ requests[r].op \in {"login", "verify"}
                 /\ \E row \in SessionRow, ends \in SUBSET Nat :
                      /\ row.user = requests[r].user /\ row.generation = 1
                      /\ NewSession(r, row, ends)
  <1>1. PICK q : q = requests[r] /\ GoodRequest(q)  BY RowsOfTypeInv
  <1>2. q \in ClientRequest /\ q.op \in {"login", "verify"} /\ q.user \in User
    BY <1>1 DEF GoodRequest, ServerLogsIn, ServerRegisters
  <1>3. Len(sessions) \in Nat /\ DOMAIN sessions \subseteq Nat
    BY RowsOfTypeInv DEF GoodSessions
  <1>4. ASSUME NEW d \in 1 .. MaxSessions, NEW b \in BOOLEAN, NEW ends \in SUBSET Nat,
               NewSession(r, RowFor(q.user, d, b), ends)
        PROVE  \E row \in SessionRow, e \in SUBSET Nat :
                 /\ row.user = requests[r].user /\ row.generation = 1
                 /\ NewSession(r, row, e)
    <2>1. PICK row : row = RowFor(q.user, d, b)  OBVIOUS
    <2>2. row \in SessionRow /\ row.user = q.user /\ row.generation = 1
      BY <1>2, <2>1, ClientSessionAssumption DEF RowFor, SessionRow
    <2> QED  BY <1>1, <1>4, <2>1, <2>2
  <1>5. CASE ServerLogsIn(r)
    <2> DEFINE own == IF q.device # 0 /\ sessions[q.device].user = q.user
                      THEN q.device ELSE Len(sessions) + 1
               others == {i \in DOMAIN sessions : sessions[i].device = own}
    <2>1. \/ requests' = [requests EXCEPT ![r].step = "refused"] /\ UNCHANGED sessions
          \/ \E b \in BOOLEAN : NewSession(r, RowFor(q.user, own, b), others)
      BY <1>1, <1>5 DEF ServerLogsIn
    <2>2. ASSUME NEW b \in BOOLEAN, NewSession(r, RowFor(q.user, own, b), others)
          PROVE  \E row \in SessionRow, e \in SUBSET Nat :
                   /\ row.user = requests[r].user /\ row.generation = 1
                   /\ NewSession(r, row, e)
      <3>1. Len(sessions) < MaxSessions  BY <2>2 DEF NewSession
      <3>2. PICK d \in 1 .. MaxSessions : d = own
        BY <1>2, <1>3, <3>1, ClientSessionAssumption DEF ClientRequest
      <3>3. PICK ends \in SUBSET Nat : ends = others  BY <1>3
      <3>4. NewSession(r, RowFor(q.user, d, b), ends)  BY <2>2, <3>2, <3>3
      <3> QED  BY <1>4, <3>4
    <2>3. /\ q.op = "login"
          /\ UNCHANGED <<expired, jar, tab, flight, replayed, overlapped, foreign>>
      BY <1>1, <1>5 DEF ServerLogsIn
    <2> HIDE DEF own, others
    <2> QED  BY <1>1, <2>1, <2>2, <2>3
  <1>6. CASE ServerRegisters(r)
    <2> DEFINE others == {i \in DOMAIN sessions : sessions[i].user = q.user}
               old == sessions[q.used.session].device
    <2>1. \/ requests' = [requests EXCEPT ![r].step = "refused"] /\ UNCHANGED sessions
          \/ requests' = [requests EXCEPT ![r].step = "ok"] /\ UNCHANGED sessions
          \/ Accepted(r) /\ NewSession(r, RowFor(q.user, old, FALSE), others)
      BY <1>1, <1>6 DEF ServerRegisters
    <2>2. ASSUME Accepted(r), NewSession(r, RowFor(q.user, old, FALSE), others)
          PROVE  \E row \in SessionRow, e \in SUBSET Nat :
                   /\ row.user = requests[r].user /\ row.generation = 1
                   /\ NewSession(r, row, e)
      <3>1. PICK x \in AnyToken : x = q.used /\ IsIssued(x)
        BY <1>1, <1>2 DEF GoodRequest, ClientRequest
      <3>2. x.session \in DOMAIN sessions
        BY <1>1, <2>2, <3>1 DEF Accepted, IsIssued
      <3>3. PICK d \in 1 .. MaxSessions : d = old
        BY <3>1, <3>2, RowOf DEF SessionRow
      <3>4. PICK ends \in SUBSET Nat : ends = others  BY <1>3
      <3>5. NewSession(r, RowFor(q.user, d, FALSE), ends)  BY <2>2, <3>3, <3>4
      <3> QED  BY <1>4, <3>5
    <2>3. /\ q.op = "verify"
          /\ UNCHANGED <<expired, jar, tab, flight, replayed, overlapped, foreign>>
      BY <1>1, <1>6 DEF ServerRegisters
    <2> HIDE DEF old, others
    <2> QED  BY <1>1, <2>1, <2>2, <2>3
  <1> QED  BY <1>5, <1>6

LEMMA SessionAnswersTyped ==
    ASSUME TypeInv, NEW r \in Slot, ServerLogsIn(r) \/ ServerRegisters(r)
    PROVE  TypeInv' /\ SessionsStay
  <1>1. SessionsStay /\ GoodSessions' /\ GoodRequests'
    <2>1. ASSUME UNCHANGED sessions, NEW s \in {"ok", "refused"},
                 requests' = [requests EXCEPT ![r].step = s],
                 s = "ok" => requests[r].op = "verify"
          PROVE  SessionsStay /\ GoodSessions' /\ GoodRequests'
      <3>1. PICK q : q = requests[r] /\ GoodRequest(q)  BY RowsOfTypeInv
      <3>2. PICK p : p = [q EXCEPT !.step = s]  OBVIOUS
      <3>3. GoodRequest(p)  BY <2>1, <3>1, <3>2, GoodStep
      <3>4. requests' = [requests EXCEPT ![r] = p]
        BY <2>1, <3>1, <3>2, RowsOfTypeInv
      <3> QED  BY <2>1, <3>3, <3>4, RequestsGood, SameSessions
    <2>2. ASSUME requests[r].op \in {"login", "verify"}, NEW row \in SessionRow,
                 NEW ends \in SUBSET Nat, row.user = requests[r].user,
                 NewSession(r, row, ends)
          PROVE  SessionsStay /\ GoodSessions' /\ GoodRequests'
      BY <2>2, NewSessionTyped
    <2> QED  BY <2>1, <2>2, SessionAnswers
  <1>2. GoodRest'  BY SessionAnswers, SameRest
  <1>3. GoodJar(jar)' /\ GoodTabs' /\ GoodFlights'
    BY <1>1, SessionAnswers, JarKept, TabsKept, FlightsKept
  <1> QED  BY <1>1, <1>2, <1>3, GoodRowsNext DEF SessionRows

LEMMA SucceedsTyped ==
    ASSUME TypeInv, NEW r \in Slot, Succeeds(r)
    PROVE  TypeInv'
  <1>0. UNCHANGED sessions /\ TabOf[r] \in Tab
    BY ClientSessionAssumption DEF Succeeds
  <1>1. SessionsStay /\ GoodSessions'  BY <1>0, SameSessions
  <1>2. GoodRest'  BY SameRest DEF Succeeds
  <1>3. GoodRequests'
    <2>1. CASE Finish(r)  BY <1>0, <2>1, FinishTyped
    <2>2. ASSUME NEW op \in {"exit", "verify"}, NEW u \in User \cup {Nobody},
                 op = "verify" => u \in User,
                 requests' = [requests EXCEPT
                   ![r] = [NoRequest EXCEPT !.op = op, !.user = u, !.step = "sent",
                                            !.used = tab[TabOf[r]].access]]
          PROVE  GoodRequests'
      <3>1. PICK x \in AnyToken : x = tab[TabOf[r]].access /\ IsIssued(x)
        BY <1>0, RowsOfTypeInv DEF TabState, GoodTab
      <3>2. PICK q : q = [NoRequest EXCEPT !.op = op, !.user = u, !.step = "sent",
                                           !.used = x]
        OBVIOUS
      <3>3. /\ q \in ClientRequest /\ q.op = op /\ q.user = u /\ q.step = "sent"
            /\ q.token = NoToken /\ q.used = x
        BY <3>2, NoRequestType, NoTokenIsNone DEF NoRequest, ClientRequest
      <3>4. GoodRequest(q)  BY <2>2, <3>1, <3>3, NoTokenIsNone DEF GoodRequest, IsIssued
      <3>5. requests' = [requests EXCEPT ![r] = q]
        BY <2>2, <3>1, <3>2
      <3> QED  BY <1>0, <3>4, <3>5, RequestsGood
    <2>3. CASE requests[r].op = "revoke"  BY <2>2, <2>3 DEF Succeeds
    <2>4. CASE requests[r].op = "register"
      <3>1. PICK u : u = requests[r].user /\ u \in User
        BY <2>4, RowsOfTypeInv DEF GoodRequest, Succeeds
      <3> QED  BY <2>2, <2>4, <3>1 DEF Succeeds
    <2> QED  BY <2>1, <2>3, <2>4 DEF Succeeds
  <1>4. GoodJar(jar)' /\ GoodTabs' /\ GoodFlights'
    BY <1>1, JarKept, TabsKept, FlightsKept DEF Succeeds
  <1> QED  BY <1>1, <1>2, <1>3, <1>4, GoodRowsNext DEF SessionRows

LEMMA ProfileArrivesTyped ==
    ASSUME TypeInv, NEW r \in Slot, ProfileArrives(r)
    PROVE  TypeInv'
  <1>0. UNCHANGED sessions /\ TabOf[r] \in Tab
    BY ClientSessionAssumption DEF ProfileArrives
  <1>1. SessionsStay /\ GoodSessions'  BY <1>0, SameSessions
  <1>2. GoodRest'  BY RowsOfTypeInv DEF ProfileArrives, GoodRest
  <1>3. GoodRequests'  BY <1>0, FinishTyped DEF ProfileArrives
  <1>4. GoodTabs'
    <2>1. PICK u \in User \cup {Nobody} : u = requests[r].user
      BY RowsOfTypeInv DEF ClientRequest
    <2>2. PICK t \in Tab : t = TabOf[r]  BY <1>0
    <2>3. PICK s : s = tab[t] /\ GoodTab(s)  BY RowsOfTypeInv
    <2>4. PICK a : a = [s EXCEPT !.user = u]  OBVIOUS
    <2>5. s \in TabState /\ IsIssued(s.access)  BY <2>3 DEF GoodTab
    <2>6. a \in TabState /\ a.access = s.access  BY <2>4, <2>5 DEF TabState
    <2>7. GoodTab(a)  BY <2>5, <2>6 DEF GoodTab
    <2>8. tab' = [tab EXCEPT ![t] = a]
      BY <2>1, <2>2, <2>3, <2>4, RowsOfTypeInv DEF ProfileArrives
    <2> QED  BY <1>0, <2>7, <2>8, TabsGood
  <1>5. GoodJar(jar)' /\ GoodFlights'  BY <1>1, JarKept, FlightsKept DEF ProfileArrives
  <1> QED  BY <1>1, <1>2, <1>3, <1>4, <1>5, GoodRowsNext DEF SessionRows

\* An answer that logs in: a login, or the registration that ends a recovery.
LEMMA LogsInTyped ==
    ASSUME TypeInv, UNCHANGED sessions, NEW r \in Slot, NEW d \in 0 .. MaxSessions,
           requests[r].user \in User,
           jar' = [refresh |-> requests[r].token, device |-> d],
           tab' = [tab EXCEPT ![TabOf[r]] =
                     Authenticated(@, requests[r].user, requests[r].token)]
    PROVE  GoodJar(jar)' /\ GoodTabs'
  <1>1. SessionsStay /\ TabOf[r] \in Tab  BY SameSessions, ClientSessionAssumption
  <1>4. PICK q : q = requests[r] /\ GoodRequest(q)  BY RowsOfTypeInv
  <1>5. q \in ClientRequest /\ q.user \in User /\ IsIssued(q.token)
    BY <1>4 DEF GoodRequest
  <1>6. PICK x \in AnyToken : x = q.token  BY <1>5 DEF ClientRequest
  <1>7. IsIssued(x)'  BY <1>1, <1>5, <1>6, Stays
  <1>8. GoodJar(jar)'
    <2>1. jar' = [refresh |-> x, device |-> d]  BY <1>4, <1>6
    <2> QED  BY <1>7, <2>1 DEF GoodJar, Cookies
  <1>9. GoodTabs'
    <2>1. PICK s : s = tab[TabOf[r]] /\ GoodTab(s)  BY <1>1, RowsOfTypeInv
    <2>2. PICK a : a = Authenticated(s, q.user, x)  OBVIOUS
    <2>3. s \in TabState  BY <2>1 DEF GoodTab
    <2>4. a \in TabState /\ a.access = x
      BY <1>5, <2>2, <2>3 DEF TabState, Authenticated
    <2>5. GoodTab(a)'  BY <1>7, <2>4 DEF GoodTab
    <2>6. tab' = [tab EXCEPT ![TabOf[r]] = a]
      BY <1>1, <1>4, <1>6, <2>1, <2>2, RowsOfTypeInv
    <2>7. PICK t \in Tab : t = TabOf[r]  BY <1>1
    <2> QED  BY <1>1, <2>5, <2>6, <2>7, TabReplaced
  <1> QED  BY <1>8, <1>9

LEMMA LoginSucceedsTyped ==
    ASSUME TypeInv, NEW r \in Slot, LoginSucceeds(r)
    PROVE  TypeInv'
  <1>0. UNCHANGED sessions  BY DEF LoginSucceeds
  <1>1. SessionsStay /\ GoodSessions'  BY <1>0, SameSessions
  <1>2. GoodRest'  BY RowsOfTypeInv DEF LoginSucceeds, GoodRest
  <1>3. GoodRequests'  BY <1>0, FinishTyped DEF LoginSucceeds
  <1>4. PICK d \in 0 .. MaxSessions : d = requests[r].device
    BY RowsOfTypeInv DEF ClientRequest
  <1>5. requests[r].user \in User  BY RowsOfTypeInv DEF GoodRequest, LoginSucceeds
  <1>6. GoodJar(jar)' /\ GoodTabs'
    <2>1. /\ jar' = [refresh |-> requests[r].token, device |-> d]
          /\ tab' = [tab EXCEPT ![TabOf[r]] =
                       Authenticated(@, requests[r].user, requests[r].token)]
      BY <1>4 DEF LoginSucceeds
    <2> QED  BY <1>0, <1>5, <2>1, LogsInTyped
  <1>7. GoodFlights'  BY <1>1, FlightsKept DEF LoginSucceeds
  <1> QED  BY <1>1, <1>2, <1>3, <1>6, <1>7, GoodRowsNext DEF SessionRows

LEMMA RegisteredTyped ==
    ASSUME TypeInv, NEW r \in Slot, Registered(r)
    PROVE  TypeInv'
  <1>0. UNCHANGED sessions  BY DEF Registered
  <1>1. SessionsStay /\ GoodSessions'  BY <1>0, SameSessions
  <1>2. GoodRest'  BY RowsOfTypeInv DEF Registered, GoodRest
  <1>3. GoodRequests'  BY <1>0, FinishTyped DEF Registered
  <1>4. PICK d \in 0 .. MaxSessions : d = jar.device
    BY RowsOfTypeInv DEF GoodJar, Cookies
  <1>5. requests[r].user \in User  BY RowsOfTypeInv DEF GoodRequest, Registered
  <1>6. GoodJar(jar)' /\ GoodTabs'
    <2>1. CASE UNCHANGED <<jar, tab>>  BY <1>1, <2>1, JarKept, TabsKept
    <2>2. CASE ~UNCHANGED <<jar, tab>>
      <3>1. jar' = [refresh |-> requests[r].token, device |-> d]
        BY <1>4, <2>2, RowsOfTypeInv DEF Registered, GoodJar, Cookies
      <3>2. tab' = [tab EXCEPT ![TabOf[r]] =
                      Authenticated(@, requests[r].user, requests[r].token)]
        BY <2>2 DEF Registered
      <3> QED  BY <1>0, <1>5, <3>1, <3>2, LogsInTyped
    <2> QED  BY <2>1, <2>2
  <1>7. GoodFlights'  BY <1>1, FlightsKept DEF Registered
  <1> QED  BY <1>1, <1>2, <1>3, <1>6, <1>7, GoodRowsNext DEF SessionRows

\* What a request that ends can do to its tab.
LEMMA ClearedTyped ==
    ASSUME TypeInv, NEW r \in Slot, UNCHANGED sessions,
           tab' = [tab EXCEPT ![TabOf[r]] = Anonymous(@)] \/ UNCHANGED tab
    PROVE  GoodTabs'
  <1>1. PICK t \in Tab : t = TabOf[r]  BY ClientSessionAssumption
  <1>2. tab' = [tab EXCEPT ![t] = Anonymous(@)] \/ UNCHANGED tab  BY <1>1
  <1> QED  BY <1>2, AnonymousTyped

LEMMA LogsOutTyped ==
    ASSUME TypeInv, NEW r \in Slot, LogsOut(r)
    PROVE  TypeInv'
  <1>0. UNCHANGED sessions  BY DEF LogsOut
  <1>1. SessionsStay /\ GoodSessions'  BY <1>0, SameSessions
  <1>2. GoodRest'  BY SameRest DEF LogsOut
  <1>3. GoodRequests'  BY <1>0, FinishTyped DEF LogsOut
  <1>4. GoodTabs'  BY <1>0, ClearedTyped DEF LogsOut
  <1>5. GoodJar(jar)'
    <2>1. jar' \in Cookies /\ jar'.refresh = NoToken
      BY RowsOfTypeInv, NoTokenIsNone DEF LogsOut, GoodJar, Cookies
    <2> QED  BY <2>1, NoTokenIsNone DEF GoodJar, IsIssued
  <1>6. GoodFlights'  BY <1>1, FlightsKept DEF LogsOut
  <1> QED  BY <1>1, <1>2, <1>3, <1>4, <1>5, <1>6, GoodRowsNext DEF SessionRows

LEMMA RefusedTyped ==
    ASSUME TypeInv, NEW r \in Slot, Refused(r)
    PROVE  TypeInv'
  <1>0. UNCHANGED sessions /\ TabOf[r] \in Tab
    BY ClientSessionAssumption DEF Refused
  <1>1. SessionsStay /\ GoodSessions'  BY <1>0, SameSessions
  <1>2. PICK t \in Tab : t = TabOf[r]  BY <1>0
  <1>3. PICK q : q = requests[r] /\ GoodRequest(q)  BY RowsOfTypeInv
  <1>4. GoodFlights' /\ overlapped' \in BOOLEAN
    <2>1. CASE StartRefresh(t)  BY <1>0, <2>1, StartRefreshTyped
    <2>2. CASE UNCHANGED <<flight, overlapped>>
      BY <1>1, <2>2, FlightsKept, RowsOfTypeInv DEF GoodRest
    <2> QED  BY <1>2, <2>1, <2>2 DEF Refused
  <1>5. GoodRest'  BY <1>4, RowsOfTypeInv DEF Refused, GoodRest
  <1>6. GoodRequests'
    <2>1. CASE requests' = [requests EXCEPT ![r].step = "waiting"]
      <3>1. PICK p : p = [q EXCEPT !.step = "waiting"]  OBVIOUS
      <3>2. GoodRequest(p)  BY <1>3, <3>1, GoodStep
      <3>3. requests' = [requests EXCEPT ![r] = p]
        BY <1>3, <2>1, <3>1, RowsOfTypeInv
      <3> QED  BY <1>0, <3>2, <3>3, RequestsGood
    <2>2. CASE requests' = [requests EXCEPT ![r].step = "sent", ![r].retry = TRUE,
                                            ![r].used = tab[t].access]
      <3>1. PICK x \in AnyToken : x = tab[t].access /\ IsIssued(x)
        BY RowsOfTypeInv DEF TabState, GoodTab
      <3>2. PICK p : p = [q EXCEPT !.step = "sent", !.used = x, !.retry = TRUE]  OBVIOUS
      <3>3. GoodRequest(p)  BY <1>3, <3>1, <3>2, GoodAgain
      <3>4. requests' = [requests EXCEPT ![r] = p]
        <4>1. requests' = [requests EXCEPT ![r] = [q EXCEPT !.step = "sent", !.retry = TRUE,
                                                            !.used = x]]
          BY <1>3, <2>2, <3>1, RowsOfTypeInv
        <4>2. [q EXCEPT !.step = "sent", !.retry = TRUE, !.used = x] = p
          <5>1. q \in ClientRequest  BY <1>3 DEF GoodRequest
          <5> QED  BY <3>2, <5>1 DEF ClientRequest
        <4> QED  BY <4>1, <4>2
      <3> QED  BY <1>0, <3>3, <3>4, RequestsGood
    <2> QED  BY <1>2, <2>1, <2>2 DEF Refused
  <1>7. GoodJar(jar)' /\ GoodTabs'  BY <1>1, JarKept, TabsKept DEF Refused
  <1> QED  BY <1>1, <1>4, <1>5, <1>6, <1>7, GoodRowsNext DEF SessionRows

LEMMA RefusedAgainTyped ==
    ASSUME TypeInv, NEW r \in Slot, RefusedAgain(r)
    PROVE  TypeInv'
  <1>0. UNCHANGED sessions /\ TabOf[r] \in Tab
    BY ClientSessionAssumption DEF RefusedAgain
  <1>1. SessionsStay /\ GoodSessions'  BY <1>0, SameSessions
  <1>2. GoodRest'  BY SameRest DEF RefusedAgain
  <1>3. GoodRequests'  BY <1>0, FinishTyped DEF RefusedAgain
  <1>4. GoodTabs'
    <2>1. tab' = [tab EXCEPT ![TabOf[r]] = Anonymous(@)] \/ UNCHANGED tab
      BY <1>0, RowsOfTypeInv DEF RefusedAgain
    <2> QED  BY <1>0, <2>1, ClearedTyped
  <1>5. GoodJar(jar)' /\ GoodFlights'  BY <1>1, JarKept, FlightsKept DEF RefusedAgain
  <1> QED  BY <1>1, <1>2, <1>3, <1>4, <1>5, GoodRowsNext DEF SessionRows

LEMMA LostTyped ==
    ASSUME TypeInv, NEW r \in Slot, Lost(r)
    PROVE  TypeInv'
  <1>0. UNCHANGED sessions  BY DEF Lost
  <1>1. SessionsStay /\ GoodSessions'  BY <1>0, SameSessions
  <1>2. GoodRest'  BY SameRest DEF Lost
  <1>3. GoodRequests'  BY <1>0, FinishTyped DEF Lost
  <1>4. GoodTabs'  BY <1>0, ClearedTyped DEF Lost
  <1>5. GoodJar(jar)' /\ GoodFlights'  BY <1>1, JarKept, FlightsKept DEF Lost
  <1> QED  BY <1>1, <1>2, <1>3, <1>4, <1>5, GoodRowsNext DEF SessionRows

LEMMA ExpiresTyped ==
    ASSUME TypeInv, NEW token \in Token, Expires(token)
    PROVE  TypeInv'
  <1>1. SessionsStay /\ GoodSessions'  BY SameSessions DEF Expires
  <1>2. GoodRest'  BY RowsOfTypeInv DEF Expires, GoodRest
  <1>3. GoodJar(jar)' /\ GoodTabs' /\ GoodFlights' /\ GoodRequests'
    BY <1>1, JarKept, TabsKept, FlightsKept, RequestsKept DEF Expires
  <1> QED  BY <1>1, <1>2, <1>3, GoodRowsNext DEF SessionRows

LEMMA RevokedTyped ==
    ASSUME TypeInv, NEW s \in 1 .. MaxSessions, Revoked(s)
    PROVE  TypeInv'
  <1>1. SessionsStay /\ GoodSessions'
    <2>1. s \in Nat  BY ClientSessionAssumption
    <2> QED  BY <2>1, SessionEnds DEF Revoked
  <1>2. GoodRest'  BY SameRest DEF Revoked
  <1>3. GoodJar(jar)' /\ GoodTabs' /\ GoodFlights' /\ GoodRequests'
    BY <1>1, JarKept, TabsKept, FlightsKept, RequestsKept DEF Revoked
  <1> QED  BY <1>1, <1>2, <1>3, GoodRowsNext DEF SessionRows

LEMMA StutterTyped ==
    ASSUME TypeInv, UNCHANGED sessionVars
    PROVE  TypeInv'
  <1>1. SessionsStay /\ GoodSessions'  BY SameSessions DEF sessionVars
  <1>2. GoodRest'  BY SameRest DEF sessionVars
  <1>3. GoodJar(jar)' /\ GoodTabs' /\ GoodFlights' /\ GoodRequests'
    BY <1>1, JarKept, TabsKept, FlightsKept, RequestsKept DEF sessionVars
  <1> QED  BY <1>1, <1>2, <1>3, GoodRowsNext DEF SessionRows

LEMMA NextTyped ==
    ASSUME TypeInv, [SessionNext]_sessionVars
    PROVE  TypeInv'
  <1>1. ASSUME NEW t \in Tab, Refreshes(t) \/ RefreshLost(t) \/ OpenTab(t)
        PROVE  TypeInv'
    BY <1>1, SiteArrivesTyped, ServerRefreshesTyped, ServerUnavailableTyped,
       RefreshGrantedTyped, RefreshRefusedTyped, RefreshLostTyped, OpenTabTyped
    DEF Refreshes
  <1>2. ASSUME NEW r \in Slot, Answers(r) \/ Lost(r)
        PROVE  TypeInv'
    BY <1>2, ServerAnswersTyped, SessionAnswersTyped, SucceedsTyped,
       ProfileArrivesTyped, LoginSucceedsTyped, RegisteredTyped, LogsOutTyped,
       RefusedTyped, RefusedAgainTyped, LostTyped
    DEF Answers
  <1>3. ASSUME NEW r \in Slot, NEW op, SendRequest(r, op)
        PROVE  TypeInv'
    BY <1>3, SendRequestTyped
  <1>4. ASSUME NEW r \in Slot, NEW u \in User, Login(r, u)
        PROVE  TypeInv'
    BY <1>4, LoginTyped
  <1>5. ASSUME NEW token \in Token, Expires(token) PROVE TypeInv'
    BY <1>5, ExpiresTyped
  <1>6. ASSUME NEW s \in 1 .. MaxSessions, Revoked(s) PROVE TypeInv'
    BY <1>6, RevokedTyped
  <1>7. CASE UNCHANGED sessionVars  BY <1>7, StutterTyped
  <1> QED  BY <1>1, <1>2, <1>3, <1>4, <1>5, <1>6, <1>7 DEF SessionNext

\* The state of tabs, flights, requests and sessions has its type; every token somebody
\* has is of a session that exists, a granted refresh is of the session of its cookie,
\* and the token of a login is one of the user who logged in.
THEOREM SessionTypeCorrect == SessionSpec => []TypeInv
  BY InitTypeInv, NextTyped, PTL DEF SessionSpec

-----------------------------------------------------------------------------
(* Nothing waits for a refresh that is over.                               *)

\* WaitsForARefresh, request by request.
Waits ==
    /\ \A r \in Slot : requests[r].step = "waiting" => Refreshing(TabOf[r])
    /\ \A t \in Tab : tab[t].phase = "loading" => flight[t].step # "none"

LEMMA WaitsEach == Waits <=> WaitsForARefresh
  BY ClientSessionAssumption DEF Waits, WaitsForARefresh, Waiting

LEMMA WaitsNext == Waits' => WaitsForARefresh'
  BY WaitsEach, PTL

\* The flights of the other tabs stay, and a refresh has begun.
LEMMA RefreshStarted ==
    ASSUME TypeInv, NEW t \in Tab, StartRefresh(t)
    PROVE  /\ Refreshing(t)'
           /\ \A u \in Tab : Refreshing(u) => Refreshing(u)'
           /\ \A u \in Tab : flight[u].step # "none" => flight'[u].step # "none"
  BY RowsOfTypeInv DEF StartRefresh, Refreshing, Sent

\* What becomes of the fields of a tab and of a request.
LEMMA TabFields ==
    ASSUME NEW s \in TabState, NEW u, NEW x
    PROVE  /\ Anonymous(s).phase = "anonymous"
           /\ Authenticated(s, u, x).phase = "authenticated"
           /\ Authenticated(s, u, x).user = u /\ Authenticated(s, u, x).access = x
           /\ [s EXCEPT !.access = x].phase = s.phase
           /\ [s EXCEPT !.access = x].user = s.user
           /\ [s EXCEPT !.access = x].access = x
  <1>1. [s EXCEPT !.phase = "anonymous", !.user = Nobody, !.access = NoToken].phase
          = "anonymous"
    BY DEF TabState
  <1>2. [s EXCEPT !.phase = "authenticated", !.user = u, !.access = x].phase
          = "authenticated"
    BY DEF TabState
  <1>3. /\ [s EXCEPT !.phase = "authenticated", !.user = u, !.access = x].user = u
        /\ [s EXCEPT !.phase = "authenticated", !.user = u, !.access = x].access = x
    BY DEF TabState
  <1>4. /\ [s EXCEPT !.access = x].phase = s.phase
        /\ [s EXCEPT !.access = x].user = s.user
        /\ [s EXCEPT !.access = x].access = x
    BY DEF TabState
  <1> QED  BY <1>1, <1>2, <1>3, <1>4 DEF Anonymous, Authenticated

LEMMA RequestFields ==
    ASSUME NEW q \in ClientRequest, NEW x
    PROVE  LET p == [q EXCEPT !.step = "sent", !.used = x, !.retry = TRUE]
           IN  p.step = "sent" /\ p.op = q.op /\ p.user = q.user /\ p.token = q.token
  BY DEF ClientRequest

LEMMA NewRequestFields ==
    ASSUME NEW op, NEW x
    PROVE  LET p == [NoRequest EXCEPT !.op = op, !.step = "sent", !.used = x]
           IN  p.step = "sent" /\ p.op = op /\ p.token = NoToken
  BY DEF NoRequest

LEMMA WaitsKept ==
    ASSUME TypeInv, WaitsForARefresh, [SessionNext]_sessionVars
    PROVE  WaitsForARefresh'
  <1> USE ClientSessionAssumption DEF Refreshing
  <1>0. Waits  BY WaitsEach
  <1>1. ASSUME NEW t \in Tab, OpenTab(t) PROVE Waits'
    BY <1>0, <1>1, RowsOfTypeInv DEF OpenTab, Waits, NoFlight, NoRequest
  <1>2. ASSUME NEW t \in Tab, SiteArrives(t) PROVE Waits'
    BY <1>0, <1>2, RefreshStarted DEF SiteArrives, Waits
  <1>3. ASSUME NEW t \in Tab, ServerRefreshes(t) PROVE Waits'
    <2>1. \A u \in Tab \ {t} : flight'[u] = flight[u]
      BY <1>3, RowsOfTypeInv DEF ServerRefreshes
    <2>2. flight'[t].step \in {"granted", "refused"}
      <3>1. flight[t] \in Flights  BY RowsOfTypeInv
      <3> QED  BY <1>3, <3>1, RowsOfTypeInv DEF ServerRefreshes, Flights
    <2>3. UNCHANGED <<tab, requests>>  BY <1>3 DEF ServerRefreshes
    <2> QED  BY <1>0, <2>1, <2>2, <2>3 DEF Waits
  <1>4. ASSUME NEW t \in Tab, ServerUnavailable(t) PROVE Waits'
    <2>1. flight'[t].step = "refused"
      <3>1. flight[t] \in Flights  BY RowsOfTypeInv
      <3> QED  BY <1>4, <3>1, RowsOfTypeInv DEF ServerUnavailable, Flights
    <2> QED  BY <1>0, <1>4, <2>1 DEF ServerUnavailable, Waits
  <1>5. ASSUME NEW t \in Tab, RefreshGranted(t) \/ RefreshRefused(t) \/ RefreshLost(t)
        PROVE  Waits'
    <2>1. ASSUME NEW r \in Slot PROVE requests'[r].step = "waiting" =>
                                        /\ requests'[r] = requests[r] /\ TabOf[r] # t
      <3>1. CASE r \in Waiting(t)
        <4>1. requests[r] \in ClientRequest  BY RowsOfTypeInv
        <4>2. requests'[r].step # "waiting"
          <5>1. \/ requests'[r] = NoRequest
                \/ requests'[r] = [requests[r] EXCEPT !.step = "sent",
                                      !.used = flight[t].token, !.retry = TRUE]
            BY <1>5, <3>1 DEF RefreshGranted, RefreshRefused, RefreshLost, Resent
          <5>2. NoRequest.step = "idle"  BY DEF NoRequest
          <5>3. [requests[r] EXCEPT !.step = "sent", !.used = flight[t].token,
                                    !.retry = TRUE].step = "sent"
            BY <4>1 DEF ClientRequest
          <5> QED  BY <5>1, <5>2, <5>3
        <4> QED  BY <4>2
      <3>2. CASE r \notin Waiting(t)
        <4>1. requests'[r] = requests[r]
          BY <1>5, <3>2 DEF RefreshGranted, RefreshRefused, RefreshLost, Resent
        <4> QED  BY <3>2, <4>1 DEF Waiting
      <3> QED  BY <3>1, <3>2
    <2>2. \A u \in Tab \ {t} : flight'[u] = flight[u] /\ tab'[u] = tab[u]
      BY <1>5, RowsOfTypeInv DEF RefreshGranted, RefreshRefused, RefreshLost
    <2>3. tab'[t].phase # "loading"
      <3>1. tab[t] \in TabState  BY RowsOfTypeInv
      <3> QED
        <4>1. \/ tab'[t] = Anonymous(tab[t])
              \/ /\ tab[t].phase = "loading"
                 /\ tab'[t] = Authenticated(tab[t], Owner(flight[t].token), flight[t].token)
              \/ /\ tab[t].phase # "loading"
                 /\ tab'[t] = [tab[t] EXCEPT !.access = flight[t].token]
              \/ tab[t].phase # "loading" /\ tab'[t] = tab[t]
          BY <1>5, RowsOfTypeInv DEF RefreshGranted, RefreshRefused, RefreshLost
        <4>2. /\ Anonymous(tab[t]).phase = "anonymous"
              /\ Authenticated(tab[t], Owner(flight[t].token), flight[t].token).phase
                   = "authenticated"
              /\ [tab[t] EXCEPT !.access = flight[t].token].phase = tab[t].phase
          BY <3>1, TabFields
        <4> QED  BY <4>1, <4>2
    <2> QED  BY <1>0, <2>1, <2>2, <2>3 DEF Waits
  <1>6. ASSUME NEW r \in Slot, NEW op, SendRequest(r, op) PROVE Waits'
    BY <1>0, <1>6, RowsOfTypeInv DEF SendRequest, Waits, NoRequest
  <1>7. ASSUME NEW r \in Slot, NEW u \in User, Login(r, u) PROVE Waits'
    BY <1>0, <1>7, RowsOfTypeInv DEF Login, Waits, NoRequest
  <1>8. ASSUME NEW r \in Slot, ServerAnswers(r) \/ ServerLogsIn(r) \/ ServerRegisters(r)
        PROVE  Waits'
    <2>1. requests[r] \in ClientRequest  BY RowsOfTypeInv
    <2>2. requests'[r].step # "waiting"
      <3>1. CASE ServerAnswers(r)
        BY <2>1, <3>1, RowsOfTypeInv DEF ServerAnswers, ClientRequest
      <3>2. CASE ServerLogsIn(r) \/ ServerRegisters(r)
        <4>1. ASSUME NEW s \in {"ok", "refused"}, requests' = [requests EXCEPT ![r].step = s]
              PROVE  requests'[r].step = s
          BY <2>1, <4>1, RowsOfTypeInv DEF ClientRequest
        <4>2. ASSUME NEW row \in SessionRow, NEW ends \in SUBSET Nat,
                     NewSession(r, row, ends)
              PROVE  requests'[r].step = "ok"
          <5>1. PICK p \in ClientRequest :
                  requests' = [requests EXCEPT ![r] = p] /\ p.step = "ok"
            BY <4>2, NewSessionParts
          <5> QED  BY <5>1, RowsOfTypeInv
        <4> QED  BY <3>2, <4>1, <4>2, SessionAnswers
      <3> QED  BY <1>8, <3>1, <3>2
    <2>3. \A q \in Slot \ {r} : requests'[q] = requests[q]
      BY <1>8, RowsOfTypeInv DEF ServerAnswers, ServerLogsIn, ServerRegisters, NewSession
    <2>4. UNCHANGED <<tab, flight>>
      BY <1>8 DEF ServerAnswers, ServerLogsIn, ServerRegisters
    <2> QED  BY <1>0, <2>2, <2>3, <2>4 DEF Waits
  <1>9. ASSUME NEW r \in Slot, Succeeds(r) PROVE Waits'
    <2>1. requests'[r].step \in {"idle", "sent"}
      <3>1. NoRequest.step = "idle"  BY DEF NoRequest
      <3>2. ASSUME NEW op, NEW u,
                   requests' = [requests EXCEPT ![r] =
                     [NoRequest EXCEPT !.op = op, !.user = u, !.step = "sent",
                                       !.used = tab[TabOf[r]].access]]
            PROVE  requests'[r].step = "sent"
        <4>1. requests'[r] = [NoRequest EXCEPT !.op = op, !.user = u, !.step = "sent",
                                               !.used = tab[TabOf[r]].access]
          BY <3>2, RowsOfTypeInv
        <4> QED  BY <4>1 DEF NoRequest
      <3>3. CASE Finish(r)  BY <3>1, <3>3, RowsOfTypeInv DEF Finish
      <3>4. CASE ~Finish(r)  BY <1>9, <3>2, <3>4 DEF Succeeds
      <3> QED  BY <3>3, <3>4
    <2>2. \A q \in Slot \ {r} : requests'[q] = requests[q]
      BY <1>9, RowsOfTypeInv DEF Succeeds, Finish
    <2>3. UNCHANGED <<tab, flight>>  BY <1>9 DEF Succeeds
    <2> QED  BY <1>0, <2>1, <2>2, <2>3 DEF Waits
  <1>10. ASSUME NEW r \in Slot,
                \/ ProfileArrives(r) \/ LoginSucceeds(r) \/ Registered(r)
                \/ LogsOut(r) \/ RefusedAgain(r) \/ Lost(r)
         PROVE  Waits'
    <2>1. requests'[r].step = "idle" /\ \A q \in Slot \ {r} : requests'[q] = requests[q]
      BY <1>10, RowsOfTypeInv
      DEF ProfileArrives, LoginSucceeds, Registered, LogsOut, RefusedAgain, Lost, Finish,
          NoRequest
    <2>2. UNCHANGED flight
      BY <1>10 DEF ProfileArrives, LoginSucceeds, Registered, LogsOut, RefusedAgain, Lost
    <2>3. \A u \in Tab : tab'[u].phase = "loading" => tab[u].phase = "loading"
      <3>1. ASSUME NEW u \in Tab PROVE tab'[u].phase = "loading" => tab[u].phase = "loading"
        <4>1. tab[u] \in TabState  BY RowsOfTypeInv
        <4>2. \/ tab'[u] = Anonymous(tab[u]) \/ tab'[u] = tab[u]
              \/ tab'[u] = Authenticated(tab[u], requests[r].user, requests[r].token)
              \/ tab'[u] = [tab[u] EXCEPT !.user = requests[r].user]
          BY <1>10, RowsOfTypeInv
          DEF ProfileArrives, LoginSucceeds, Registered, LogsOut, RefusedAgain, Lost
        <4>3. [tab[u] EXCEPT !.user = requests[r].user].phase = tab[u].phase
          BY <4>1 DEF TabState
        <4>4. /\ Anonymous(tab[u]).phase = "anonymous"
              /\ Authenticated(tab[u], requests[r].user, requests[r].token).phase
                   = "authenticated"
          BY <4>1, TabFields
        <4> QED  BY <4>2, <4>3, <4>4
      <3> QED  BY <3>1
    <2> QED  BY <1>0, <2>1, <2>2, <2>3 DEF Waits
  <1>11. ASSUME NEW r \in Slot, Refused(r) PROVE Waits'
    <2>1. \A q \in Slot \ {r} : requests'[q] = requests[q]
      BY <1>11, RowsOfTypeInv DEF Refused
    <2>2. tab' = tab  BY <1>11 DEF Refused
    <2>3. PICK t \in Tab : t = TabOf[r]  OBVIOUS
    <2>4. CASE StartRefresh(t)
      BY <1>0, <2>1, <2>2, <2>3, <2>4, RefreshStarted DEF Waits
    <2>5. CASE ~StartRefresh(t)
      <3>1. requests[r] \in ClientRequest  BY RowsOfTypeInv
      <3>2. requests'[r].step = "sent" /\ UNCHANGED flight
        BY <1>11, <2>3, <2>5, <3>1, RowsOfTypeInv DEF Refused, ClientRequest
      <3> QED  BY <1>0, <2>1, <2>2, <3>2 DEF Waits
    <2> QED  BY <2>4, <2>5
  <1>12. ASSUME NEW token \in Token, Expires(token) PROVE Waits'
    BY <1>0, <1>12 DEF Expires, Waits
  <1>13. ASSUME NEW s \in 1 .. MaxSessions, Revoked(s) PROVE Waits'
    BY <1>0, <1>13 DEF Revoked, Waits
  <1>14. ASSUME UNCHANGED sessionVars PROVE Waits'
    <2>1. UNCHANGED <<tab, flight, requests>>  BY <1>14 DEF sessionVars
    <2> QED  BY <1>0, <2>1 DEF Waits
  <1>15. ASSUME NEW t \in Tab, Refreshes(t) \/ RefreshLost(t) \/ OpenTab(t) PROVE Waits'
    BY <1>1, <1>2, <1>3, <1>4, <1>5, <1>15 DEF Refreshes
  <1>16. ASSUME NEW r \in Slot, Answers(r) \/ Lost(r) PROVE Waits'
    BY <1>8, <1>9, <1>10, <1>11, <1>16 DEF Answers
  <1>17. Waits'
    BY <1>6, <1>7, <1>12, <1>13, <1>14, <1>15, <1>16 DEF SessionNext
  <1> QED  BY <1>17, WaitsNext

LEMMA WaitsFirst == SessionInit => WaitsForARefresh
  <1> SUFFICES ASSUME SessionInit PROVE Waits  BY WaitsEach
  <1> QED  BY DEF SessionInit, Waits, NoRequest

\* Nothing waits for a refresh that is over: WaitsForARefresh holds in every state.
THEOREM NobodyWaitsInVain == SessionSpec => []WaitsForARefresh
  BY SessionTypeCorrect, WaitsFirst, WaitsKept, PTL DEF SessionSpec

-----------------------------------------------------------------------------
(* The reuse of a refresh token has a cause.                               *)

\* A token that can be exchanged as long as its session lives.
Current(x) == Live(x) => x.generation = sessions[x.session].generation

\* One tab refreshes at a time, with a current token; while none has been granted the
\* cookies hold a current one.
RefreshesAlone ==
    /\ \A t, u \in Tab : Refreshing(t) /\ Refreshing(u) => t = u
    /\ \A t \in Tab : /\ flight[t].step = "sent" => Current(flight[t].cookie)
                      /\ flight[t].step = "granted" => Current(flight[t].token)
    /\ (\A t \in Tab : flight[t].step # "granted") => Current(jar.refresh)

\* The token that a login brings is current, and nobody else has one of its session.
Undelivered(r) ==
    requests[r].token # NoToken =>
        /\ Current(requests[r].token)
        /\ jar.refresh.session # requests[r].token.session
        /\ \A t \in Tab : Refreshing(t) =>
             flight[t].cookie.session # requests[r].token.session
        /\ \A q \in Slot \ {r} : requests[q].token.session # requests[r].token.session

Alone == RefreshesAlone /\ \A r \in Slot : Undelivered(r)

CauseInv == (overlapped \/ Alone) /\ ReplayHasACause

\* What every step but a refresh keeps.
GenerationsStay ==
    /\ DOMAIN sessions \subseteq DOMAIN sessions'
    /\ \A i \in DOMAIN sessions :
         /\ sessions'[i].live => sessions[i].live
         /\ sessions'[i].generation = sessions[i].generation

LEMMA CurrentStays ==
    ASSUME TypeInv, GenerationsStay, NEW x \in AnyToken, IsIssued(x), Current(x)
    PROVE  Current(x)'
  BY NoTokenIsNone DEF IsIssued, GenerationsStay, Current, Live

LEMMA NothingIsCurrent ==
    /\ Current(NoToken)' /\ Current(NoToken)
  BY DEF Current, Live

LEMMA SameGenerations ==
    ASSUME UNCHANGED sessions PROVE GenerationsStay
  BY DEF GenerationsStay

LEMMA EndedGenerations ==
    ASSUME TypeInv, NEW i, sessions' = [sessions EXCEPT ![i].live = FALSE]
    PROVE  GenerationsStay
  <1>1. DOMAIN sessions' = DOMAIN sessions
    BY RowsOfTypeInv DEF GoodSessions
  <1>2. ASSUME NEW k \in DOMAIN sessions
        PROVE  /\ sessions'[k].live => sessions[k].live
               /\ sessions'[k].generation = sessions[k].generation
    <2>1. sessions[k] \in SessionRow  BY RowOf
    <2>2. CASE k = i
      <3>1. sessions'[k] = [sessions[k] EXCEPT !.live = FALSE]  BY <2>2
      <3> QED  BY <2>1, <3>1 DEF SessionRow
    <2>3. CASE k # i
      <3>1. sessions'[k] = sessions[k]  BY <2>3
      <3> QED  BY <3>1
    <2> QED  BY <2>2, <2>3
  <1> QED  BY <1>1, <1>2 DEF GenerationsStay

\* The tokens of tabs, cookies and requests that stay are current as before.
LEMMA HeldStayCurrent ==
    ASSUME TypeInv, GenerationsStay
    PROVE  /\ jar' = jar /\ Current(jar.refresh) => Current(jar.refresh)'
           /\ \A t \in Tab : flight'[t] = flight[t] =>
                /\ Current(flight[t].cookie) => Current(flight[t].cookie)'
                /\ Current(flight[t].token) => Current(flight[t].token)'
           /\ \A r \in Slot : requests'[r].token = requests[r].token =>
                (Current(requests[r].token) => Current(requests[r].token)')
  <1>1. ASSUME jar' = jar, Current(jar.refresh) PROVE Current(jar.refresh)'
    <2>1. PICK x \in AnyToken : x = jar.refresh /\ IsIssued(x)
      BY RowsOfTypeInv DEF GoodJar, Cookies
    <2>2. Current(x)  BY <1>1, <2>1
    <2>3. Current(x)'  BY <2>1, <2>2, CurrentStays
    <2> QED  BY <1>1, <2>1, <2>3
  <1>2. ASSUME NEW t \in Tab, flight'[t] = flight[t], Current(flight[t].cookie)
        PROVE  Current(flight[t].cookie)'
    <2>1. PICK x \in AnyToken : x = flight[t].cookie /\ IsIssued(x)
      BY RowsOfTypeInv DEF GoodFlight, Flights
    <2>2. Current(x)  BY <1>2, <2>1
    <2>3. Current(x)'  BY <2>1, <2>2, CurrentStays
    <2> QED  BY <1>2, <2>1, <2>3
  <1>3. ASSUME NEW t \in Tab, flight'[t] = flight[t], Current(flight[t].token)
        PROVE  Current(flight[t].token)'
    <2>1. PICK x \in AnyToken : x = flight[t].token /\ IsIssued(x)
      BY RowsOfTypeInv DEF GoodFlight, Flights
    <2>2. Current(x)  BY <1>3, <2>1
    <2>3. Current(x)'  BY <2>1, <2>2, CurrentStays
    <2> QED  BY <1>3, <2>1, <2>3
  <1>4. ASSUME NEW r \in Slot, requests'[r].token = requests[r].token,
               Current(requests[r].token)
        PROVE  Current(requests[r].token)'
    <2>1. PICK x \in AnyToken : x = requests[r].token /\ IsIssued(x)
      BY RowsOfTypeInv DEF GoodRequest, ClientRequest
    <2>2. Current(x)  BY <1>4, <2>1
    <2>3. Current(x)'  BY <2>1, <2>2, CurrentStays
    <2> QED  BY <1>4, <2>1, <2>3
  <1> QED  BY <1>1, <1>2, <1>3, <1>4

\* A step that touches neither the cookies nor a refresh.
LEMMA RefreshesAloneKept ==
    ASSUME TypeInv, RefreshesAlone, GenerationsStay, UNCHANGED <<jar, flight>>
    PROVE  RefreshesAlone'
  <1>1. \A t \in Tab : flight'[t] = flight[t]  OBVIOUS
  <1>2. /\ Current(jar.refresh) => Current(jar.refresh)'
        /\ \A t \in Tab : /\ Current(flight[t].cookie) => Current(flight[t].cookie)'
                          /\ Current(flight[t].token) => Current(flight[t].token)'
    BY <1>1, HeldStayCurrent
  <1> QED  BY <1>1, <1>2 DEF RefreshesAlone, Refreshing

\* A step after which nobody holds more than before.
LEMMA UndeliveredKept ==
    ASSUME TypeInv, GenerationsStay, \A r \in Slot : Undelivered(r),
           jar' = jar \/ jar'.refresh = NoToken,
           \A t \in Tab : Refreshing(t)' => flight'[t].cookie = flight[t].cookie
                                            /\ Refreshing(t),
           \A r \in Slot : requests'[r].token \in {requests[r].token, NoToken}
    PROVE  \A r \in Slot : Undelivered(r)'
  <1> TAKE r \in Slot
  <1> SUFFICES ASSUME requests'[r].token # NoToken
               PROVE  /\ Current(requests[r].token)'
                      /\ jar'.refresh.session # requests'[r].token.session
                      /\ \A t \in Tab : Refreshing(t)' =>
                           flight'[t].cookie.session # requests'[r].token.session
                      /\ \A q \in Slot \ {r} :
                           requests'[q].token.session # requests'[r].token.session
    BY DEF Undelivered
  <1>1. requests'[r].token = requests[r].token /\ requests[r].token # NoToken  OBVIOUS
  <1>2. /\ Current(requests[r].token)
        /\ jar.refresh.session # requests[r].token.session
        /\ \A t \in Tab : Refreshing(t) =>
             flight[t].cookie.session # requests[r].token.session
        /\ \A q \in Slot \ {r} : requests[q].token.session # requests[r].token.session
    BY <1>1 DEF Undelivered
  <1>3. requests[r].token \in Token
    BY <1>1, RowsOfTypeInv, NoTokenIsNone DEF ClientRequest
  <1>4. requests[r].token.session # 0
    BY <1>1, <1>3, NoTokenIsNone DEF AnyToken
  <1>5. Current(requests[r].token)'  BY <1>1, <1>2, HeldStayCurrent
  <1> QED  BY <1>1, <1>2, <1>4, <1>5, NoTokenIsNone

\* The tokens of requests that only change their step.
LEMMA TokensStay ==
    ASSUME TypeInv, NEW r \in Slot,
           \/ Finish(r) \/ requests' = requests
           \/ \E s : requests' = [requests EXCEPT ![r].step = s]
           \/ \E x : requests' = [requests EXCEPT ![r].step = "sent", ![r].retry = TRUE,
                                                  ![r].used = x]
           \/ \E op, x : requests' = [requests EXCEPT ![r] =
                            [NoRequest EXCEPT !.op = op, !.step = "sent", !.used = x]]
           \/ \E u, x, d : requests' = [requests EXCEPT ![r] =
                            [NoRequest EXCEPT !.op = "login", !.user = u, !.step = "sent",
                                              !.used = x, !.device = d]]
    PROVE  \A q \in Slot : requests'[q].token \in {requests[q].token, NoToken}
  <1> TAKE q \in Slot
  <1>1. requests \in [Slot -> ClientRequest]  BY RowsOfTypeInv
  <1>2. CASE q # r
    <2>1. requests'[q] = requests[q]  BY <1>1, <1>2 DEF Finish
    <2> QED  BY <2>1
  <1>3. CASE q = r
    <2>1. requests[r] \in ClientRequest  BY <1>1
    <2>2. ASSUME Finish(r) \/ requests' = requests
          PROVE  requests'[q].token \in {requests[q].token, NoToken}
      <3>1. NoRequest.token = NoToken  BY DEF NoRequest
      <3>2. requests'[r] \in {NoRequest, requests[r]}  BY <1>1, <2>2 DEF Finish
      <3> QED  BY <1>3, <3>1, <3>2
    <2>3. ASSUME NEW s, requests' = [requests EXCEPT ![r].step = s]
          PROVE  requests'[q].token = requests[q].token
      <3>1. requests'[r] = [requests[r] EXCEPT !.step = s]  BY <1>1, <2>3
      <3> QED  BY <1>3, <2>1, <3>1 DEF ClientRequest
    <2>4. ASSUME NEW x, requests' = [requests EXCEPT ![r].step = "sent", ![r].retry = TRUE,
                                                     ![r].used = x]
          PROVE  requests'[q].token = requests[q].token
      <3>1. requests'[r] = [requests[r] EXCEPT !.step = "sent", !.retry = TRUE, !.used = x]
        BY <1>1, <2>4
      <3> QED  BY <1>3, <2>1, <3>1 DEF ClientRequest
    <2>5. ASSUME NEW op, NEW x, requests' = [requests EXCEPT ![r] =
                            [NoRequest EXCEPT !.op = op, !.step = "sent", !.used = x]]
          PROVE  requests'[q].token = NoToken
      <3>1. requests'[r] = [NoRequest EXCEPT !.op = op, !.step = "sent", !.used = x]
        BY <1>1, <2>5
      <3> QED  BY <1>3, <3>1 DEF NoRequest
    <2>6. ASSUME NEW u, NEW x, NEW d, requests' = [requests EXCEPT ![r] =
                            [NoRequest EXCEPT !.op = "login", !.user = u, !.step = "sent",
                                              !.used = x, !.device = d]]
          PROVE  requests'[q].token = NoToken
      <3>1. requests'[r] = [NoRequest EXCEPT !.op = "login", !.user = u, !.step = "sent",
                                              !.used = x, !.device = d]
        BY <1>1, <2>6
      <3> QED  BY <1>3, <3>1 DEF NoRequest
    <2> QED  BY <2>2, <2>3, <2>4, <2>5, <2>6
  <1> QED  BY <1>2, <1>3

\* The same when the answer names a user, or the next request is about one.
LEMMA TokensStayWithUser ==
    ASSUME TypeInv, NEW r \in Slot, NEW u, NEW op, NEW x,
           \/ \E s : requests' = [requests EXCEPT ![r].step = s, ![r].user = u]
           \/ requests' = [requests EXCEPT ![r] =
                 [NoRequest EXCEPT !.op = op, !.user = u, !.step = "sent", !.used = x]]
    PROVE  \A q \in Slot : requests'[q].token \in {requests[q].token, NoToken}
  <1> TAKE q \in Slot
  <1>1. requests \in [Slot -> ClientRequest]  BY RowsOfTypeInv
  <1>2. CASE q # r
    <2>1. requests'[q] = requests[q]  BY <1>1, <1>2
    <2> QED  BY <2>1
  <1>3. ASSUME q = r, NEW s, requests' = [requests EXCEPT ![r].step = s, ![r].user = u]
        PROVE  requests'[q].token = requests[q].token
    <2>1. requests'[r] = [requests[r] EXCEPT !.step = s, !.user = u]  BY <1>1, <1>3
    <2>2. PICK p \in ClientRequest : p = requests[r]  BY <1>1
    <2>3. [p EXCEPT !.step = s, !.user = u].token = p.token  BY DEF ClientRequest
    <2> QED  BY <1>3, <2>1, <2>2, <2>3
  <1>4. ASSUME q = r, requests' = [requests EXCEPT ![r] =
                        [NoRequest EXCEPT !.op = op, !.user = u, !.step = "sent", !.used = x]]
        PROVE  requests'[q].token = NoToken
    <2>1. requests'[r] = [NoRequest EXCEPT !.op = op, !.user = u, !.step = "sent",
                                           !.used = x]
      BY <1>1, <1>4
    <2> QED  BY <1>4, <2>1 DEF NoRequest
  <1> QED  BY <1>2, <1>3, <1>4

LEMMA OpenTabAlone ==
    ASSUME TypeInv, Alone, NEW t \in Tab, OpenTab(t), ~overlapped'
    PROVE  Alone'
  <1>1. ~Refreshing(t) /\ UNCHANGED <<sessions, jar>>  BY DEF OpenTab
  <1>2. /\ flight'[t].step = "site"
        /\ \A u \in Tab \ {t} : flight'[u] = flight[u]
    BY RowsOfTypeInv DEF OpenTab, NoFlight
  <1>3. GenerationsStay  BY <1>1, SameGenerations
  <1>4. RefreshesAlone'
    <2>1. /\ Current(jar.refresh) => Current(jar.refresh)'
          /\ \A u \in Tab \ {t} :
               /\ Current(flight[u].cookie) => Current(flight[u].cookie)'
               /\ Current(flight[u].token) => Current(flight[u].token)'
      BY <1>1, <1>2, <1>3, HeldStayCurrent
    <2> QED  BY <1>1, <1>2, <2>1 DEF Alone, RefreshesAlone, Refreshing
  <1>5. \A r \in Slot : Undelivered(r)'
    <2>1. \A r \in Slot : requests'[r].token \in {requests[r].token, NoToken}
      BY DEF OpenTab, NoRequest
    <2>2. \A u \in Tab : Refreshing(u)' => flight'[u].cookie = flight[u].cookie
                                            /\ Refreshing(u)
      BY <1>2 DEF Refreshing
    <2> QED  BY <1>1, <1>3, <2>1, <2>2, UndeliveredKept DEF Alone
  <1> QED  BY <1>4, <1>5 DEF Alone

\* A refresh that starts sends the cookies; the request that started it keeps its token.
LEMMA StartRefreshAlone ==
    ASSUME TypeInv, Alone, NEW t \in Tab, StartRefresh(t), ~overlapped',
           UNCHANGED <<sessions, jar>>,
           \A r \in Slot : requests'[r].token \in {requests[r].token, NoToken}
    PROVE  Alone'
  <1>1. GenerationsStay  BY SameGenerations
  <1>2. CASE Refreshing(t)
    <2>1. UNCHANGED flight  BY <1>2 DEF StartRefresh
    <2>2. RefreshesAlone'  BY <1>1, <2>1, RefreshesAloneKept DEF Alone
    <2>3. \A r \in Slot : Undelivered(r)'
      BY <1>1, <2>1, UndeliveredKept DEF Alone, Refreshing
    <2> QED  BY <2>2, <2>3 DEF Alone
  <1>3. CASE ~Refreshing(t)
    <2>1. flight' = [flight EXCEPT ![t] = Sent(jar)] /\ \A u \in Tab : ~Refreshing(u)
      BY <1>3 DEF StartRefresh
    <2>2. /\ flight'[t].step = "sent" /\ flight'[t].cookie = jar.refresh
          /\ \A u \in Tab \ {t} : flight'[u] = flight[u]
      BY <2>1, RowsOfTypeInv DEF Sent
    <2>3. Current(jar.refresh) /\ Current(jar.refresh)'
      <3>1. \A u \in Tab : flight[u].step # "granted"  BY <2>1 DEF Refreshing
      <3>2. Current(jar.refresh)  BY <3>1 DEF Alone, RefreshesAlone
      <3> QED  BY <1>1, <3>2, HeldStayCurrent
    <2>4. Current(flight[t].cookie)'  BY <2>2, <2>3 DEF Current, Live
    <2>5. RefreshesAlone'
      BY <2>1, <2>2, <2>3, <2>4 DEF RefreshesAlone, Refreshing
    <2>6. ASSUME NEW r \in Slot PROVE Undelivered(r)'
      <3> SUFFICES ASSUME requests'[r].token # NoToken
                   PROVE  Undelivered(r)'
        BY DEF Undelivered
      <3>1. requests'[r].token = requests[r].token /\ requests[r].token # NoToken
        OBVIOUS
      <3>2. /\ Current(requests[r].token)
            /\ jar.refresh.session # requests[r].token.session
            /\ \A q \in Slot \ {r} : requests[q].token.session # requests[r].token.session
        BY <3>1 DEF Alone, Undelivered
      <3>3. requests[r].token.session # 0
        BY <3>1, RowsOfTypeInv, NoTokenIsNone DEF ClientRequest
      <3>4. Current(requests[r].token)'  BY <1>1, <3>1, <3>2, HeldStayCurrent
      <3>5. \A u \in Tab : Refreshing(u)' => u = t
        BY <2>1, <2>2 DEF Refreshing
      <3> QED
        BY <2>2, <3>1, <3>2, <3>3, <3>4, <3>5, NoTokenIsNone DEF Undelivered
    <2> QED  BY <2>5, <2>6 DEF Alone
  <1> QED  BY <1>2, <1>3

\* A refresh that is refused.
LEMMA RefusedAlone ==
    ASSUME TypeInv, Alone, NEW t \in Tab, flight[t].step = "sent", GenerationsStay,
           flight' = [flight EXCEPT ![t].step = "refused"],
           UNCHANGED <<jar, requests>>
    PROVE  Alone'
  <1>1. flight[t] \in Flights  BY RowsOfTypeInv
  <1>2. /\ flight'[t].step = "refused" /\ flight'[t].cookie = flight[t].cookie
        /\ \A u \in Tab \ {t} : flight'[u] = flight[u]
    BY <1>1, RowsOfTypeInv DEF Flights
  <1>3. \A u \in Tab : Refreshing(u)' => flight'[u].cookie = flight[u].cookie
                                         /\ Refreshing(u)
    BY <1>2 DEF Refreshing
  <1>4. RefreshesAlone'
    <2>1. /\ Current(jar.refresh) => Current(jar.refresh)'
          /\ \A u \in Tab \ {t} :
               /\ Current(flight[u].cookie) => Current(flight[u].cookie)'
               /\ Current(flight[u].token) => Current(flight[u].token)'
      BY <1>2, HeldStayCurrent
    <2> QED  BY <1>2, <1>3, <2>1 DEF Alone, RefreshesAlone, Refreshing
  <1>5. \A r \in Slot : Undelivered(r)'
    BY <1>3, UndeliveredKept DEF Alone
  <1> QED  BY <1>4, <1>5 DEF Alone

LEMMA ServerRefreshesAlone ==
    ASSUME TypeInv, Alone, NEW t \in Tab, ServerRefreshes(t)
    PROVE  Alone' /\ (replayed' => replayed)
  <1>1. PICK c \in AnyToken : c = flight[t].cookie /\ IsIssued(c)
    BY RowsOfTypeInv DEF GoodFlight, Flights
  <1>2. flight[t].step = "sent" /\ UNCHANGED <<jar, requests>>
    BY DEF ServerRefreshes
  <1>3. Current(c)  BY <1>1, <1>2 DEF Alone, RefreshesAlone
  <1>4. CASE UNCHANGED sessions /\ flight' = [flight EXCEPT ![t].step = "refused"]
             /\ UNCHANGED replayed
    BY <1>2, <1>4, SameGenerations, RefusedAlone
  <1>5. CASE /\ c # NoToken /\ c.generation < sessions[c.session].generation
             /\ sessions' = [sessions EXCEPT ![c.session].live = FALSE]
             /\ replayed' = (replayed \/ sessions[c.session].live)
             /\ flight' = [flight EXCEPT ![t].step = "refused"]
    <2>1. c \in Token /\ c.session \in DOMAIN sessions
      BY <1>1, <1>5, NoTokenIsNone DEF IsIssued
    <2>2. sessions[c.session] \in SessionRow  BY <2>1, RowOf
    <2>3. c.generation \in Nat /\ sessions[c.session].generation \in Nat
      BY <2>1, <2>2, ClientSessionAssumption DEF Token, SessionRow
    <2>4. ~sessions[c.session].live
      BY <1>3, <1>5, <2>3 DEF Current, Live
    <2>5. GenerationsStay  BY <1>5, EndedGenerations
    <2> QED  BY <1>2, <1>5, <2>4, <2>5, RefusedAlone
  <1>6. CASE /\ c # NoToken /\ c.generation = sessions[c.session].generation
             /\ sessions[c.session].generation < MaxTokens
             /\ sessions' = [sessions EXCEPT ![c.session].generation = @ + 1]
             /\ flight' = [flight EXCEPT ![t].step = "granted",
                              ![t].token = [c EXCEPT !.generation = @ + 1]]
             /\ UNCHANGED replayed
    <2>1. c \in Token /\ c.session \in DOMAIN sessions
      BY <1>1, <1>6, NoTokenIsNone DEF IsIssued
    <2>2. PICK x : x = [c EXCEPT !.generation = @ + 1]  OBVIOUS
    <2>3. x.session = c.session /\ x.generation = c.generation + 1
      BY <2>1, <2>2 DEF Token
    <2>4. flight[t] \in Flights  BY RowsOfTypeInv
    <2>5. /\ flight'[t].step = "granted" /\ flight'[t].token = x
          /\ flight'[t].cookie = c
          /\ \A u \in Tab \ {t} : flight'[u] = flight[u]
      <3>1. flight'[t] = [flight[t] EXCEPT !.step = "granted", !.token = x]
        BY <1>6, <2>2, RowsOfTypeInv
      <3>2. \A u \in Tab \ {t} : flight'[u] = flight[u]  BY <1>6, RowsOfTypeInv
      <3> QED  BY <1>1, <2>4, <3>1, <3>2 DEF Flights
    <2>6. sessions[c.session] \in SessionRow  BY <2>1, RowOf
    <2>7. /\ sessions'[c.session].generation = sessions[c.session].generation + 1
          /\ \A i \in DOMAIN sessions \ {c.session} : sessions'[i] = sessions[i]
      <3>1. sessions'[c.session] = [sessions[c.session] EXCEPT !.generation = @ + 1]
        BY <1>6, <2>1
      <3>2. sessions'[c.session].generation = sessions[c.session].generation + 1
        BY <2>6, <3>1 DEF SessionRow
      <3> QED  BY <1>6, <3>2
    <2>8. Current(flight[t].token)'
      BY <1>6, <2>3, <2>5, <2>7 DEF Current
    <2>9. \A u \in Tab \ {t} : ~Refreshing(u)
      BY <1>2 DEF Alone, RefreshesAlone, Refreshing
    <2>10. RefreshesAlone'
      BY <2>5, <2>8, <2>9 DEF RefreshesAlone, Refreshing
    <2>11. ASSUME NEW r \in Slot PROVE Undelivered(r)'
      <3>1. PICK y \in AnyToken : y = requests[r].token /\ IsIssued(y)
        BY RowsOfTypeInv DEF GoodRequest, ClientRequest
      <3>2. CASE y # NoToken
        <4>1. /\ Current(y) /\ jar.refresh.session # y.session /\ c.session # y.session
              /\ \A q \in Slot \ {r} : requests[q].token.session # y.session
          BY <1>1, <1>2, <3>1, <3>2 DEF Alone, Undelivered, Refreshing
        <4>2. y.session \in DOMAIN sessions  BY <3>1, <3>2 DEF IsIssued
        <4>3. Current(y)'  BY <2>7, <4>1, <4>2 DEF Current, Live
        <4>4. \A u \in Tab : Refreshing(u)' => u = t
          BY <2>5, <2>9 DEF Refreshing
        <4>5. requests'[r].token = y /\ requests' = requests /\ jar' = jar  BY <1>2, <3>1
        <4>6. Current(requests[r].token)'  BY <4>3, <4>5
        <4> QED  BY <2>5, <4>1, <4>4, <4>5, <4>6 DEF Undelivered
      <3>3. CASE y = NoToken
        BY <1>2, <3>1, <3>3 DEF Undelivered
      <3> QED  BY <3>2, <3>3
    <2> QED  BY <1>6, <2>10, <2>11 DEF Alone
  <1> QED  BY <1>1, <1>4, <1>5, <1>6 DEF ServerRefreshes

\* A flight that ends and the cookies it leaves.
LEMMA FlightEnds ==
    ASSUME TypeInv, Alone, NEW t \in Tab, Refreshing(t), UNCHANGED sessions,
           flight' = [flight EXCEPT ![t] = NoFlight],
           \A r \in Slot : requests'[r].token \in {requests[r].token, NoToken},
           \/ flight[t].step = "granted" /\ jar' = [jar EXCEPT !.refresh = flight[t].token]
           \/ flight[t].step # "granted" /\ jar' = jar
           \/ jar' = [jar EXCEPT !.refresh = NoToken]
    PROVE  Alone'
  <1>1. GenerationsStay  BY SameGenerations
  <1>2. /\ flight'[t].step = "none" /\ \A u \in Tab \ {t} : flight'[u] = flight[u]
    BY RowsOfTypeInv DEF NoFlight
  <1>3. \A u \in Tab : ~Refreshing(u)'
    BY <1>2 DEF Alone, RefreshesAlone, Refreshing
  <1>4. jar \in Cookies /\ GoodFlight(flight[t]) /\ flight[t] \in Flights
    BY RowsOfTypeInv DEF GoodJar
  <1>5. Current(jar.refresh)'
    <2>1. CASE flight[t].step = "granted" /\ jar' = [jar EXCEPT !.refresh = flight[t].token]
      <3>1. jar'.refresh = flight[t].token  BY <1>4, <2>1 DEF Cookies
      <3>2. Current(flight[t].token)  BY <2>1 DEF Alone, RefreshesAlone
      <3> QED  BY <3>1, <3>2 DEF Current, Live
    <2>2. CASE flight[t].step # "granted" /\ jar' = jar
      <3>1. \A u \in Tab : flight[u].step # "granted"
        BY <2>2 DEF Alone, RefreshesAlone, Refreshing
      <3>2. Current(jar.refresh)  BY <3>1 DEF Alone, RefreshesAlone
      <3> QED  BY <1>1, <2>2, <3>2, HeldStayCurrent
    <2>3. CASE jar' = [jar EXCEPT !.refresh = NoToken]
      <3>1. jar'.refresh = NoToken  BY <1>4, <2>3 DEF Cookies
      <3> QED  BY <3>1 DEF Current, Live
    <2> QED  BY <2>1, <2>2, <2>3
  <1>6. RefreshesAlone'
    BY <1>3, <1>5 DEF RefreshesAlone, Refreshing
  <1>7. ASSUME NEW r \in Slot PROVE Undelivered(r)'
    <2> SUFFICES ASSUME requests'[r].token # NoToken PROVE Undelivered(r)'
      BY DEF Undelivered
    <2>1. requests'[r].token = requests[r].token /\ requests[r].token # NoToken
      OBVIOUS
    <2>2. /\ Current(requests[r].token)
          /\ jar.refresh.session # requests[r].token.session
          /\ flight[t].cookie.session # requests[r].token.session
          /\ \A q \in Slot \ {r} : requests[q].token.session # requests[r].token.session
      BY <2>1 DEF Alone, Undelivered
    <2>3. requests[r].token.session # 0
      BY <2>1, RowsOfTypeInv, NoTokenIsNone DEF ClientRequest
    <2>4. Current(requests[r].token)'  BY <1>1, <2>1, <2>2, HeldStayCurrent
    <2>5. jar'.refresh.session # requests'[r].token.session
      <3>1. jar'.refresh \in {flight[t].token, jar.refresh, NoToken}
            /\ (jar'.refresh = flight[t].token =>
                  jar'.refresh \in {jar.refresh, NoToken} \/ flight[t].step = "granted")
        BY <1>4 DEF Cookies
      <3>2. flight[t].step = "granted" => flight[t].token.session = flight[t].cookie.session
        BY <1>4 DEF GoodFlight
      <3> QED  BY <2>1, <2>2, <2>3, <3>1, <3>2, NoTokenIsNone
    <2> QED  BY <1>3, <2>1, <2>2, <2>3, <2>4, <2>5, NoTokenIsNone DEF Undelivered
  <1> QED  BY <1>6, <1>7 DEF Alone

\* A request that only changes its step, and sessions that only end.
LEMMA QuietAlone ==
    ASSUME TypeInv, Alone, GenerationsStay, UNCHANGED flight,
           jar' = jar \/ jar' = [jar EXCEPT !.refresh = NoToken],
           \A r \in Slot : requests'[r].token \in {requests[r].token, NoToken}
    PROVE  Alone'
  <1>1. jar' = jar \/ jar'.refresh = NoToken  BY RowsOfTypeInv DEF GoodJar, Cookies
  <1>2. RefreshesAlone'
    <2>1. CASE jar' = jar  BY <2>1, RefreshesAloneKept DEF Alone
    <2>2. CASE jar'.refresh = NoToken
      <3>1. Current(jar.refresh)'  BY <2>2 DEF Current, Live
      <3>2. \A t \in Tab : flight'[t] = flight[t]  OBVIOUS
      <3>3. \A t \in Tab : /\ Current(flight[t].cookie) => Current(flight[t].cookie)'
                           /\ Current(flight[t].token) => Current(flight[t].token)'
        BY <3>2, HeldStayCurrent
      <3> QED  BY <3>1, <3>2, <3>3 DEF Alone, RefreshesAlone, Refreshing
    <2> QED  BY <1>1, <2>1, <2>2
  <1>3. \A r \in Slot : Undelivered(r)'
    BY <1>1, UndeliveredKept DEF Alone, Refreshing
  <1> QED  BY <1>2, <1>3 DEF Alone

\* An answer that logs in brings the cookies a token that nobody else has.
LEMMA LogsInAlone ==
    ASSUME TypeInv, Alone, NEW r \in Slot, UNCHANGED <<sessions, flight>>,
           requests[r].token # NoToken, jar'.refresh = requests[r].token, Finish(r)
    PROVE  Alone'
  <1>1. /\ UNCHANGED <<sessions, flight>> /\ jar'.refresh = requests[r].token
        /\ requests' = [requests EXCEPT ![r] = NoRequest]
    BY DEF Finish
  <1>2. PICK x \in AnyToken : x = requests[r].token /\ IsIssued(x)
    BY RowsOfTypeInv DEF GoodRequest, ClientRequest
  <1>3. GenerationsStay  BY <1>1, SameGenerations
  <1>4. x # NoToken  BY <1>2
  <1>5. /\ Current(x)
        /\ \A t \in Tab : Refreshing(t) => flight[t].cookie.session # x.session
        /\ \A q \in Slot \ {r} : requests[q].token.session # x.session
    BY <1>2, <1>4 DEF Alone, Undelivered
  <1>6. Current(x)'  BY <1>2, <1>3, <1>5, CurrentStays
  <1>7. Current(jar.refresh)'  BY <1>1, <1>2, <1>6
  <1>8. RefreshesAlone'
    <2>1. \A t \in Tab : flight'[t] = flight[t]  BY <1>1
    <2>2. \A t \in Tab : /\ Current(flight[t].cookie) => Current(flight[t].cookie)'
                         /\ Current(flight[t].token) => Current(flight[t].token)'
      BY <1>3, <2>1, HeldStayCurrent
    <2> QED  BY <1>7, <2>1, <2>2 DEF Alone, RefreshesAlone, Refreshing
  <1>9. ASSUME NEW p \in Slot PROVE Undelivered(p)'
    <2>1. NoRequest.token = NoToken  BY DEF NoRequest
    <2>2. requests'[r].token = NoToken /\ \A q \in Slot \ {r} : requests'[q] = requests[q]
      BY <1>1, <2>1, RowsOfTypeInv
    <2>3. CASE p = r  BY <2>2, <2>3 DEF Undelivered
    <2>4. CASE p # r /\ requests[p].token # NoToken
      <3>1. /\ Current(requests[p].token)
            /\ \A t \in Tab : Refreshing(t) =>
                 flight[t].cookie.session # requests[p].token.session
            /\ \A q \in Slot \ {p} : requests[q].token.session # requests[p].token.session
        BY <2>4 DEF Alone, Undelivered
      <3>2. Current(requests[p].token)'
        BY <1>3, <2>2, <2>4, <3>1, HeldStayCurrent
      <3>3. requests[p].token.session # 0
        BY <2>4, RowsOfTypeInv, NoTokenIsNone DEF ClientRequest
      <3>4. x.session # requests[p].token.session  BY <1>2, <2>4, <3>1
      <3> QED
        BY <1>1, <1>2, <2>2, <2>4, <3>1, <3>2, <3>3, <3>4, NoTokenIsNone
        DEF Undelivered, Refreshing
    <2>5. CASE p # r /\ requests[p].token = NoToken
      BY <2>2, <2>5 DEF Undelivered
    <2> QED  BY <2>3, <2>4, <2>5
  <1> QED  BY <1>8, <1>9 DEF Alone

\* What a login or a registration does to the sessions, with the token it brings.
LEMMA SessionAnswersCases ==
    ASSUME TypeInv, NEW r \in Slot, ServerLogsIn(r) \/ ServerRegisters(r)
    PROVE  /\ GenerationsStay
           /\ UNCHANGED <<jar, flight, overlapped, replayed>>
           /\ \A q \in Slot \ {r} : requests'[q] = requests[q]
           /\ \/ requests'[r].token = requests[r].token
              \/ \E n \in Nat :
                   /\ n = Len(sessions) + 1
                   /\ requests'[r].token = [session |-> n, generation |-> 1]
                   /\ sessions'[n].generation = 1
  <1>1. PICK q \in ClientRequest : q = requests[r]  BY RowsOfTypeInv
  <1>2. UNCHANGED <<jar, flight, overlapped, replayed>>  BY SessionAnswers
  <1>3. ASSUME UNCHANGED sessions, NEW s, requests' = [requests EXCEPT ![r].step = s]
        PROVE  /\ GenerationsStay /\ \A p \in Slot \ {r} : requests'[p] = requests[p]
               /\ requests'[r].token = requests[r].token
    <2>1. GenerationsStay  BY <1>3, SameGenerations
    <2>2. requests'[r] = [q EXCEPT !.step = s]
          /\ \A p \in Slot \ {r} : requests'[p] = requests[p]
      BY <1>1, <1>3, RowsOfTypeInv
    <2>3. requests'[r].token = requests[r].token
      BY <1>1, <2>2 DEF ClientRequest
    <2> QED  BY <2>1, <2>2, <2>3
  <1>4. ASSUME NEW row \in SessionRow, NEW ends \in SUBSET Nat, row.generation = 1,
               NewSession(r, row, ends)
        PROVE  /\ GenerationsStay /\ \A p \in Slot \ {r} : requests'[p] = requests[p]
               /\ \E n \in Nat :
                    /\ n = Len(sessions) + 1
                    /\ requests'[r].token = [session |-> n, generation |-> 1]
                    /\ sessions'[n].generation = 1
    <2>1. PICK n \in 1 .. MaxSessions, x \in Token, p \in ClientRequest :
             /\ n = Len(sessions) + 1 /\ x.session = n /\ x.generation = 1
             /\ SessionsStay /\ sessions'[n] = row
             /\ \A i \in DOMAIN sessions : sessions'[i].generation = sessions[i].generation
             /\ requests' = [requests EXCEPT ![r] = p]
             /\ p.token = x
      BY <1>1, <1>4, NewSessionParts
    <2>2. GenerationsStay  BY <2>1 DEF SessionsStay, GenerationsStay
    <2>3. requests'[r] = p /\ \A k \in Slot \ {r} : requests'[k] = requests[k]
      BY <2>1, RowsOfTypeInv
    <2>4. x = [session |-> n, generation |-> 1]  BY <2>1 DEF Token
    <2>5. n \in Nat  BY ClientSessionAssumption
    <2>6. requests'[r].token = [session |-> n, generation |-> 1]  BY <2>1, <2>3, <2>4
    <2>7. sessions'[n].generation = 1  BY <1>4, <2>1
    <2> QED  BY <2>1, <2>2, <2>3, <2>5, <2>6, <2>7
  <1> QED  BY <1>2, <1>3, <1>4, SessionAnswers

LEMMA SessionAnswersAlone ==
    ASSUME TypeInv, Alone, NEW r \in Slot, ServerLogsIn(r) \/ ServerRegisters(r)
    PROVE  Alone'
  <1>1. /\ GenerationsStay /\ UNCHANGED <<jar, flight>>
        /\ \A q \in Slot \ {r} : requests'[q] = requests[q]
    BY SessionAnswersCases
  <1>2. CASE requests'[r].token = requests[r].token
    <2>1. \A q \in Slot : requests'[q].token \in {requests[q].token, NoToken}
      BY <1>1, <1>2
    <2> QED  BY <1>1, <2>1, QuietAlone
  <1>3. ASSUME NEW n \in Nat, n = Len(sessions) + 1,
               requests'[r].token = [session |-> n, generation |-> 1],
               sessions'[n].generation = 1
        PROVE  Alone'
    <2>1. RefreshesAlone'  BY <1>1, RefreshesAloneKept DEF Alone
    <2>2. \A x \in AnyToken : IsIssued(x) => x.session # n
      <3>1. DOMAIN sessions = 1 .. Len(sessions) /\ Len(sessions) \in Nat
        BY RowsOfTypeInv DEF GoodSessions
      <3> QED  BY <1>3, <3>1, NoTokenIsNone DEF IsIssued
    <2>3. /\ jar.refresh.session # n
          /\ \A t \in Tab : flight[t].cookie.session # n
          /\ \A q \in Slot : requests[q].token.session # n
      <3>1. jar.refresh \in AnyToken /\ IsIssued(jar.refresh)
        BY RowsOfTypeInv DEF GoodJar, Cookies
      <3>2. ASSUME NEW t \in Tab PROVE flight[t].cookie \in AnyToken /\ IsIssued(flight[t].cookie)
        BY RowsOfTypeInv DEF GoodFlight, Flights
      <3>3. ASSUME NEW q \in Slot
            PROVE  requests[q].token \in AnyToken /\ IsIssued(requests[q].token)
        BY RowsOfTypeInv DEF GoodRequest, ClientRequest
      <3> QED  BY <2>2, <3>1, <3>2, <3>3
    <2>4. PICK x : x = [session |-> n, generation |-> 1]  OBVIOUS
    <2>5. requests'[r].token = x /\ x.session = n /\ x.generation = 1  BY <1>3, <2>4
    <2>6. Current(requests[r].token)'  BY <1>3, <2>5 DEF Current
    <2>7. Undelivered(r)'
      BY <1>1, <2>3, <2>5, <2>6 DEF Undelivered
    <2>8. ASSUME NEW p \in Slot \ {r} PROVE Undelivered(p)'
      <3>1. requests'[p] = requests[p]  BY <1>1
      <3>2. CASE requests[p].token # NoToken
        <4>1. /\ Current(requests[p].token)
              /\ jar.refresh.session # requests[p].token.session
              /\ \A t \in Tab : Refreshing(t) =>
                   flight[t].cookie.session # requests[p].token.session
              /\ \A q \in Slot \ {p} : requests[q].token.session # requests[p].token.session
          BY <3>2 DEF Alone, Undelivered
        <4>2. Current(requests[p].token)'  BY <1>1, <3>1, <4>1, HeldStayCurrent
        <4>3. \A q \in Slot \ {p} : requests'[q].token.session # requests[p].token.session
          BY <1>1, <2>3, <2>5, <4>1
        <4> QED
          BY <1>1, <3>1, <4>1, <4>2, <4>3 DEF Undelivered, Refreshing
      <3>3. CASE requests[p].token = NoToken
        BY <3>1, <3>3 DEF Undelivered
      <3> QED  BY <3>2, <3>3
    <2> QED  BY <2>1, <2>7, <2>8 DEF Alone
  <1> QED  BY <1>2, <1>3, SessionAnswersCases

LEMMA RefusedRequestAlone ==
    ASSUME TypeInv, Alone, NEW r \in Slot, Refused(r), ~overlapped'
    PROVE  Alone'
  <1>1. PICK t \in Tab : t = TabOf[r]  BY ClientSessionAssumption
  <1>2. UNCHANGED <<sessions, jar>>  BY DEF Refused
  <1>3. \A q \in Slot : requests'[q].token \in {requests[q].token, NoToken}
    <2>1. \/ requests' = [requests EXCEPT ![r].step = "waiting"]
          \/ requests' = [requests EXCEPT ![r].step = "sent", ![r].retry = TRUE,
                                          ![r].used = tab[TabOf[r]].access]
      BY DEF Refused
    <2> QED  BY <2>1, TokensStay
  <1>4. CASE StartRefresh(t)  BY <1>2, <1>3, <1>4, StartRefreshAlone
  <1>5. CASE UNCHANGED flight  BY <1>2, <1>3, <1>5, SameGenerations, QuietAlone
  <1> QED  BY <1>1, <1>4, <1>5 DEF Refused

LEMMA AloneKept ==
    ASSUME TypeInv, Alone, SessionNext, ~overlapped'
    PROVE  Alone' /\ (replayed' => replayed)
  <1>1. ASSUME NEW t \in Tab, OpenTab(t) \/ SiteArrives(t)
        PROVE  Alone' /\ (replayed' => replayed)
    BY <1>1, OpenTabAlone, StartRefreshAlone DEF OpenTab, SiteArrives
  <1>2. ASSUME NEW t \in Tab, ServerRefreshes(t) \/ ServerUnavailable(t)
        PROVE  Alone' /\ (replayed' => replayed)
    BY <1>2, ServerRefreshesAlone, SameGenerations, RefusedAlone DEF ServerUnavailable
  <1>3. ASSUME NEW t \in Tab, RefreshGranted(t)
        PROVE  Alone' /\ (replayed' => replayed)
    <2>1. \A q \in Slot : requests'[q].token \in {requests[q].token, NoToken}
      <3>1. ASSUME NEW q \in Slot PROVE requests'[q].token = requests[q].token
        <4>1. requests[q] \in ClientRequest  BY RowsOfTypeInv
        <4>2. requests'[q] \in {requests[q],
                 [requests[q] EXCEPT !.step = "sent", !.used = flight[t].token,
                                     !.retry = TRUE]}
          BY <1>3 DEF RefreshGranted, Resent
        <4>3. [requests[q] EXCEPT !.step = "sent", !.used = flight[t].token,
                                  !.retry = TRUE].token = requests[q].token
          BY <4>1 DEF ClientRequest
        <4> QED  BY <4>2, <4>3
      <3> QED  BY <3>1
    <2>2. Refreshing(t)  BY <1>3 DEF RefreshGranted, Refreshing
    <2> QED  BY <1>3, <2>1, <2>2, FlightEnds DEF RefreshGranted
  <1>4. ASSUME NEW t \in Tab, RefreshRefused(t)
        PROVE  Alone' /\ (replayed' => replayed)
    <2>1. \A q \in Slot : requests'[q].token \in {requests[q].token, NoToken}
      <3>1. NoRequest.token = NoToken  BY DEF NoRequest
      <3> QED  BY <1>4, <3>1 DEF RefreshRefused
    <2>2. Refreshing(t)  BY <1>4 DEF RefreshRefused, Refreshing
    <2> QED  BY <1>4, <2>1, <2>2, FlightEnds DEF RefreshRefused
  <1>5. ASSUME NEW t \in Tab, RefreshLost(t)
        PROVE  Alone' /\ (replayed' => replayed)
    BY <1>5 DEF RefreshLost
  <1>6. ASSUME NEW r \in Slot, ServerAnswers(r)
        PROVE  Alone' /\ (replayed' => replayed)
    <2>1. GenerationsStay  BY <1>6, SameGenerations, EndedGenerations DEF ServerAnswers
    <2>2. \A q \in Slot : requests'[q].token \in {requests[q].token, NoToken}
      BY <1>6, TokensStayWithUser DEF ServerAnswers
    <2> QED  BY <1>6, <2>1, <2>2, QuietAlone DEF ServerAnswers
  <1>7. ASSUME NEW r \in Slot, ServerLogsIn(r) \/ ServerRegisters(r)
        PROVE  Alone' /\ (replayed' => replayed)
    BY <1>7, SessionAnswersAlone, SessionAnswers
  <1>8. ASSUME NEW r \in Slot,
               Succeeds(r) \/ ProfileArrives(r) \/ LogsOut(r) \/ RefusedAgain(r) \/ Lost(r)
        PROVE  Alone' /\ (replayed' => replayed)
    <2>1. /\ UNCHANGED <<sessions, flight, replayed>>
          /\ jar' = jar \/ jar' = [jar EXCEPT !.refresh = NoToken]
      BY <1>8 DEF Succeeds, ProfileArrives, LogsOut, RefusedAgain, Lost
    <2>2. ASSUME NEW op, NEW u,
                 requests' = [requests EXCEPT ![r] =
                   [NoRequest EXCEPT !.op = op, !.user = u, !.step = "sent",
                                     !.used = tab[TabOf[r]].access]]
          PROVE  \A q \in Slot : requests'[q].token \in {requests[q].token, NoToken}
      BY <2>2, TokensStayWithUser
    <2>3. \A q \in Slot : requests'[q].token \in {requests[q].token, NoToken}
      <3>1. CASE Finish(r)  BY <3>1, TokensStay
      <3>2. CASE ~Finish(r)
        <4>1. Succeeds(r)
          BY <1>8, <3>2 DEF ProfileArrives, LogsOut, RefusedAgain, Lost
        <4> QED  BY <2>2, <3>2, <4>1 DEF Succeeds
      <3> QED  BY <3>1, <3>2
    <2> QED  BY <2>1, <2>3, SameGenerations, QuietAlone
  <1>9. ASSUME NEW r \in Slot, LoginSucceeds(r) \/ Registered(r)
        PROVE  Alone' /\ (replayed' => replayed)
    <2>1. UNCHANGED <<sessions, flight, replayed>> /\ Finish(r)
      BY <1>9 DEF LoginSucceeds, Registered
    <2>2. \/ UNCHANGED jar
          \/ requests[r].token # NoToken /\ jar'.refresh = requests[r].token
      <3>1. CASE LoginSucceeds(r)
        BY <3>1, RowsOfTypeInv DEF LoginSucceeds, GoodRequest
      <3>2. CASE Registered(r)
        BY <3>2, RowsOfTypeInv DEF Registered, GoodJar, Cookies
      <3> QED  BY <1>9, <3>1, <3>2
    <2>3. \A q \in Slot : requests'[q].token \in {requests[q].token, NoToken}
      BY <2>1, TokensStay
    <2> QED  BY <2>1, <2>2, <2>3, LogsInAlone, SameGenerations, QuietAlone
  <1>10. ASSUME NEW r \in Slot, Refused(r)
         PROVE  Alone' /\ (replayed' => replayed)
    BY <1>10, RefusedRequestAlone DEF Refused
  <1>11. ASSUME NEW r \in Slot, NEW op, SendRequest(r, op)
         PROVE  Alone' /\ (replayed' => replayed)
    <2>1. requests' = [requests EXCEPT ![r] =
             [NoRequest EXCEPT !.op = op, !.step = "sent", !.used = tab[TabOf[r]].access]]
      BY <1>11 DEF SendRequest
    <2>2. \A q \in Slot : requests'[q].token \in {requests[q].token, NoToken}
      BY <2>1, TokensStay
    <2> QED  BY <1>11, <2>2, SameGenerations, QuietAlone DEF SendRequest
  <1>12. ASSUME NEW r \in Slot, NEW u \in User, Login(r, u)
         PROVE  Alone' /\ (replayed' => replayed)
    <2>1. requests' = [requests EXCEPT ![r] =
             [NoRequest EXCEPT !.op = "login", !.user = u, !.step = "sent",
                               !.used = tab[TabOf[r]].access, !.device = jar.device]]
      BY <1>12 DEF Login
    <2>2. \A q \in Slot : requests'[q].token \in {requests[q].token, NoToken}
      BY <2>1, TokensStay
    <2> QED  BY <1>12, <2>2, SameGenerations, QuietAlone DEF Login
  <1>13. ASSUME NEW token \in Token, Expires(token)
         PROVE  Alone' /\ (replayed' => replayed)
    BY <1>13, SameGenerations, QuietAlone DEF Expires
  <1>14. ASSUME NEW s \in 1 .. MaxSessions, Revoked(s)
         PROVE  Alone' /\ (replayed' => replayed)
    BY <1>14, EndedGenerations, QuietAlone DEF Revoked
  <1>15. ASSUME NEW t \in Tab, Refreshes(t) \/ RefreshLost(t) \/ OpenTab(t)
         PROVE  Alone' /\ (replayed' => replayed)
    BY <1>1, <1>2, <1>3, <1>4, <1>5, <1>15 DEF Refreshes
  <1>16. ASSUME NEW r \in Slot, Answers(r) \/ Lost(r)
         PROVE  Alone' /\ (replayed' => replayed)
    BY <1>6, <1>7, <1>8, <1>9, <1>10, <1>16 DEF Answers
  <1> QED
    BY <1>11, <1>12, <1>13, <1>14, <1>15, <1>16 DEF SessionNext

LEMMA OverlappedStays ==
    ASSUME TypeInv, SessionNext, overlapped
    PROVE  overlapped'
  <1>1. ASSUME NEW t \in Tab, Refreshes(t) \/ RefreshLost(t) \/ OpenTab(t)
        PROVE  overlapped'
    BY <1>1 DEF Refreshes, RefreshLost, OpenTab, SiteArrives, StartRefresh, ServerRefreshes,
                ServerUnavailable, RefreshGranted, RefreshRefused
  <1>2. ASSUME NEW r \in Slot, Answers(r) \/ Lost(r)
        PROVE  overlapped'
    BY <1>2 DEF Answers, Lost, ServerAnswers, ServerLogsIn, ServerRegisters, Succeeds,
                ProfileArrives, LoginSucceeds, Registered, LogsOut, Refused, RefusedAgain,
                StartRefresh
  <1>3. ASSUME NEW r \in Slot, NEW op, SendRequest(r, op) PROVE overlapped'
    BY <1>3 DEF SendRequest
  <1>4. ASSUME NEW r \in Slot, NEW u \in User, Login(r, u) PROVE overlapped'
    BY <1>4 DEF Login
  <1>5. ASSUME NEW token \in Token, Expires(token) PROVE overlapped'
    BY <1>5 DEF Expires
  <1>6. ASSUME NEW s \in 1 .. MaxSessions, Revoked(s) PROVE overlapped'
    BY <1>6 DEF Revoked
  <1> QED  BY <1>1, <1>2, <1>3, <1>4, <1>5, <1>6 DEF SessionNext

LEMMA CauseKept ==
    ASSUME TypeInv, CauseInv, [SessionNext]_sessionVars
    PROVE  CauseInv'
  <1>1. CASE SessionNext
    <2>1. CASE overlapped'
      BY <2>1 DEF CauseInv, ReplayHasACause
    <2>2. CASE ~overlapped'
      <3>1. ~overlapped  BY <1>1, <2>2, OverlappedStays
      <3>2. Alone /\ ~replayed  BY <3>1 DEF CauseInv, ReplayHasACause
      <3>3. Alone' /\ (replayed' => replayed)  BY <1>1, <2>2, <3>2, AloneKept
      <3> QED  BY <3>2, <3>3 DEF CauseInv, ReplayHasACause
    <2> QED  BY <2>1, <2>2
  <1>2. CASE UNCHANGED sessionVars
    <2>1. /\ UNCHANGED <<sessions, jar, flight>> /\ overlapped' = overlapped
          /\ replayed' = replayed /\ requests' = requests
      BY <1>2 DEF sessionVars
    <2>2. \A q \in Slot : requests'[q].token \in {requests[q].token, NoToken}  BY <2>1
    <2>3. Alone => Alone'  BY <2>1, <2>2, SameGenerations, QuietAlone
    <2> QED  BY <2>1, <2>3 DEF CauseInv, ReplayHasACause
  <1> QED  BY <1>1, <1>2

LEMMA CauseFirst == SessionInit => CauseInv
  <1> SUFFICES ASSUME SessionInit PROVE CauseInv  OBVIOUS
  <1>1. NoFlight.step = "none" /\ NoRequest.token = NoToken  BY DEF NoFlight, NoRequest
  <1>2. /\ \A t \in Tab : flight[t].step = "none"
        /\ \A r \in Slot : requests[r].token = NoToken
    BY <1>1 DEF SessionInit
  <1>3. Current(jar.refresh)
    <2>1. CASE jar = [refresh |-> NoToken, device |-> 0]
      BY <2>1 DEF Current, Live
    <2>2. ASSUME NEW u \in User,
                 sessions = <<[user |-> u, generation |-> 1, live |-> TRUE, device |-> 1,
                               recovery |-> FALSE]>>,
                 jar = [refresh |-> [session |-> 1, generation |-> 1], device |-> 1]
          PROVE  Current(jar.refresh)
      <3>1. PICK x : x = [session |-> 1, generation |-> 1]  OBVIOUS
      <3>2. jar.refresh = x /\ x.session = 1 /\ x.generation = 1  BY <2>2, <3>1
      <3>3. sessions[1].generation = 1  BY <2>2
      <3> QED  BY <3>2, <3>3 DEF Current
    <2> QED  BY <2>1, <2>2 DEF SessionInit
  <1>4. Alone
    BY <1>2, <1>3 DEF Alone, RefreshesAlone, Undelivered, Refreshing
  <1> QED  BY <1>4 DEF CauseInv, ReplayHasACause, SessionInit

\* The server only revokes a session for the reuse of a refresh token after two tabs
\* refreshed at once or an answer was lost: ReplayHasACause holds in every state.
THEOREM ReuseHasACause == SessionSpec => []ReplayHasACause
  <1>1. CauseInv => ReplayHasACause  BY DEF CauseInv
  <1> QED  BY <1>1, SessionTypeCorrect, CauseFirst, CauseKept, PTL DEF SessionSpec

-----------------------------------------------------------------------------
(* Nobody acts as another user than the one who is shown.                  *)

\* Whatever can still bring a live token into a page is of one user, who is the one
\* the pages show.
Belongs(w) ==
    /\ Live(jar.refresh) => Owner(jar.refresh) = w
    /\ \A t \in Tab :
         /\ Refreshing(t) /\ Live(flight[t].cookie) => Owner(flight[t].cookie) = w
         /\ tab[t].phase = "loading" /\ flight[t].step = "granted" =>
              Owner(flight[t].token) = w
         /\ tab[t].phase = "loading" => tab[t].user = Nobody
         /\ tab[t].phase = "authenticated" =>
              /\ tab[t].user = w
              /\ Live(tab[t].access) => Owner(tab[t].access) = w

OneUser == \E w \in User \cup {Nobody} : Belongs(w)

OneUserInv == foreign \/ OneUser

LEMMA ShownUser == OneUserInv => ActsAsShownUser
  <1> SUFFICES ASSUME OneUserInv, ~foreign PROVE ActsAsShownUser
    BY DEF ActsAsShownUser
  <1>1. PICK w \in User \cup {Nobody} : Belongs(w)  BY DEF OneUserInv, OneUser
  <1> QED  BY <1>1 DEF ActsAsShownUser, Belongs

LEMMA OneUserFirst == SessionInit => OneUserInv
  <1> SUFFICES ASSUME SessionInit PROVE OneUser  BY DEF OneUserInv
  <1>1. NoFlight.step = "none"  BY DEF NoFlight
  <1>2. /\ \A t \in Tab : flight[t].step = "none" /\ tab[t].phase = "closed"
    BY <1>1 DEF SessionInit
  <1>3. CASE jar = [refresh |-> NoToken, device |-> 0]
    <2>1. Belongs(Nobody)  BY <1>2, <1>3 DEF Belongs, Live, Refreshing
    <2> QED  BY <2>1 DEF OneUser
  <1>4. ASSUME NEW u \in User,
               sessions = <<[user |-> u, generation |-> 1, live |-> TRUE, device |-> 1,
                             recovery |-> FALSE]>>,
               jar = [refresh |-> [session |-> 1, generation |-> 1], device |-> 1]
        PROVE  OneUser
    <2>1. PICK x : x = [session |-> 1, generation |-> 1]  OBVIOUS
    <2>2. jar.refresh = x /\ x.session = 1  BY <1>4, <2>1
    <2>3. sessions[1].user = u  BY <1>4
    <2>4. x # NoToken  BY <2>2, NoTokenIsNone
    <2>5. Owner(jar.refresh) = u  BY <2>2, <2>3, <2>4 DEF Owner
    <2>6. Belongs(u)  BY <1>2, <2>5 DEF Belongs, Refreshing
    <2> QED  BY <2>6 DEF OneUser
  <1> QED  BY <1>3, <1>4 DEF SessionInit

\* What the tokens of cookies, flights and tabs say after a step.
LEMMA OwnersStay ==
    ASSUME TypeInv, SessionsStay
    PROVE  /\ jar' = jar => /\ Live(jar.refresh)' => Live(jar.refresh)
                            /\ Owner(jar.refresh)' = Owner(jar.refresh)
           /\ \A t \in Tab : flight'[t].cookie = flight[t].cookie =>
                /\ Live(flight[t].cookie)' => Live(flight[t].cookie)
                /\ Owner(flight[t].cookie)' = Owner(flight[t].cookie)
           /\ \A t \in Tab : flight'[t].token = flight[t].token =>
                Owner(flight[t].token)' = Owner(flight[t].token)
           /\ \A t \in Tab : tab'[t].access = tab[t].access =>
                /\ Live(tab[t].access)' => Live(tab[t].access)
                /\ Owner(tab[t].access)' = Owner(tab[t].access)
  <1>1. ASSUME jar' = jar PROVE /\ Live(jar.refresh)' => Live(jar.refresh)
                                /\ Owner(jar.refresh)' = Owner(jar.refresh)
    <2>1. PICK x \in AnyToken : x = jar.refresh /\ IsIssued(x)
      BY RowsOfTypeInv DEF GoodJar, Cookies
    <2>2. (Live(x)' => Live(x)) /\ Owner(x)' = Owner(x)  BY <2>1, Stays
    <2> QED  BY <1>1, <2>1, <2>2
  <1>2. ASSUME NEW t \in Tab, flight'[t].cookie = flight[t].cookie
        PROVE  /\ Live(flight[t].cookie)' => Live(flight[t].cookie)
               /\ Owner(flight[t].cookie)' = Owner(flight[t].cookie)
    <2>1. PICK x \in AnyToken : x = flight[t].cookie /\ IsIssued(x)
      BY RowsOfTypeInv DEF GoodFlight, Flights
    <2>2. (Live(x)' => Live(x)) /\ Owner(x)' = Owner(x)  BY <2>1, Stays
    <2> QED  BY <1>2, <2>1, <2>2
  <1>3. ASSUME NEW t \in Tab, flight'[t].token = flight[t].token
        PROVE  Owner(flight[t].token)' = Owner(flight[t].token)
    <2>1. PICK x \in AnyToken : x = flight[t].token /\ IsIssued(x)
      BY RowsOfTypeInv DEF GoodFlight, Flights
    <2>2. Owner(x)' = Owner(x)  BY <2>1, Stays
    <2> QED  BY <1>3, <2>1, <2>2
  <1>4. ASSUME NEW t \in Tab, tab'[t].access = tab[t].access
        PROVE  /\ Live(tab[t].access)' => Live(tab[t].access)
               /\ Owner(tab[t].access)' = Owner(tab[t].access)
    <2>1. PICK x \in AnyToken : x = tab[t].access /\ IsIssued(x)
      BY RowsOfTypeInv DEF GoodTab, TabState
    <2>2. (Live(x)' => Live(x)) /\ Owner(x)' = Owner(x)  BY <2>1, Stays
    <2> QED  BY <1>4, <2>1, <2>2
  <1> QED  BY <1>1, <1>2, <1>3, <1>4

\* The part of Belongs that is about one tab.
TabBelongs(t, w) ==
    /\ Refreshing(t) /\ Live(flight[t].cookie) => Owner(flight[t].cookie) = w
    /\ tab[t].phase = "loading" /\ flight[t].step = "granted" => Owner(flight[t].token) = w
    /\ tab[t].phase = "loading" => tab[t].user = Nobody
    /\ tab[t].phase = "authenticated" =>
         /\ tab[t].user = w
         /\ Live(tab[t].access) => Owner(tab[t].access) = w
JarBelongs(w) == Live(jar.refresh) => Owner(jar.refresh) = w

LEMMA BelongsParts ==
    ASSUME NEW w
    PROVE  /\ Belongs(w) <=> JarBelongs(w) /\ \A t \in Tab : TabBelongs(t, w)
           /\ Belongs(w)' <=> JarBelongs(w)' /\ \A t \in Tab : TabBelongs(t, w)'
  BY DEF Belongs, JarBelongs, TabBelongs

LEMMA JarStays ==
    ASSUME TypeInv, SessionsStay, NEW w, Belongs(w),
           jar' = jar \/ jar' = [jar EXCEPT !.refresh = NoToken]
    PROVE  JarBelongs(w)'
  <1>1. CASE jar' = jar  BY <1>1, OwnersStay DEF Belongs, JarBelongs
  <1>2. CASE jar' = [jar EXCEPT !.refresh = NoToken]
    <2>1. jar'.refresh = NoToken  BY <1>2, RowsOfTypeInv DEF GoodJar, Cookies
    <2> QED  BY <2>1 DEF JarBelongs, Live
  <1> QED  BY <1>1, <1>2

LEMMA TabStays ==
    ASSUME TypeInv, SessionsStay, NEW w, Belongs(w), NEW t \in Tab,
           \/ flight'[t] = flight[t]
           \/ ~Refreshing(t)'
           \/ Refreshing(t) /\ flight'[t].cookie = flight[t].cookie
                            /\ flight'[t].step # "granted",
           tab'[t] = tab[t] \/ tab'[t] = Anonymous(tab[t])
    PROVE  TabBelongs(t, w)'
  <1>1. TabBelongs(t, w)  BY BelongsParts
  <1>2. tab[t] \in TabState /\ Anonymous(tab[t]).phase = "anonymous"
    BY RowsOfTypeInv, TabFields
  <1>3. \/ tab'[t] = tab[t]
        \/ tab'[t].phase = "anonymous"
    BY <1>2
  <1>4. Refreshing(t)' /\ Live(flight[t].cookie)' => Owner(flight[t].cookie)' = w
    BY <1>1, OwnersStay DEF TabBelongs, Refreshing
  <1>5. tab'[t].phase = "loading" /\ flight'[t].step = "granted" =>
          Owner(flight[t].token)' = w
    BY <1>1, <1>3, OwnersStay DEF TabBelongs, Refreshing
  <1>6. tab'[t].phase = "authenticated" =>
          /\ tab'[t].user = w
          /\ Live(tab[t].access)' => Owner(tab[t].access)' = w
    BY <1>1, <1>3, OwnersStay DEF TabBelongs
  <1>7. tab'[t].phase = "loading" => tab'[t].user = Nobody
    BY <1>1, <1>3 DEF TabBelongs
  <1> QED  BY <1>4, <1>5, <1>6, <1>7 DEF TabBelongs

\* A step that only ends sessions, requests and flights, or sends an older page away.
LEMMA BelongsStays ==
    ASSUME TypeInv, SessionsStay, NEW w, Belongs(w),
           jar' = jar \/ jar' = [jar EXCEPT !.refresh = NoToken],
           \A u \in Tab :
              /\ \/ flight'[u] = flight[u]
                 \/ ~Refreshing(u)'
                 \/ Refreshing(u) /\ flight'[u].cookie = flight[u].cookie
                                  /\ flight'[u].step # "granted"
              /\ tab'[u] = tab[u] \/ tab'[u] = Anonymous(tab[u])
    PROVE  Belongs(w)'
  <1>1. JarBelongs(w)'  BY JarStays
  <1>2. ASSUME NEW u \in Tab PROVE TabBelongs(u, w)'  BY TabStays
  <1> QED  BY <1>1, <1>2, BelongsParts

LEMMA OpenTabBelongs ==
    ASSUME TypeInv, NEW w, Belongs(w), NEW t \in Tab, OpenTab(t)
    PROVE  Belongs(w)'
  <1>1. UNCHANGED <<sessions, jar>> /\ SessionsStay  BY SameSessions DEF OpenTab
  <1>2. /\ tab'[t].phase = "loading" /\ tab'[t].user = Nobody /\ flight'[t].step = "site"
        /\ \A u \in Tab \ {t} : flight'[u] = flight[u] /\ tab'[u] = tab[u]
    BY RowsOfTypeInv DEF OpenTab, NoFlight
  <1>3. TabBelongs(t, w)'  BY <1>2 DEF TabBelongs, Refreshing
  <1>4. ASSUME NEW u \in Tab \ {t} PROVE TabBelongs(u, w)'
    BY <1>1, <1>2, TabStays
  <1>5. JarBelongs(w)'  BY <1>1, JarStays
  <1> QED  BY <1>3, <1>4, <1>5, BelongsParts

LEMMA StartRefreshBelongs ==
    ASSUME TypeInv, NEW w, Belongs(w), NEW t \in Tab, StartRefresh(t),
           UNCHANGED <<sessions, jar, tab>>
    PROVE  Belongs(w)'
  <1>1. SessionsStay  BY SameSessions
  <1>2. CASE Refreshing(t)
    BY <1>1, <1>2, BelongsStays DEF StartRefresh
  <1>3. CASE ~Refreshing(t)
    <2>1. /\ flight'[t].step = "sent" /\ flight'[t].cookie = jar.refresh
          /\ \A u \in Tab \ {t} : flight'[u] = flight[u]
      BY <1>3, RowsOfTypeInv DEF StartRefresh, Sent
    <2>2. JarBelongs(w)'  BY <1>1, JarStays
    <2>3. TabBelongs(t, w)  BY BelongsParts
    <2>4. tab[t].phase = "authenticated" /\ Live(tab[t].access)' => Owner(tab[t].access)' = w
      BY <1>1, <2>3, OwnersStay DEF TabBelongs
    <2>5. TabBelongs(t, w)'
      BY <2>1, <2>2, <2>3, <2>4 DEF TabBelongs, JarBelongs
    <2>6. ASSUME NEW u \in Tab \ {t} PROVE TabBelongs(u, w)'
      BY <1>1, <2>1, TabStays
    <2> QED  BY <2>2, <2>5, <2>6, BelongsParts
  <1> QED  BY <1>2, <1>3

\* A refresh that is granted brings a token of the session of its cookie.
LEMMA ServerRefreshesBelongs ==
    ASSUME TypeInv, NEW w, Belongs(w), NEW t \in Tab, ServerRefreshes(t)
    PROVE  Belongs(w)'
  <1>1. SessionsStay /\ UNCHANGED <<jar, tab>>
    BY ServerRefreshesTyped DEF ServerRefreshes
  <1>2. PICK c \in AnyToken : c = flight[t].cookie /\ IsIssued(c)
    BY RowsOfTypeInv DEF GoodFlight, Flights
  <1>3. flight[t].step = "sent" /\ flight[t] \in Flights
    BY RowsOfTypeInv DEF ServerRefreshes
  <1>4. CASE flight' = [flight EXCEPT ![t].step = "refused"]
    <2>1. /\ flight'[t] = [flight[t] EXCEPT !.step = "refused"]
          /\ \A u \in Tab \ {t} : flight'[u] = flight[u]
      BY <1>4, RowsOfTypeInv
    <2>2. flight'[t].step = "refused" /\ flight'[t].cookie = flight[t].cookie
      BY <1>3, <2>1 DEF Flights
    <2>3. Refreshing(t)  BY <1>3 DEF Refreshing
    <2> QED  BY <1>1, <2>1, <2>2, <2>3, BelongsStays
  <1>5. CASE /\ c # NoToken /\ sessions[c.session].live
             /\ flight' = [flight EXCEPT ![t].step = "granted",
                              ![t].token = [c EXCEPT !.generation = @ + 1]]
    <2>1. c \in Token /\ c.session \in DOMAIN sessions /\ Live(c)
      BY <1>2, <1>5, NoTokenIsNone DEF IsIssued, Live
    <2>2. PICK x : x = [c EXCEPT !.generation = @ + 1]  OBVIOUS
    <2>3. x.session = c.session  BY <2>1, <2>2 DEF Token
    <2>4. /\ flight'[t].step = "granted" /\ flight'[t].token = x /\ flight'[t].cookie = c
          /\ \A u \in Tab \ {t} : flight'[u] = flight[u]
      <3>1. flight'[t] = [flight[t] EXCEPT !.step = "granted", !.token = x]
        BY <1>5, <2>2, RowsOfTypeInv
      <3>2. \A u \in Tab \ {t} : flight'[u] = flight[u]  BY <1>5, RowsOfTypeInv
      <3> QED  BY <1>2, <1>3, <3>1, <3>2 DEF Flights
    <2>5. TabBelongs(t, w)  BY BelongsParts
    <2>6. Owner(c) = w  BY <1>2, <1>3, <2>1, <2>5 DEF TabBelongs, Refreshing
    <2>7. Owner(c)' = w  BY <1>1, <1>2, <2>6, Stays
    <2>8. x # NoToken /\ c # NoToken
      BY <2>1, <2>3, NoTokenIsNone DEF AnyToken
    <2>9. Owner(x)' = w  BY <2>3, <2>7, <2>8 DEF Owner
    <2>10. tab[t].phase = "authenticated" /\ Live(tab[t].access)' => Owner(tab[t].access)' = w
      BY <1>1, <2>5, OwnersStay DEF TabBelongs
    <2>11. TabBelongs(t, w)'
      <3>1. PICK y : y = flight'[t].token /\ y = x  BY <2>4
      <3>2. PICK z : z = flight'[t].cookie /\ z = c  BY <2>4
      <3>3. Owner(flight[t].token)' = w /\ Owner(flight[t].cookie)' = w
        BY <2>7, <2>9, <2>4 DEF Owner
      <3> QED  BY <1>1, <2>5, <2>10, <3>3 DEF TabBelongs
    <2>12. ASSUME NEW u \in Tab \ {t} PROVE TabBelongs(u, w)'
      BY <1>1, <2>4, TabStays
    <2>13. JarBelongs(w)'  BY <1>1, JarStays
    <2> QED  BY <2>11, <2>12, <2>13, BelongsParts
  <1> QED  BY <1>2, <1>4, <1>5 DEF ServerRefreshes

\* The answer of a refresh gives cookies and page a token of the session of the
\* cookie it was sent with.
LEMMA RefreshGrantedBelongs ==
    ASSUME TypeInv, NEW w, Belongs(w), NEW t \in Tab, RefreshGranted(t)
    PROVE  Belongs(w)'
  <1>1. UNCHANGED sessions /\ SessionsStay  BY SameSessions DEF RefreshGranted
  <1>2. GoodFlight(flight[t]) /\ flight[t].step = "granted" /\ tab[t] \in TabState
        /\ jar \in Cookies
    BY RowsOfTypeInv DEF RefreshGranted, GoodJar
  <1>3. PICK x \in AnyToken : x = flight[t].token /\ IsIssued(x)
    BY <1>2 DEF GoodFlight, Flights
  <1>4. PICK c \in AnyToken : c = flight[t].cookie /\ IsIssued(c)
    BY <1>2 DEF GoodFlight, Flights
  <1>5. x # NoToken /\ x.session = c.session  BY <1>2, <1>3, <1>4 DEF GoodFlight
  <1>6. c # NoToken  BY <1>5, NoTokenIsNone
  <1>7. TabBelongs(t, w)  BY BelongsParts
  <1>8. Live(x) => Owner(x) = w
    BY <1>2, <1>4, <1>5, <1>6, <1>7 DEF TabBelongs, Refreshing, Live, Owner
  <1>9. Live(x)' => Owner(x)' = w  BY <1>1, <1>3, <1>8, Stays
  <1>10. JarBelongs(w)'
    <2>1. jar'.refresh = x  BY <1>2, <1>3 DEF RefreshGranted, Cookies
    <2> QED  BY <1>9, <2>1 DEF JarBelongs, Live, Owner
  <1>11. /\ flight'[t].step = "none"
         /\ \A u \in Tab \ {t} : flight'[u] = flight[u] /\ tab'[u] = tab[u]
    BY RowsOfTypeInv DEF RefreshGranted, NoFlight
  <1>12. TabBelongs(t, w)'
    <2>1. tab[t].phase = "loading" =>
            tab'[t].phase = "authenticated" /\ tab'[t].user = w /\ tab'[t].access = x
      <3> SUFFICES ASSUME tab[t].phase = "loading"
                   PROVE  tab'[t].phase = "authenticated" /\ tab'[t].user = w /\ tab'[t].access = x
        OBVIOUS
      <3>1. tab'[t] = Authenticated(tab[t], Owner(x), x)
        BY <1>3, RowsOfTypeInv DEF RefreshGranted
      <3>2. Owner(x) = w  BY <1>2, <1>3, <1>7 DEF TabBelongs
      <3> QED  BY <1>2, <3>1, <3>2, TabFields
    <2>2. tab[t].phase # "loading" =>
            tab'[t].phase = tab[t].phase /\ tab'[t].user = tab[t].user /\ tab'[t].access = x
      <3> SUFFICES ASSUME tab[t].phase # "loading"
                   PROVE  tab'[t].phase = tab[t].phase /\ tab'[t].user = tab[t].user
                          /\ tab'[t].access = x
        OBVIOUS
      <3>1. tab'[t] = [tab[t] EXCEPT !.access = x]
        BY <1>3, RowsOfTypeInv DEF RefreshGranted
      <3> QED  BY <1>2, <3>1, TabFields
    <2>3. tab'[t].access = x /\ tab'[t].phase # "loading"  BY <2>1, <2>2
    <2>4. tab'[t].phase = "authenticated" => tab'[t].user = w
      BY <1>7, <2>1, <2>2 DEF TabBelongs
    <2>5. Live(tab[t].access)' => Owner(tab[t].access)' = w
      BY <1>9, <2>3 DEF Live, Owner
    <2> QED  BY <1>11, <2>3, <2>4, <2>5 DEF TabBelongs, Refreshing
  <1>13. ASSUME NEW u \in Tab \ {t} PROVE TabBelongs(u, w)'
    BY <1>1, <1>11, TabStays
  <1> QED  BY <1>10, <1>12, <1>13, BelongsParts

\* A login beside no other user makes its user the one everything belongs to.
LEMMA LogsInBelongs ==
    ASSUME TypeInv, OneUser, NEW r \in Slot, UNCHANGED <<sessions, flight>>,
           requests[r].op \in {"login", "verify"}, requests[r].token # NoToken,
           jar'.refresh = requests[r].token,
           tab' = [tab EXCEPT ![TabOf[r]] =
                     Authenticated(@, requests[r].user, requests[r].token)],
           ~BesideAnother(TabOf[r], requests[r].user)
    PROVE  OneUser'
  <1>1. PICK t \in Tab : t = TabOf[r]  BY ClientSessionAssumption
  <1>2. PICK v \in User : v = requests[r].user
    BY RowsOfTypeInv DEF GoodRequest
  <1>3. PICK x \in AnyToken : x = requests[r].token /\ IsIssued(x)
    BY RowsOfTypeInv DEF GoodRequest, ClientRequest
  <1>4. x # NoToken /\ Owner(x) = v
    BY <1>2, <1>3, RowsOfTypeInv DEF GoodRequest
  <1>5. UNCHANGED <<sessions, flight>> /\ SessionsStay  BY SameSessions
  <1>6. Owner(x)' = v  BY <1>3, <1>4, <1>5, Stays
  <1>7. ~BesideAnother(t, v)  BY <1>1, <1>2
  <1>8. PICK w \in User \cup {Nobody} : Belongs(w)  BY DEF OneUser
  <1>9. JarBelongs(v)'
    <2>1. jar'.refresh = x  BY <1>3
    <2> QED  BY <1>6, <2>1 DEF JarBelongs, Owner
  <1>10. \A u \in Tab : Refreshing(u)' /\ Live(flight[u].cookie)' => Owner(flight[u].cookie)' = v
    <2> TAKE u \in Tab
    <2>1. Refreshing(u) /\ Live(flight[u].cookie) => Owner(flight[u].cookie) = v
      BY <1>7 DEF BesideAnother
    <2> QED  BY <1>5, <2>1, OwnersStay DEF Refreshing
  <1>11. TabBelongs(t, v)'
    <2>1. tab'[t] = Authenticated(tab[t], v, x)
      BY <1>1, <1>2, <1>3, RowsOfTypeInv
    <2>2. tab'[t].phase = "authenticated" /\ tab'[t].user = v /\ tab'[t].access = x
      BY <2>1, RowsOfTypeInv, TabFields
    <2>3. Owner(tab[t].access)' = v  BY <1>6, <2>2 DEF Owner
    <2> QED  BY <1>10, <2>2, <2>3 DEF TabBelongs
  <1>12. ASSUME NEW u \in Tab \ {t} PROVE TabBelongs(u, v)'
    <2>1. tab'[u] = tab[u] /\ flight'[u] = flight[u]
      BY <1>1, <1>5, RowsOfTypeInv
    <2>2. TabBelongs(u, w)  BY <1>8, BelongsParts
    <2>3. tab[u].phase \in {"closed", "anonymous"} \/ tab[u].user = v
      BY <1>7 DEF BesideAnother
    <2>4. tab[u].phase # "loading"
      BY <2>2, <2>3, ClientSessionAssumption DEF TabBelongs
    <2>5. tab[u].phase = "authenticated" => v = w
      BY <2>2, <2>3 DEF TabBelongs
    <2>6. TabBelongs(u, w)'  BY <1>5, <1>8, <2>1, TabStays
    <2> QED  BY <1>10, <2>1, <2>4, <2>5, <2>6 DEF TabBelongs
  <1>13. Belongs(v)'  BY <1>9, <1>11, <1>12, BelongsParts
  <1> QED  BY <1>13 DEF OneUser

\* The late answer of a changed profile shows the user who is shown, or nobody sees it.
LEMMA ProfileArrivesBelongs ==
    ASSUME TypeInv, NEW w, Belongs(w), NEW r \in Slot, ProfileArrives(r), ~foreign'
    PROVE  Belongs(w)'
  <1>1. UNCHANGED <<sessions, jar, flight>> /\ SessionsStay
    BY SameSessions DEF ProfileArrives
  <1>2. PICK t \in Tab : t = TabOf[r]  BY ClientSessionAssumption
  <1>3. tab[t] \in TabState  BY RowsOfTypeInv
  <1>4. /\ tab'[t] = [tab[t] EXCEPT !.user = requests[r].user]
        /\ \A u \in Tab \ {t} : tab'[u] = tab[u]
    BY <1>2, RowsOfTypeInv DEF ProfileArrives
  <1>5. CASE tab[t].user = requests[r].user
    <2>1. tab'[t] = tab[t]  BY <1>3, <1>4, <1>5 DEF TabState
    <2> QED  BY <1>1, <1>4, <2>1, BelongsStays
  <1>6. CASE tab[t].phase = "anonymous"
    <2>1. tab'[t].phase = "anonymous"  BY <1>3, <1>4, <1>6 DEF TabState
    <2>2. Refreshing(t)' /\ Live(flight[t].cookie)' => Owner(flight[t].cookie)' = w
      BY <1>1, OwnersStay DEF Belongs, Refreshing
    <2>3. TabBelongs(t, w)'  BY <2>1, <2>2 DEF TabBelongs
    <2>4. ASSUME NEW u \in Tab \ {t} PROVE TabBelongs(u, w)'
      BY <1>1, <1>4, TabStays
    <2>5. JarBelongs(w)'  BY <1>1, JarStays
    <2> QED  BY <2>3, <2>4, <2>5, BelongsParts
  <1> QED  BY <1>2, <1>5, <1>6 DEF ProfileArrives

LEMMA OneUserStep ==
    ASSUME TypeInv, OneUser, SessionNext, ~foreign'
    PROVE  OneUser'
  <1>1. PICK w \in User \cup {Nobody} : Belongs(w)  BY DEF OneUser
  <1>2. Belongs(w)' => OneUser'  BY <1>1 DEF OneUser
  <1>3. ASSUME NEW t \in Tab, OpenTab(t)  PROVE OneUser'
    BY <1>1, <1>2, <1>3, OpenTabBelongs
  <1>4. ASSUME NEW t \in Tab, SiteArrives(t)  PROVE OneUser'
    BY <1>1, <1>2, <1>4, StartRefreshBelongs DEF SiteArrives
  <1>5. ASSUME NEW t \in Tab, ServerRefreshes(t)  PROVE OneUser'
    BY <1>1, <1>2, <1>5, ServerRefreshesBelongs
  <1>6. ASSUME NEW t \in Tab, ServerUnavailable(t)  PROVE OneUser'
    <2>1. SessionsStay /\ UNCHANGED <<jar, tab>>
      BY <1>6, SameSessions DEF ServerUnavailable
    <2>2. /\ flight'[t] = [flight[t] EXCEPT !.step = "refused"]
          /\ \A u \in Tab \ {t} : flight'[u] = flight[u]
      BY <1>6, RowsOfTypeInv DEF ServerUnavailable
    <2>3. flight'[t].step = "refused" /\ flight'[t].cookie = flight[t].cookie
      BY <2>2, RowsOfTypeInv DEF Flights
    <2>4. Refreshing(t)  BY <1>6 DEF ServerUnavailable, Refreshing
    <2>5. Belongs(w)'  BY <1>1, <2>1, <2>2, <2>3, <2>4, BelongsStays
    <2> QED  BY <1>2, <2>5
  <1>7. ASSUME NEW t \in Tab, RefreshGranted(t)  PROVE OneUser'
    BY <1>1, <1>2, <1>7, RefreshGrantedBelongs
  <1>8. ASSUME NEW t \in Tab, RefreshRefused(t) \/ RefreshLost(t)  PROVE OneUser'
    <2>1. /\ UNCHANGED sessions /\ SessionsStay
          /\ jar' = jar \/ jar' = [jar EXCEPT !.refresh = NoToken]
      BY <1>8, SameSessions DEF RefreshRefused, RefreshLost
    <2>2. ~Refreshing(t)' /\ \A u \in Tab \ {t} : flight'[u] = flight[u]
      BY <1>8, RowsOfTypeInv DEF RefreshRefused, RefreshLost, NoFlight, Refreshing
    <2>3. \A u \in Tab : tab'[u] = tab[u] \/ tab'[u] = Anonymous(tab[u])
      BY <1>8, RowsOfTypeInv DEF RefreshRefused, RefreshLost
    <2>4. Belongs(w)'  BY <1>1, <2>1, <2>2, <2>3, BelongsStays
    <2> QED  BY <1>2, <2>4
  <1>9. ASSUME NEW r \in Slot, ServerAnswers(r)  PROVE OneUser'
    <2>1. requests[r].used.session \in Nat
      <3>1. requests[r].used \in AnyToken  BY RowsOfTypeInv DEF ClientRequest
      <3> QED  BY <3>1, NoTokenIsNone, ClientSessionAssumption DEF AnyToken, Token, NoToken
    <2>2. SessionsStay  BY <1>9, <2>1, SameSessions, SessionEnds DEF ServerAnswers
    <2>3. Belongs(w)'  BY <1>1, <1>9, <2>2, BelongsStays DEF ServerAnswers
    <2> QED  BY <1>2, <2>3
  <1>10. ASSUME NEW r \in Slot, ServerLogsIn(r) \/ ServerRegisters(r)  PROVE OneUser'
    <2>1. SessionsStay  BY <1>10, SessionAnswersTyped
    <2>2. UNCHANGED <<jar, tab, flight>>  BY <1>10, SessionAnswers
    <2>3. Belongs(w)'  BY <1>1, <2>1, <2>2, BelongsStays
    <2> QED  BY <1>2, <2>3
  <1>11. ASSUME NEW r \in Slot, Succeeds(r) \/ LogsOut(r) \/ RefusedAgain(r) \/ Lost(r)
         PROVE OneUser'
    <2>1. /\ SessionsStay /\ UNCHANGED flight
          /\ jar' = jar \/ jar' = [jar EXCEPT !.refresh = NoToken]
      BY <1>11, SameSessions DEF Succeeds, LogsOut, RefusedAgain, Lost
    <2>2. \A u \in Tab : tab'[u] = tab[u] \/ tab'[u] = Anonymous(tab[u])
      BY <1>11, RowsOfTypeInv DEF Succeeds, LogsOut, RefusedAgain, Lost
    <2>3. Belongs(w)'  BY <1>1, <2>1, <2>2, BelongsStays
    <2> QED  BY <1>2, <2>3
  <1>12. ASSUME NEW r \in Slot, LoginSucceeds(r) \/ Registered(r)  PROVE OneUser'
    <2>1. UNCHANGED <<sessions, flight>> /\ requests[r].op \in {"login", "verify"}
      BY <1>12 DEF LoginSucceeds, Registered
    <2>2. \/ UNCHANGED <<jar, tab>>
          \/ /\ requests[r].token # NoToken /\ jar'.refresh = requests[r].token
             /\ tab' = [tab EXCEPT ![TabOf[r]] =
                          Authenticated(@, requests[r].user, requests[r].token)]
             /\ ~BesideAnother(TabOf[r], requests[r].user)
      <3>1. CASE LoginSucceeds(r)
        BY <3>1, RowsOfTypeInv DEF LoginSucceeds, GoodRequest
      <3>2. CASE Registered(r)
        BY <3>2, RowsOfTypeInv DEF Registered, GoodJar, Cookies
      <3> QED  BY <1>12, <3>1, <3>2
    <2>3. CASE UNCHANGED <<jar, tab>>
      <3>1. Belongs(w)'  BY <1>1, <2>1, <2>3, SameSessions, BelongsStays
      <3> QED  BY <1>2, <3>1
    <2>4. CASE ~UNCHANGED <<jar, tab>>
      BY <2>1, <2>2, <2>4, LogsInBelongs
    <2> QED  BY <2>3, <2>4
  <1>12a. ASSUME NEW r \in Slot, ProfileArrives(r)  PROVE OneUser'
    BY <1>1, <1>2, <1>12a, ProfileArrivesBelongs
  <1>13. ASSUME NEW r \in Slot, Refused(r)  PROVE OneUser'
    <2>1. PICK t \in Tab : t = TabOf[r]  BY ClientSessionAssumption
    <2>2. UNCHANGED <<sessions, jar, tab>> /\ SessionsStay
      BY <1>13, SameSessions DEF Refused
    <2>3. CASE StartRefresh(t)
      BY <1>1, <1>2, <2>2, <2>3, StartRefreshBelongs
    <2>4. CASE UNCHANGED flight
      BY <1>1, <1>2, <2>2, <2>4, BelongsStays
    <2> QED  BY <1>13, <2>1, <2>3, <2>4 DEF Refused
  <1>14. ASSUME UNCHANGED <<jar, tab, flight>>, SessionsStay  PROVE OneUser'
    BY <1>1, <1>2, <1>14, BelongsStays
  <1>15. ASSUME NEW r \in Slot, NEW op, SendRequest(r, op)  PROVE OneUser'
    BY <1>14, <1>15, SameSessions DEF SendRequest
  <1>16. ASSUME NEW r \in Slot, NEW u \in User, Login(r, u)  PROVE OneUser'
    BY <1>14, <1>16, SameSessions DEF Login
  <1>17. ASSUME NEW token \in Token, Expires(token)  PROVE OneUser'
    BY <1>14, <1>17, SameSessions DEF Expires
  <1>18. ASSUME NEW s \in 1 .. MaxSessions, Revoked(s)  PROVE OneUser'
    <2>1. s \in Nat  BY ClientSessionAssumption
    <2>2. SessionsStay  BY <1>18, <2>1, SessionEnds DEF Revoked
    <2> QED  BY <1>14, <1>18, <2>2 DEF Revoked
  <1>19. ASSUME NEW t \in Tab, Refreshes(t) \/ RefreshLost(t) \/ OpenTab(t)  PROVE OneUser'
    BY <1>3, <1>4, <1>5, <1>6, <1>7, <1>8, <1>19 DEF Refreshes
  <1>20. ASSUME NEW r \in Slot, Answers(r) \/ Lost(r)  PROVE OneUser'
    BY <1>9, <1>10, <1>11, <1>12, <1>12a, <1>13, <1>20 DEF Answers
  <1> QED
    BY <1>15, <1>16, <1>17, <1>18, <1>19, <1>20 DEF SessionNext

LEMMA ForeignStays ==
    ASSUME SessionNext, foreign
    PROVE  foreign'
  <1>1. ASSUME NEW t \in Tab, Refreshes(t) \/ RefreshLost(t) \/ OpenTab(t)
        PROVE  foreign'
    BY <1>1 DEF Refreshes, RefreshLost, OpenTab, SiteArrives, ServerRefreshes,
                ServerUnavailable, RefreshGranted, RefreshRefused
  <1>2. ASSUME NEW r \in Slot, Answers(r) \/ Lost(r)
        PROVE  foreign'
    BY <1>2 DEF Answers, Lost, ServerAnswers, ServerLogsIn, ServerRegisters, Succeeds,
                ProfileArrives, LoginSucceeds, Registered, LogsOut, Refused, RefusedAgain
  <1>3. ASSUME NEW r \in Slot, NEW op, SendRequest(r, op) PROVE foreign'
    BY <1>3 DEF SendRequest
  <1>4. ASSUME NEW r \in Slot, NEW u \in User, Login(r, u) PROVE foreign'
    BY <1>4 DEF Login
  <1>5. ASSUME NEW token \in Token, Expires(token) PROVE foreign'
    BY <1>5 DEF Expires
  <1>6. ASSUME NEW s \in 1 .. MaxSessions, Revoked(s) PROVE foreign'
    BY <1>6 DEF Revoked
  <1> QED  BY <1>1, <1>2, <1>3, <1>4, <1>5, <1>6 DEF SessionNext

LEMMA OneUserKept ==
    ASSUME TypeInv, OneUserInv, [SessionNext]_sessionVars
    PROVE  OneUserInv'
  <1>1. CASE SessionNext
    BY <1>1, ForeignStays, OneUserStep DEF OneUserInv
  <1>2. CASE UNCHANGED sessionVars
    <2>1. UNCHANGED <<sessions, jar, tab, flight, foreign>>  BY <1>2 DEF sessionVars
    <2>2. SessionsStay  BY <2>1, SameSessions
    <2>3. ASSUME NEW w \in User \cup {Nobody}, Belongs(w) PROVE OneUser'
      <3>1. Belongs(w)'  BY <2>1, <2>2, <2>3, BelongsStays
      <3> QED  BY <3>1 DEF OneUser
    <2> QED  BY <2>1, <2>3 DEF OneUserInv, OneUser
  <1> QED  BY <1>1, <1>2

\* No page acts with a live token of another user than the one it shows, unless a
\* login came beside another tab's user or a refresh under way, or the late answer of a
\* changed profile came to another user's page: ActsAsShownUser holds in every state.
THEOREM ShownUserActs == SessionSpec => []ActsAsShownUser
  BY SessionTypeCorrect, OneUserFirst, OneUserKept, ShownUser, PTL DEF SessionSpec
=============================================================================
