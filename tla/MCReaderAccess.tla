--------------------------- MODULE MCReaderAccess ---------------------------
(* Instances of ReaderAccess for TLC.                                      *)
EXTENDS ReaderAccess, TLC

Symmetry == Permutations(Cred) \cup Permutations(Dev) \cup Permutations(Sess)
            \cup Permutations(Tok) \cup Permutations(Req)

\* All races of logins, refreshes, revocations and the credential's lifecycle, while
\* the clock stands still and no credential is edited.  (A limit says nothing of a
\* credential that authorises no new device.)
Still ==
    /\ clock = 0
    /\ \A c \in Cred \ FreshCred : cred[c].expires = MaxClock + 1
    /\ \A s \in Sess \ FreshSess : sess[s].expires = MaxClock + 1
    /\ \A c \in Cred : ~cred[c].allow => cred[c].max = 1
    /\ \A p \in Req : /\ req[p].op # "update"
                      /\ req[p].op = "reissue" => req[p].expires = MaxClock + 1

\* Time passes and the expiry is edited, with one credential of one device and two
\* sessions.
Few ==
    /\ Cardinality(Cred \ FreshCred) <= 1 /\ Cardinality(Dev \ FreshDev) <= 1
    /\ Cardinality(Sess \ FreshSess) <= 2 /\ Cardinality(Tok \ FreshTok) <= 2
    /\ \A c \in Cred \ FreshCred : cred[c].max = 1 /\ cred[c].allow
    /\ \A p \in Req : req[p].op # "reissue"

FewOrStill == Still' \/ Few'
=============================================================================
