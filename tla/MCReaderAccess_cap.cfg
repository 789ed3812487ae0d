SPECIFICATION Spec
CONSTANTS
    Reader = {r1}
    Cred = {c1}
    Dev = {d1}
    Sess = {s1, s2}
    Tok = {t1, t2}
    Req = {p1, p2}
    NoReader = NoReader
    NoCred = NoCred
    NoDev = NoDev
    NoSess = NoSess
    NoTok = NoTok
    MaxClock = 1
    TTL = 2
    Limits = {1}
INVARIANTS
    SessionWithinCredential
CHECK_DEADLOCK FALSE
