SPECIFICATION FairSpec
CONSTANTS
    Reader = {r1}
    Cred = {c1}
    Dev = {d1}
    Sess = {s1, s2}
    Tok = {t1, t2}
    Req = {p1, p2}
    NoReader = NoReader
    NoCred = NoCred
    NoDev = NoDev
    NoSess = NoSess
    NoTok = NoTok
    MaxClock = 0
    TTL = 1
    Limits = {1}
PROPERTIES
    RequestsEnd
CHECK_DEADLOCK FALSE
