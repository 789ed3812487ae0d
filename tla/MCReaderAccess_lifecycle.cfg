SPECIFICATION Spec
CONSTANTS
    Reader = {r1}
    Cred = {c1, c2}
    Dev = {d1, d2}
    Sess = {s1, s2, s3}
    Tok = {t1, t2, t3}
    Req = {p1, p2}
    NoReader = NoReader
    NoCred = NoCred
    NoDev = NoDev
    NoSess = NoSess
    NoTok = NoTok
    MaxClock = 1
    TTL = 2
    Limits = {1, 2}
ACTION_CONSTRAINT FewOrStill
SYMMETRY Symmetry
INVARIANTS
    TypeOK
    InactiveCredentialHasNoLiveSession
    RevokedCredentialHasNoActiveDevice
    RevokedSessionHasNoLiveToken
    OneExchangeableToken
    OneLiveSessionPerDevice
PROPERTIES
    DeviceLimitAtAuthorization
    OperationsAreAtomic
CHECK_DEADLOCK FALSE
