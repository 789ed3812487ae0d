SPECIFICATION AdministrationSpec
CONSTANTS
    Passkey = {k1, k2}
    Device = {d1}
    s1 = s1  s2 = s2  s3 = s3  s4 = s4  g1 = g1  g2 = g2  r1 = r1  r2 = r2
    Session <- FourSessions
    Req = {p1, p2}
    Authentication = {a1}
    Registration <- TwoRegistrations
    Recovery <- TwoRecoveries
    Site = Site
    NoKey = NoKey
    NoToken = NoToken
    NoDevice = NoDevice
    NoSession = NoSession
    book1 = book1  book2 = book2
    edition1 = edition1  edition2 = edition2  edition3 = edition3
    h1 = h1  h2 = h2
    BookId = {book1, book2}
    EditionId = {edition1, edition2, edition3}
    StoredId <- SixFiles
    Person = {owner, guest}
    Administrator = owner
    Handler = {h1, h2}
    Null = Null
    MaxFileRevision = 2
    MaxServed = 3
SYMMETRY AdministrationSymmetry
INVARIANTS
    RowsTypeOK
    RevokedPasskeyHasNoLiveSession
    TokenOpensOneSession
    OneOpenRecovery
    OneLoginPerDevice
    RelationsHold
    StoredFilesAreReferenced
CHECK_DEADLOCK FALSE
