SPECIFICATION WebSpec
CONSTANTS
    d1 = d1  d2 = d2  p1 = p1  p2 = p2  e1 = e1  t1 = t1  r1 = r1  r2 = r2
    u1 = u1  u2 = u2  b1 = b1  b2 = b2  m1 = m1  m2 = m2  v1 = v1  v2 = v2
    c1 = c1  c2 = c2
    Device = {d1, d2}
    Req = {p1, p2}
    Place = {a, z}
    First = a
    Last = z
    Chosen = {"not_started"}
    NoDevice = NoDevice
    NoPlace = NoPlace
    MaxVersion = 2
    MaxRevision = 2
    Edition = {e1, e2}
    Elsewhere = Elsewhere
    None = None
    Sections = 2
    MaxSaves = 2
    MaxQueue = 1
    MaxOpens = 1
    Field = {size, theme}
    Choice = {c1, c2}
    NoSettings = NoSettings
    MaxPatches = 2
    Tab = {t1}
    Slot = {r1, r2}
    TabOf <- TabOfSlot
    User = {u1, u2}
    Nobody = Nobody
    MaxSessions = 2
    MaxTokens = 2
    Key = {n1, n2}
    NoFilter = n1
    Item = {i1}
    NoItem = NoItem
    MaxData = 2
    MaxLoads = 2
    MaxChanges = 1
    File = {f1, f2}
    TooLarge = {f2}
    NoFile = NoFile
    Encoding = {auto, utf}
    AutoEncoding = auto
    Target = {b1, b2}
    NoTarget = NoTarget
    Import = {m1, m2}
    NoImport = NoImport
    MaxFiles = 2
    Invited = {v1, v2}
    NoReader = NoReader
    Filters = {"active"}
    MaxPast = 3
    MaxTasks = 2
SYMMETRY WebSymmetry
INVARIANTS
    WebTypeOK
    VersionNamesOnePosition
    SavesWhatItKnows
    PositionKeptOnLeave
    SectionFollowsIndex
    LastChoiceKept
    ReplayHasACause
    ActsAsShownUser
    WaitsForARefresh
    ShowsWhatWasAsked
    WaitingHasACause
    CommitsWhatWasInspected
    EachFileOnItsOwn
    KeepsWhatItWasTold
PROPERTIES
    RevisionNeverGoesBack
    NoSilentOverwrite
CHECK_DEADLOCK FALSE
