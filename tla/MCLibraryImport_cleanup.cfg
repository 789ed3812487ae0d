SPECIFICATION FairSpec
CONSTANTS
    i0 = i0  i1 = i1  i2 = i2  p1 = p1  p2 = p2  none = none
    k1 = k1  k2 = k2  k3 = k3  k4 = k4
    f1 = f1  f2 = f2  f3 = f3  f4 = f4
    NoImport = none  NoKey = none  NoFile = none
    Import <- OneImport
    Epub <- NoEpub
    Key <- TwoKeys
    File <- TwoFiles
    Req <- OneReq
    MaxFaults = 1
    DeleteOrphans = TRUE
PROPERTIES
    TemporaryReclaimed
    InspectionSettles
    OrphanReclaimed
