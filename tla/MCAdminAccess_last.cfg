SPECIFICATION Spec
CONSTANTS
    Passkey = {k1, k2}
    Device = {d1}
    Session = {s1, s2}
    Req = {p1, p2}
    Authentication = {a1}
    Registration = {g1, g2}
    Recovery = {r1}
    Site = Site
    NoKey = NoKey
    NoToken = NoToken
    NoDevice = NoDevice
    NoSession = NoSession
SYMMETRY Symmetry
PROPERTIES
    LastPasskeyStays
CHECK_DEADLOCK FALSE
