SPECIFICATION Spec
CONSTANTS
    Conns = {c1, c2}
    PhoneSizes = {p1}
    DeskSizes = {d1, d2}
    NoSize = NoSize
    NoConn = NoConn
    MaxToken = 2
    MaxSending = 2
    MaxPending = 0

INVARIANTS TypeOK GeometryComesBack ClientsKnowTheLease
PROPERTIES BridgeRecovers StrayLeaseEnds
