SPECIFICATION Spec
CONSTANTS
    n1 = n1
    n2 = n2
    sp = sp
    plus = plus
    Nodes = {n1, n2}
    Keys <- MCKeys
    Clients = {c1, c2}
    Handlers = {h1, h2}
    Capacity = 1
    PeerLists <- MCPeerLists
    Replicas = 2
    Hash <- MCHash
    NoRing = NoRing
    Wire <- MCWire
    MaxAbandoned = 1
    Volatile = {plus}
    MaxVersion = 1
    Peer = Peer
    NoAnswer = NoAnswer
    Nobody = Nobody
    NoKey = NoKey
    NoFlight = NoFlight
SYMMETRY ClientSymmetry
CHECK_DEADLOCK FALSE
INVARIANTS TypeOK AnswersOwnKey NoWaitCycle
PROPERTIES NeverFillsOlder
