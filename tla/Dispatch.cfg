SPECIFICATION Spec
CONSTANTS
    App = {s1, s2, s3}
    p1 = p1  p2 = p2
    Publisher <- Publishers
    MaxPubNum = 1
    MaxSubNum = 6
    Me = 42
    Peer <- Peers
    Other = 127
    Port <- Ports
    Tid = {0, 31}
    Stray <- Strays
INVARIANTS TypeOK EveryoneIsServed NobodyElseIsCalled ClientGetsItsAnswer PortListIsTrue
SYMMETRY Apps
