CONSTANTS
    IpLen = 15
    PortLen = 5
    NameLen = 8
    TypeLen = 3
    BodyLen = 40
    Ports = {9999, 10000}
    Inputs <- MCInputs
    MaxMsgs = 2
SPECIFICATION Spec
INVARIANT HeadsArrive
INVARIANT BodiesArrive
INVARIANT NoPhantoms
CHECK_DEADLOCK FALSE
