SPECIFICATION Spec
CONSTANTS
    Sockets <- BoardSockets
    Pins = {"detect", "bvd2"}
    Vccs = {0, 50}
    Allowed <- BoardAllowed
    Requests <- BoardRequests
    MaxChanges = 2
INVARIANTS
    TypeOK
    DetectSeen
    PowerReported
PROPERTIES
    SeenSettles
    PinsSampled
