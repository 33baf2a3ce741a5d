SPECIFICATION Spec
CONSTANTS
    Sockets <- BoardSockets
    Pins = {"detect", "bvd2"}
    Vccs = {0, 50}
    Allowed <- BoardAllowed
    Requests <- BoardRequests
    MaxChanges = 2
PROPERTY PresenceSettles
