CONSTANTS
    Path <- Paths
    Version <- Versions1
    Number = {0, 1, 2, 3}
    MaxHops = 2
    Written <- Lies
SPECIFICATION Spec
INVARIANT UnreadableNeverForced
