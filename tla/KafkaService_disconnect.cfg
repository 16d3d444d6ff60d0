SPECIFICATION Spec
CONSTANTS
    Senders = {s1}
    Admins  = {}
INVARIANTS
    DisconnectedAtReturn
CHECK_DEADLOCK FALSE
