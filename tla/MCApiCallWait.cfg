\* How long a call may wait for Bob.
CONSTANTS
    Timeout = 2
    Horizon = 3
    Codes = {200, 403}
SPECIFICATION Spec
INVARIANTS WaitIsLimited
