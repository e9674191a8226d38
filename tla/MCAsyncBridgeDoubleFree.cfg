SPECIFICATION Spec
CONSTANTS
    Reqs = {r1}
    Owned = {r1}
CHECK_DEADLOCK FALSE
INVARIANT FreedOnce
