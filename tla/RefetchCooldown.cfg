SPECIFICATION Spec
CONSTANTS
    Threads = {t1}
    Kids = {k1, k2}
    Unusable = {}
    Cooldown = 2
PROPERTIES
    AtMostOncePerCooldown
CHECK_DEADLOCK FALSE
