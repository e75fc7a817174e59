\* One thread speaks for two clients and the settings.
SPECIFICATION FairSpec
CONSTANTS
    accept = accept
    gst = gst
    NONE = NONE
    CallerOf <- MCCallerOf
    Natives = {n1, n2}
    Browsers = {}
    Buttons = {a}
    Reach = 1
    Shapings = {x, y}
    MaxSources = 2
    Timeout = 1
    Callers = {accept}
    Settings = {accept}
INVARIANTS TypeOK
PROPERTIES MergesHands ReleasedOnLeaving
