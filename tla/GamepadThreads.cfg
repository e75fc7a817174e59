\* Three sources of two threads share two slots.
SPECIFICATION FairSpec
CONSTANTS
    accept = accept
    gst = gst
    NONE = NONE
    CallerOf <- MCCallerOf
    Natives = {n1, n2}
    Browsers = {b1}
    Buttons = {a}
    Reach = 0
    Shapings = {x}
    MaxSources = 2
    Timeout = 1
    Callers = {accept, gst}
    Settings = {}
INVARIANTS OneSlotPerSource
PROPERTIES PlayersKeepTheirSlot ReleasedByOthers
