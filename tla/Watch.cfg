\* Two wake scripts that end at any time; the card drops off the bus and comes back.
CONSTANTS
    Wakers = {w1, w2}
    Pictures = {pattern, game}
    MinFrames = 2
    Timeout = 3
    MaxWakes = 2
SPECIFICATION CardSpec
INVARIANTS
    TypeOK
    OneResetPerWake
    NotTooEager
PROPERTIES FollowedUp
