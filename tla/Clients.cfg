\* Two sizes of picture, queues of one, three pictures; one finger, one press,
\* two touches.
SPECIFICATION FairSpec
CONSTANTS
    Parts = {"wiiu", "pad"}
    Geometries = {g1, g2}
    PacketSlots = 1
    EventSlots = 1
    MaxSent = 3
    MaxOrders = 2
    Fingers = {f1}
    Holds = {{},{"ok","sticks"},{"combo"}}
    MaxPresses = 1
    MaxTouches = 2
INVARIANTS ClientTypes NothingIsCrossed
PROPERTIES PicturesInOrder NobodyWaits
CHECK_DEADLOCK FALSE
