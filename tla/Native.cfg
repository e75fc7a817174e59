\* Two clients of any kind come, change codec, leave and are replaced.
SPECIFICATION NativeSpec
CONSTANTS
    MaxClients = 2
    MaxWeb = 1
    Doors = {"old3ds", "drc", "native", "wiiu"}
    NativeCodecs = {"h264", "drc"}
    Players = {"drc", "native"}
    MaxEvents = 2
INVARIANTS TableIsExact PredictedNeedsReference
CHECK_DEADLOCK FALSE
