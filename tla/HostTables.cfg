\* Two pages for one slot, two connections and two sessions.
SPECIFICATION Spec
SYMMETRY Symmetry
CONSTANTS
    Parts = {"titan", "native", "rtc", "web", "wake", "device", "backend",
             "supervisor", "console", "pace", "audio", "padPicture"}
    Unset = Unset
    a = a
    g = g
    Guide = g
    Buttons = {a, g}
    Protocols = {1, 2}
    MaxTitanEvents = 2
    MaxClients = 2
    MaxWeb = 1
    Doors = {"old3ds", "drc", "native", "wiiu"}
    NativeCodecs = {"h264", "drc"}
    Players = {"drc", "native"}
    MaxEvents = 1
    p1 = p1
    p2 = p2
    Pages = {p1, p2}
    MaxRtc = 1
    NoPage = NoPage
    c1 = c1
    c2 = c2
    Conns = {c1, c2}
    MaxSessions = 2
    MaxFails = 2
    MaxRequests = 4
    Kinds = {"page", "login", "offer", "ws", "transport", "shared", "order"}
    MaxHappenings = 2
    NONE = NONE
    yuyv = yuyv
    mjpeg = mjpeg
    Formats = {yuyv, mjpeg}
    Sizes = {"1080p", "480p"}
    Models <- AllModels
    Initial = mjpeg
    MaxAsks = 3
    Consoles = {s1, s2}
    NoConsole = NoConsole
    Clients = {q1}
    MaxHandoffs = 2
    MaxDeeds = 2
    Founds <- AnySetting
    MaxLosses = 2
    Pids = {1, 2}
    CaptureFormats = {f1, f2}
    Frame = 3
    Gap = 7
    MaxTicks = 20
    PlayThreads = {t1, t2}
    MaxRing = 1
    MaxStalls = 1
    MinGap = 1
    MaxDown = 1
INVARIANTS
    HostTypes FramesFitStream CaptureIsOwned SlotsAreOwned ServerIsExclusive HelperLeavesClean
    AdapterIsLent ThreadsAgree
CHECK_DEADLOCK FALSE
