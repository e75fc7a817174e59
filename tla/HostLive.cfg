\* One of each, under fairness.
SPECIFICATION FairSpec
CONSTANTS
    Parts = {"titan", "native", "rtc", "web", "wake", "device", "supervisor", "audio",
             "padPicture", "pace"}
    Unset = Unset
    a = a
    g = g
    Guide = g
    Buttons = {a, g}
    Protocols = {1, 2}
    MaxTitanEvents = 1
    MaxClients = 1
    MaxWeb = 1
    Doors = {"old3ds"}
    NativeCodecs = {}
    Players = {"old3ds"}
    MaxEvents = 1
    p1 = p1
    p2 = p2
    Pages = {p1}
    MaxRtc = 2
    NoPage = NoPage
    c1 = c1
    c2 = c2
    Conns = {c1}
    MaxSessions = 1
    MaxFails = 1
    MaxRequests = 3
    Kinds = {"page", "login", "ws", "transport"}
    MaxHappenings = 2
    NONE = NONE
    yuyv = yuyv
    mjpeg = mjpeg
    Formats = {yuyv, mjpeg}
    Sizes = {"1080p", "480p"}
    Models <- AllModels
    Initial = mjpeg
    MaxAsks = 2
    Consoles = {s1}
    NoConsole = NoConsole
    Clients = {q1}
    MaxHandoffs = 1
    MaxDeeds = 0
    Founds <- UsualSetting
    MaxLosses = 1
    Pids = {1, 2}
    CaptureFormats = {f1}
    Frame = 3
    Gap = 7
    MaxTicks = 20
    PlayThreads = {t1}
    MaxRing = 1
    MaxStalls = 1
    MinGap = 1
    MaxDown = 1
PROPERTIES LatestCounts ViewersAreServed LeaversFreeTheirPlace WaitsEnd
CHECK_DEADLOCK FALSE
