\* Switch: two menu entries, three messages between two passes.  3DS: two slots (the code's are 6),
\* two settings, two presses.  GamePad: two silent seconds, two missed readings.
\* Android: a queue of one, two streams, two pumps, two connections, one post at a
\* time; rates from 15 to 24.  Wii U: a ring of three frames, a datagram waiting,
\* two hosts.
SPECIFICATION FairSpec
CONSTANTS
    Parts = {"link", "pictures", "n3dsPictures", "n3dsLink", "station", "androidVideo",
             "androidLink", "bitrate", "sound"}
    MaxEntries = 2
    MaxDecode = 1
    MaxBatch = 3
    VideoSlots = 2
    MaxWork = 2
    N3dsConfigs = {c1, c2}
    WithPassword = {c2}
    MaxN3dsPresses = 2
    QuietGiveUp = 2
    MaxMisses = 2
    MaxFrames = 1
    MaxInfos = 2
    Pumps = {p1, p2}
    MaxConnects = 2
    MaxPosts = 1
    Floor = 15
    Top = 24
    BeginRate = 20
    Shares = {8, 40}
    GoodEnough = 2
    Ring = 3
    StartFrames = 2
    Pieces = {1, 2}
    SocketHolds = 1
    MaxSent = 1
    MaxHosts = 2
INVARIANTS ViewerTypes ClientsAreHonest
PROPERTIES PicturesAreRight NobodyIsForgotten
CHECK_DEADLOCK FALSE
