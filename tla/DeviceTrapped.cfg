\* Refuted: a switch to a format of another size never comes back.
CONSTANTS
    NONE = NONE
    yuyv = yuyv
    mjpeg = mjpeg
    Formats = {yuyv, mjpeg}
    Sizes = {"1080p", "480p"}
    Models <- AllModels
    Initial = mjpeg
    MaxAsks = 3
    MaxLosses = 0
SPECIFICATION DeviceFairSpec
PROPERTIES PictureComesBack
