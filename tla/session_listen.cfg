SPECIFICATION ListenSpec
CONSTANTS
    ta = ta
    tb = tb
    tc = tc
    p1 = p1
    p2 = p2
    p3 = p3
    NoTrack = NoTrack
    NoPlaylist = NoPlaylist
    Tracks <- MCTracks
    Playlists <- MCPlaylists
    TracksOf <- TwoOrders
    FullBuffers <- MCFull
    HasRest <- AllRest
    Codec <- AllFlac
    Specs <- MCSpecs
    SpecsOf <- MCSpecsOf
    Settled <- AsAsked
    Broken = {}
    Failures = {}
    Garbage = {"Error", "Initial"}
    PreloadAt = 2
    Ops = {"play", "playlist"}
    MaxOps = 6
PROPERTIES HearsWholePlaylist HearingEnds
CHECK_DEADLOCK FALSE
