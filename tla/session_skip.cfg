SPECIFICATION SkipSpec
CONSTANTS
    ta = ta
    tb = tb
    tc = tc
    p1 = p1
    p2 = p2
    p3 = p3
    NoTrack = NoTrack
    NoPlaylist = NoPlaylist
    Tracks <- MCTracks
    Playlists <- MCPlaylists
    TracksOf <- TwoOrders
    FullBuffers <- MCFull
    HasRest <- AllRest
    Codec <- AllFlac
    Specs <- MCSpecs
    SpecsOf <- MCSpecsOf
    Settled <- AsAsked
    Broken = {}
    Failures = {"underrun"}
    Garbage = {"Error", "Initial"}
    PreloadAt = 2
    Ops = {"play", "next", "previous", "seek", "playlist"}
    MaxOps = 5
INVARIANTS SourceMatchesIterator OneChain
PROPERTIES HaltsAtEdgesOnly PlaybackEnds
CHECK_DEADLOCK FALSE
