SPECIFICATION Spec
CONSTANTS
    ta = ta
    tb = tb
    tc = tc
    p1 = p1
    p2 = p2
    NoTrack = NoTrack
    NoPlaylist = NoPlaylist
    Tracks <- MCTracks
    Playlists <- MCPlaylists
    TracksOf <- TwoLists
    FullBuffers <- MCFull
    HasRest <- AllRest
    Codec <- TwoCodecs
    Specs <- MCSpecs
    SpecsOf <- MCSpecsOf
    Settled <- OnlyCD
    Broken = {tc}
    Failures = {"create", "prepare", "play", "pause", "stop", "write", "underrun", "decode"}
    Garbage = {"Error", "Initial"}
    PreloadAt = 2
    Ops = {"play", "pause", "stop", "next", "previous", "jumpTo", "seek", "playlist", "sink"}
    MaxOps = 6
INVARIANTS TypeOK StateMatchesDevice NoOrphanedWrite
PROPERTIES PlayingIsFed LateCompletionIsHarmless
CHECK_DEADLOCK FALSE
