SPECIFICATION Spec
CONSTANTS
    plug = plug
    out = out
    play = play
    pluginSec = pluginSec
    outputSec = outputSec
    playerSec = playerSec
    paths = paths
    blacklist = blacklist
    device = device
    bufferTime = bufferTime
    preload = preload
    lib = lib
    more = more
    bad = bad
    shut = shut
    mixed = mixed
    zero = zero
    second = second
    negative = negative
    default = default
    flac = flac
    wavpack = wavpack
    old = old
    foreign = foreign
    None = None
    NoSec = NoSec
    Missing = Missing
    Broken = Broken
    Secs <- MCSecs
    Nodes <- MCNodes
    SecOf <- MCSecOf
    Mgrs <- MCMgrs
    Own <- MCOwn
    Also <- MCAlso
    Keys <- MCKeys
    Default <- MCDefault
    Fits <- MCFits
    Nothing = Nothing
    Strings <- MCStrings
    Widgets <- MCWidgets
    Vals <- MCVals
    Shown <- MCShown
    Flagged <- MCFlagged
    Paths = paths
    Barred = blacklist
    PluginMgr = plug
    Found <- MCFound
    Bars <- MCBars
    Info <- MCInfo
    Malformed <- MCMalformed
    Unreadable <- MCUnreadable
    Files <- MCFiles
    MaxStarts = 2
    MaxEdits = 1
INVARIANTS WorkingFollowsTree SettingsSurvive PluginsAsConfigured
PROPERTIES OnlyEditsAreApplied StartsUp
CHECK_DEADLOCK FALSE
