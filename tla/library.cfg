SPECIFICATION Spec
CONSTANTS
    music = music
    music2 = music2
    link = link
    nowhere = nowhere
    Garbled = Garbled
    musicA = musicA
    music2B = music2B
    linkA = linkA
    fileA = fileA
    fileB = fileB
    None = None
    Dirs <- MCDirs
    Directories <- MCDirectories
    Canon <- MCCanon
    Uris <- MCUris
    FileOf <- MCFileOf
    In <- MCIn
    Begins <- MCBegins
    Supported = {fileA, fileB}
    Ignored = {}
    Settings <- MCSettings
    MaxEvents = 2
INVARIANTS NoNameTwice OnlyConfigured Complete
PROPERTIES ScansEnd
CHECK_DEADLOCK FALSE
