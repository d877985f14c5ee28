CONSTANTS
    Unset = Unset
    Blank = Blank
    None = None
    tokenFile <- MCTokenFile
    tlsFiles <- MCTlsFiles
    durations <- MCDurations
    lower <- MCLower
    Settings <- MCSettings
    ParseIP <- MCParseIP
    Tokens <- MCTokens
    Origins <- MCOrigins
    BrowserHost <- MCBrowserHost
    BrowserPort <- MCBrowserPort
    BodyTimeout = 2
    MaxBody = 2
    MaxClock = 4
SPECIFICATION Spec
INVARIANTS IgnoredMeansIgnored ToolsAreGuarded OriginsAsBrowsersDo BodyIsBounded
