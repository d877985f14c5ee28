CONSTANTS
    Modes = {"http", "stdio"}
    MaxRequests = 2
SPECIFICATION FairSpec
INVARIANTS TruthfulRecord OneRecord CleanExitIsAsked DrainsBeforeExit
PROPERTIES SignalRecorded RunReturns
