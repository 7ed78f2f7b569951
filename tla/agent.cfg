SPECIFICATION FairSpec
CONSTANTS
    MaxHistoryChars = 8
    BigResult = 6
    Tools = {"send", "status", "abort", "snooze", "lookup"}
    ToolSets <- MCToolSets
    Replies <- MCReplies
    Providers = {"anthropic", "openrouter"}
    Mails <- MCMails
    Files <- MCFiles
    MaxTurns = 2
    MaxRetries = 2
    MaxRuns = 1
CHECK_DEADLOCK FALSE
INVARIANTS
    TypeOK
    RequestAcceptable
    StartSent
    SavedIsUsable
    MemoryKeepsResults
    RunUsesItsTools
    TruncatedIsNotRun
    RetriesCount
PROPERTIES
    RunsEnd
    ImplementsRun
