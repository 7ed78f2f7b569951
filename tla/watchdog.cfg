SPECIFICATION Spec
CONSTANTS
    Msgs = {"ask", "bounce"}
    Threads <- MCThreads
    NoThread = "none"
    Root <- MCRoot
    Refs <- MCRefs
    Sender <- MCSender
    AutoReplies <- MCAutoReplies
    Rejected <- MCRejected
    waitingWatchdogMaxFires = 2
    LLMKeyMissing = FALSE
    MaxEmailRetries = 2
    FailureKinds = {"smtp", "mark", "torn", "crash"}
    MaxFailures = 1
    AnyThread = FALSE
    OnceChoices = {TRUE, FALSE}
    TicksDuringRuns = TRUE
INVARIANTS
    TypeOK
    NudgesBounded
    WaitingIsWatched
    OneEntryPerThreadAndKind
PROPERTIES
    RecurringSurvives
