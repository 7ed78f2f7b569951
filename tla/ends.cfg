SPECIFICATION FairSpec
CONSTANTS
    Msgs = {"ask", "bounce", "spam"}
    Threads <- MCThreads
    NoThread = "none"
    Root <- MCRoot
    Refs <- MCRefs
    Sender <- MCSender
    AutoReplies <- MCAutoReplies
    Rejected <- MCRejected
    waitingWatchdogMaxFires = 2
    LLMKeyMissing = FALSE
    MaxEmailRetries = 2
    FailureKinds = {"smtp", "mark", "crash"}
    MaxFailures = 1
    AnyThread = FALSE
    OnceChoices = {}
    TicksDuringRuns = FALSE
PROPERTIES
    EveryMessageIsHandled
    WaitingEnds
