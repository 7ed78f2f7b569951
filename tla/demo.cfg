SPECIFICATION Spec
CONSTANTS
    Msgs = {"ask", "reply", "other", "spam", "bounce"}
    Threads <- MCThreads
    NoThread = "none"
    Root <- MCRoot
    Refs <- MCRefs
    Sender <- MCSender
    AutoReplies <- MCAutoReplies
    Rejected <- MCRejected
    waitingWatchdogMaxFires = 2
    LLMKeyMissing = TRUE
    MaxEmailRetries = 2
    FailureKinds = {"mark", "crash"}
    MaxFailures = 2
    AnyThread = FALSE
    OnceChoices = {}
    TicksDuringRuns = FALSE
INVARIANTS
    SeenIsAccountedFor
