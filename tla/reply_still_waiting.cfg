SPECIFICATION Spec
CONSTANTS
    Msgs = {"ask", "reply"}
    Threads <- MCThreads
    NoThread = "none"
    Root <- MCRoot
    Refs <- MCRefs
    Sender <- MCSender
    AutoReplies <- MCAutoReplies
    Rejected <- MCRejected
    waitingWatchdogMaxFires = 1
    LLMKeyMissing = FALSE
    MaxEmailRetries = 2
    FailureKinds = {}
    MaxFailures = 0
    AnyThread = FALSE
    OnceChoices = {}
    TicksDuringRuns = FALSE
INVARIANTS
    ReplyEndsWaiting
