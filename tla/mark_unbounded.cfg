SPECIFICATION Spec
CONSTANTS
    Msgs = {"ask"}
    Threads <- MCThreads
    NoThread = "none"
    Root <- MCRoot
    Refs <- MCRefs
    Sender <- MCSender
    AutoReplies <- MCAutoReplies
    Rejected <- MCRejected
    waitingWatchdogMaxFires = 1
    LLMKeyMissing = FALSE
    MaxEmailRetries = 2
    FailureKinds = {"mark"}
    MaxFailures = 2
    AnyThread = FALSE
    OnceChoices = {}
    TicksDuringRuns = FALSE
INVARIANTS
    FailedRunsBounded
