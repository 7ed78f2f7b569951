SPECIFICATION Spec
CONSTANTS
    Msgs = {"ask"}
    Threads <- MCThreads
    NoThread = "none"
    Root <- MCRoot
    Refs <- MCRefs
    Sender <- MCSender
    AutoReplies <- MCAutoReplies
    Rejected <- MCRejected
    waitingWatchdogMaxFires = 2
    LLMKeyMissing = FALSE
    MaxEmailRetries = 2
    FailureKinds = {"snooze"}
    MaxFailures = 3
    AnyThread = FALSE
    OnceChoices = {}
    TicksDuringRuns = FALSE
INVARIANTS
    NudgesBounded
