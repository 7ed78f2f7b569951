SPECIFICATION Spec
CONSTANTS
    Msgs = {"ask", "reply", "other"}
    Threads <- MCThreads
    NoThread = "none"
    Root <- MCRoot
    Refs <- MCRefs
    Sender <- MCSender
    AutoReplies <- MCAutoReplies
    Rejected <- MCRejected
    waitingWatchdogMaxFires = 1
    LLMKeyMissing = FALSE
    MaxEmailRetries = 2
    FailureKinds = {}
    MaxFailures = 0
    AnyThread = TRUE
    OnceChoices = {}
    TicksDuringRuns = FALSE
INVARIANTS
    HistoryIsolated
    SeenIsAccountedFor
    AnsweredIsRemembered
PROPERTIES
    AnsweredIsNotRerun
