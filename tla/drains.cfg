SPECIFICATION FairSpec
CONSTANTS
    Msgs = {"ask", "spam"}
    Threads <- MCThreads
    NoThread = "none"
    Root <- MCRoot
    Refs <- MCRefs
    Sender <- MCSender
    AutoReplies <- MCAutoReplies
    Rejected <- MCRejected
    waitingWatchdogMaxFires = 1
    LLMKeyMissing = FALSE
    MaxEmailRetries = 2
    FailureKinds = {"smtp", "fetch", "read", "memory", "torn", "snooze", "append"}
    MaxFailures = 2
    AnyThread = FALSE
    OnceChoices = {TRUE, FALSE}
    TicksDuringRuns = FALSE
INVARIANTS
    FailedRunsBounded
PROPERTIES
    MailIsPolledAgain
