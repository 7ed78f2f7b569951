SPECIFICATION FairSpec
CONSTANTS
    Agents = {"kiku", "beta", "gone"}
    People = {"ann", "bob"}
    Mta = "mta"
    Unreachable = {"gone"}
    Desks = {"kiku"}
    Away = {"bob"}
    Outlook = {"ann"}
    Reporting = {"kiku", "beta"}
    Strict = {"kiku"}
    Whitelist <- MCWhitelist
    Blacklist <- MCBlacklist
    Budgets <- MCBudgets
CHECK_DEADLOCK FALSE
INVARIANTS
    TypeOK
    Admitted
    ReportsStayInThread
    StrictToRequester
    ThreadRemembered
    ConversationFound
    Settles
PROPERTIES
    DeclinesReachPeople
    InboxWorkedOff
