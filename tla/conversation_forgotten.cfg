SPECIFICATION Spec
CONSTANTS
    Agents = {"kiku", "beta", "gone"}
    People = {"ann", "bob"}
    Mta = "mta"
    Unreachable = {"gone"}
    Desks = {"kiku"}
    Away = {"bob"}
    Outlook = {"ann"}
    Reporting = {"kiku", "beta"}
    Strict = {"kiku"}
    Whitelist <- MCWhitelist
    Blacklist <- MCBlacklist
    Budgets <- MCReplies
CHECK_DEADLOCK FALSE
INVARIANT ConversationRemembered
