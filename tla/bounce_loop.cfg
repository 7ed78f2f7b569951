SPECIFICATION Spec
CONSTANTS
    Agents = {"kiku", "beta", "gone"}
    People = {"ann", "bob"}
    Mta = "mta"
    Unreachable = {"ann"}
    Desks = {"kiku"}
    Away = {"bob"}
    Outlook = {"ann"}
    Reporting = {"kiku", "beta"}
    Strict = {"kiku"}
    Whitelist <- MCWhitelist
    Blacklist <- MCBlacklist
    Budgets <- MCBudgets
CHECK_DEADLOCK FALSE
INVARIANT Settles
