SPECIFICATION FairSpec
CONSTANTS
    Emails = {"kiku", "momo"}
    Stem <- MCStem
    Keys = {"crm", "docs"}
    BuiltIn = {"status", "xero"}
    Spawned = {"xero"}
    Rows = {"v1", "v2", "bad"}
    Names = {"n1", "n2"}
    Texts = {"t1", "t2"}
    Passwords = {"pw1", "pw2"}
    Partners = {"partner"}
    InitialRoster <- MCRoster
    InitialCatalog <- MCCatalog
    Self = "kiku"
    EditsWhileLoading = TRUE
    MaxMishaps = 0
    Forms <- ServerForms
    MaxRequests = 1
CHECK_DEADLOCK FALSE
PROPERTY
    ToolsCatchUp
