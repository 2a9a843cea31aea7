\* One to three environments, with and without a terminal; distinct accounts in
\* every order, and confused ones.
CONSTANTS
    e1 = e1
    e2 = e2
    e3 = e3
    Environment = {e1, e2, e3}
    Selections <- UpToThree
    Jobs = 2
    Settings <- AllSettings
    None = None
    Responses <- Accounts
    Requests <- CommandLines
SPECIFICATION RunSpec
INVARIANTS OneResultEach StartedOnlyWhereItMay ZeroIsSuccess SelectionIsExact
CHECK_DEADLOCK FALSE
