CONSTANTS
    TxIds = {t1, t2}
    Cashiers = {c1}
    Accountants = {a1}
    Requests = {r1}
    Endpoints <- IssueEndpoints
    NoDoc = NoDoc
    NoOne = NoOne
SPECIFICATION Spec
PROPERTY PendingEditsCascade
SYMMETRY Symmetry
CHECK_DEADLOCK FALSE
