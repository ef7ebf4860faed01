CONSTANTS
    TxIds = {t1}
    Cashiers = {c1}
    Accountants = {a1}
    Requests = {r1}
    Endpoints <- BulkConfirmEndpoints
    NoDoc = NoDoc
    NoOne = NoOne
SPECIFICATION BSpec
INVARIANT BadgesExactAtRest
SYMMETRY Symmetry
CHECK_DEADLOCK FALSE
