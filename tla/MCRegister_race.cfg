CONSTANTS
    TxIds = {t1}
    Cashiers = {c1}
    Accountants = {a1}
    Requests = {r1, r2}
    Endpoints <- RaceEndpoints
    NoDoc = NoDoc
    NoOne = NoOne
SPECIFICATION Spec
PROPERTY VerifiedTrashedOnRequest
SYMMETRY Symmetry
CHECK_DEADLOCK FALSE
