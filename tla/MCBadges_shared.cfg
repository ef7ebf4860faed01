CONSTANTS
    TxIds = {t1, t2}
    Cashiers = {c1}
    Accountants = {a1}
    Requests = {r1, r2}
    Endpoints <- SharedEndpoints
    NoDoc = NoDoc
    NoOne = NoOne
SPECIFICATION DisjointSpec
INVARIANTS BadgesTrackRows NewTabListsNoEdits
PROPERTY VerifiedTrashedOnRequest
SYMMETRY Symmetry
CHECK_DEADLOCK FALSE
