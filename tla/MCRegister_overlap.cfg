CONSTANTS
    TxIds = {t1}
    Cashiers = {c1}
    Accountants = {a1}
    Requests = {r1, r2}
    Endpoints <- ClientEndpoints
    NoDoc = NoDoc
    NoOne = NoOne
SPECIFICATION Spec
INVARIANTS TypeOK TrashFlagsAgree DiscardedIsSettled
PROPERTIES InboxRowsOutliveDeletes VerifiedLeavesThroughTrash
SYMMETRY Symmetry
VIEW View
CHECK_DEADLOCK FALSE
