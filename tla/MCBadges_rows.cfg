CONSTANTS
    TxIds = {t1}
    Cashiers = {c1, c2}
    Accountants = {a1}
    Requests = {r1}
    Endpoints <- CountedEndpoints
    NoDoc = NoDoc
    NoOne = NoOne
SPECIFICATION BSpec
INVARIANTS BadgesTypeOK BadgesTrackRows
SYMMETRY Symmetry
VIEW RowsView
CHECK_DEADLOCK FALSE
CONSTRAINT RepairTells
