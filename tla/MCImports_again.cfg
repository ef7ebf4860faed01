CONSTANTS
    l1 = l1
    l2 = l2
    l3 = l3
    s1 = s1
    Managers = {m1}
    Book <- OneUpload
    DayOf <- OneDay
    Descriptions = {s1}
    DescriptionOf <- OneDescription
    Items = {i1, i2}
    NoItem = NoItem
    Workers = {w1, w2}
    Calls = {c1, c2}
    NoOne = NoOne
    BatchSize = 1
SPECIFICATION Spec
INVARIANT RepushSkipsLines
SYMMETRY Symmetry
