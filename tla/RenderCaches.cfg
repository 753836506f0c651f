SPECIFICATION Spec
CONSTANTS
    Screens = {s1, s2}
    Requests = {r1, r2}
    Rates = {0, 3}
    MinTtl = 1
    MaxDataTtl = 2
    Longest = 1
    Nil = nil
SYMMETRY Symmetry
INVARIANTS TypeOK ServedAge DataLapsesFirst
