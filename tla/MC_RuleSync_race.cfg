SPECIFICATION Spec
CONSTANTS
    c1 = c1
    c2 = c2
    r1 = r1
    r2 = r2
    Callers = {c1, c2}
    RuleIds = {r1, r2}
    Versions = {v1}
    Absent = Absent
    MaxCalls = 2
SYMMETRY Symmetry
INVARIANT
    SaveApplies
