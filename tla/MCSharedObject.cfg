SPECIFICATION Spec
CONSTANTS
    k1 = k1
    k2 = k2
    m1 = m1
    m2 = m2
    is_disabled = is_disabled
    conditions = conditions
    description = description
    group_id = group_id
    postures = postures
    Callers = {k1, k2}
    Fields = {is_disabled, group_id, conditions, description, postures}
    Kind <- PolicyKind
    Switch = is_disabled
    Members = {m1, m2}
    Teams <- SomeTeams
    Values = {true}
    True = true
    Zero = zero
    JSONNull = null
    Absent = absent
    MaxCalls = 2
INVARIANTS
    TypeOK
    LastWordStands
