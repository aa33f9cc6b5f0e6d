CONSTANTS
    a1 = a1  e1 = e1  e2 = e2  t1 = t1  t2 = t2  s1 = s1  s2 = s2  s3 = s3  o1 = o1
    Agents = {a1}
    Events = {e1, e2}
    Blank = Blank
    Messages <- MCMessages
    MaxEventBytes <- MCLimit
    Configs <- MCOnly2
    Tasks = {t1, t2}
    SemIds = {s1}
    Ops = {}
    None = None
    Stream <- MCRepeated
    MaxAckPending <- MCPending2
    MaxCrashes = 0
SPECIFICATION DeliverySpec
SYMMETRY MCSymmetry
INVARIANTS NoRerun
CHECK_DEADLOCK FALSE
