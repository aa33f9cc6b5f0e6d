CONSTANTS
    a1 = a1  e1 = e1  e2 = e2  t1 = t1  t2 = t2  s1 = s1  s2 = s2  s3 = s3  o1 = o1
    Agents = {a1}
    Events = {e1, e2}
    Blank = Blank
    Messages <- MCMessages
    MaxEventBytes <- MCLimit
    Configs <- MCOnly1
    Tasks = {t1, t2}
    SemIds = {s1, s2, s3}
    Ops = {o1}
    None = None
    Stream <- MCOne
    MaxAckPending <- MCPending1
    MaxCrashes = 0
SPECIFICATION DeliverySpec
SYMMETRY MCSymmetry
INVARIANTS NoSecondHandler
CHECK_DEADLOCK FALSE
