CONSTANTS
    a1 = a1  e1 = e1  e2 = e2  t1 = t1  t2 = t2  s1 = s1  s2 = s2  s3 = s3  o1 = o1
    Agents = {a1}
    Events = {e1, e2}
    Blank = Blank
    Messages <- MCMessages
    MaxEventBytes <- MCLimit
    Configs <- MCOnly1
    Tasks = {t1, t2}
    SemIds = {s1}
    Ops = {}
    None = None
    Stream <- MCTwo
    MaxAckPending <- MCPending1
    MaxCrashes = 1
SPECIFICATION FairDeliverySpec
INVARIANTS SerialInOrder AckedWasHandled
PROPERTIES OncePerLife EverySettled
CHECK_DEADLOCK FALSE
