CONSTANTS
    a1 = a1  b1 = b1  o1 = o1  o2 = o2
    Agents = {a1}
    Bodies = {b1}
    Ops = {o1, o2}
    None = None
    Bad = Bad
    Torn = Torn
SPECIFICATION FairSpec
INVARIANTS TypeOK DiskIsMemory NeverTorn TmpSurvives
PROPERTIES ImplementsStore RestartRecovers ReloadAppliesEdits EveryCallReturns
