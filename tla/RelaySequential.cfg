CONSTANTS
    a1 = a1  a2 = a2  c1 = c1  c2 = c2  l1 = l1  l2 = l2  l3 = l3  l4 = l4
    Agents = {a1, a2}
    Bodies = {1}
    None = None
    Rank <- MCRank2
    Conns = {c1}
    Main = Main
    Loops = {l1, l2, l3, l4}
    Signals = {"HUP"}
    Overlap = FALSE
    MaxTasks = 0
SPECIFICATION Spec
SYMMETRY MCSymmetry
INVARIANTS TypeOK EnabledIsPulled RemovedIsNotPulled
