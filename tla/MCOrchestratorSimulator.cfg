CONSTANTS
    t1 = t1
    t2 = t2
    e1 = e1
    e2 = e2
    None = None
    Tasks <- MCTasks
    Endpoints <- MCEndpoints
SPECIFICATION Spec
INVARIANT SimulatorIsNoEvidence
