SPECIFICATION Spec
CONSTANTS
    None = None
    Frontends = {f1, f2}
    Epochs = {w1, w2}
    Docs = {d1}
    f1 = f1
    f2 = f2
    w1 = w1
    w2 = w2
    d1 = d1
    RestartAttempts = 2
    Failures = {"open", "spawn", "storage", "tick", "worker", "limit", "memory", "full", "crash", "interrupt"}
    MaxMishaps = 2
    MaxStops = 1
SYMMETRY Symmetry
INVARIANT OneOwner
INVARIANT OneWorker
INVARIANT LateNeverCommits
INVARIANT NoneForgotten
PROPERTY ClosedStaysClosed
PROPERTY ImplementsTickets
CHECK_DEADLOCK FALSE
