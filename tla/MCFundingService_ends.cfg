SPECIFICATION FairSpec
CONSTANTS
    None = None
    Frontends = {f1}
    Epochs = {w1, w2, w3}
    Docs = {d1}
    f1 = f1
    w1 = w1
    w2 = w2
    w3 = w3
    d1 = d1
    RestartAttempts = 2
    Failures = {"storage", "worker", "limit", "memory", "full", "crash"}
    MaxMishaps = 3
    MaxStops = 1
PROPERTY AdmittedEnds
PROPERTY StopHeeded
CHECK_DEADLOCK FALSE
