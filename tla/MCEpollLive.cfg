SPECIFICATION Spec
CONSTANTS
    Threads = {t1}
    Files = {f1, f2}
    Bits = {"in"}
    Masks <- MCLiveMasks
    NoOne = NoOne
    MaxEvents = 1
    MaxArrivals = 3
    MaxCtl = 3
PROPERTIES TakeTurns
