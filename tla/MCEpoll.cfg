SPECIFICATION Spec
CONSTANTS
    Threads = {t1, t2}
    Files = {f1, f2}
    Bits = {"in"}
    Masks <- MCMasks
    NoOne = NoOne
    MaxEvents = 1
    MaxArrivals = 2
    MaxCtl = 2
INVARIANTS ReadyIsQueued NoLostWakeup OneShotOnce ListsHoldLive
PROPERTIES StaysHeld
SYMMETRY Symmetry
