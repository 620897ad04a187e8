SPECIFICATION Spec
CONSTANTS
    Clients = {c1, c2}
    Topics = {t1}
    Contents = {x1}
    MaxSends = 2
    Rogue = {c2}
    NoOne = NoOne
    Never = Never
PROPERTY ImplementsBroker
CHECK_DEADLOCK FALSE
VIEW WithoutHistory
