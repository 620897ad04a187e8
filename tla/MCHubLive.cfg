SPECIFICATION FairSpec
CONSTANTS
    Clients = {c1, c2}
    Topics = {t1}
    Contents = {x1}
    MaxSends = 1
    Rogue = {c2}
    NoOne = NoOne
    Never = Never
PROPERTIES OrderIndependent Reaped RejectedIsClosed
CHECK_DEADLOCK FALSE
