SPECIFICATION Spec
CONSTANTS
    Clients = {c1, c2}
    Topics = {t1}
    Contents = {x1, x2}
    MaxSends = 2
    Rogue = {c2}
    NoOne = NoOne
    Never = Never
INVARIANTS TypeOK AudienceIsContext NoDeadAudience NoGap OnlyBadRejected

CHECK_DEADLOCK FALSE
