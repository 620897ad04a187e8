SPECIFICATION Spec
INVARIANTS
    
    TreesSound
    ContainersSound
    SpatialSound
CHECK_DEADLOCK FALSE
