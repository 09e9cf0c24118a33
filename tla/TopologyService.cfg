\* Two scans at once, three in all, of one section that changes once.
SPECIFICATION Spec
CONSTANTS
    Scan = {k1, k2}
    Sections = 1
    None = None
    MaxScans = 3
    MaxVersion = 2
SYMMETRY SlotSymmetry
INVARIANTS
    TypeOK
    
    
    
CHECK_DEADLOCK FALSE
