\* A journal query and a recent one; two sessions, three channels.
SPECIFICATION Spec
CONSTANTS
    Session = {s1, s2}
    Channel = {c1, c2, c3}
    Query = {live, recent}
    Recent = {recent}
    None = None
SYMMETRY SlotSymmetry
INVARIANTS
    TypeOK
    NoOrphanChannel
    
    OpenStreamIsStreaming
