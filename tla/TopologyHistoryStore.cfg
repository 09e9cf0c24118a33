\* Three snapshots against a limit of two, two writes waiting, crashes anywhere.
SPECIFICATION Spec
CONSTANTS
    Id = {i1, i2, i3}
    Tag = {t}
    Limit = 2
    MaxAt = 4
    MaxQueue = 2
SYMMETRY Interchangeable
INVARIANTS
    TypeOK
    UniqueIds
    FileCatchesUp
    SavedTagsSurvive
    Capped
PROPERTIES
    TaggedNeverPruned
    ImplementsWriteBehind
