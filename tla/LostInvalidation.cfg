\* One writer and one reader suffice to lose an invalidation.
SPECIFICATION Spec
CONSTANTS
    Txns = {1, 2}
    Writers = {w1}
    Readers = {r1}
    BatchSize = 1
    MaxStatements = 3

INVARIANT StaleRowHasMarker
