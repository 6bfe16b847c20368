\* Two readers that can wait for, and overtake, each other; one writer that makes markers.
SPECIFICATION FairSpec
CONSTANTS
    Txns = {1, 2}
    Writers = {w1}
    Readers = {r1, r2}
    BatchSize = 2
    MaxStatements = 2
PROPERTY DrainEnds
PROPERTY RowsMoveForward
