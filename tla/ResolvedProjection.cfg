\* Two writers and two readers over two transactions.
SPECIFICATION Spec
CONSTANTS
    Txns = {1, 2}
    Writers = {w1, w2}
    Readers = {r1, r2}
    BatchSize = 1
    MaxStatements = 3
SYMMETRY Symmetry
INVARIANT TypeOK
INVARIANT StaleRowIsAccountedFor
INVARIANT ServedPageIsCurrent
PROPERTY ImplementsContract
