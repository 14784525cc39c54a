SPECIFICATION Spec
CONSTANTS
    r1 = r1
    r2 = r2
    x = x
    y = y
    Runs = {r1, r2}
    Stems = {x, y}
    Suffixes = {0, 1}
    MaxTypes = 2
    Plans <- TwoRuns
INVARIANTS TypeOK PublishedIsThere PublishedIsOwn FaultTolerated
PROPERTY PublicationEnds
CHECK_DEADLOCK FALSE
