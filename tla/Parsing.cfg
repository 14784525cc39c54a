SPECIFICATION Spec
CONSTANT Repos <- AllRepos
INVARIANTS
    TypeOK
    FastApiServed
    PatternsOnce
    MountedRight
    MergedRight
    ConfigDetected
    ClientReaches
PROPERTY ParsingAdvances
