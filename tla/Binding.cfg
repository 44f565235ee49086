CONSTANTS
    Sources <- MCSources
    Hashes <- MCHashes
    MaxSteps = 4
    reduce1_ <- MCreduce1
SPECIFICATION Spec
INVARIANTS
    StaysClosed
    SameAsNamed
\* a program without a head redex is done
CHECK_DEADLOCK FALSE
