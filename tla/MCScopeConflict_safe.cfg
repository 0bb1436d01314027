SPECIFICATION SSpec
CONSTANTS
    Packet = {p1, p2}
    Entry <- Entries
    Scope <- Scopes
    Class <- Classes
    Unpaired <- Broken
    Extends <- BeginsLike
    File <- Files
SYMMETRY Alike
CHECK_DEADLOCK FALSE
INVARIANTS
    SharedOnlyBelowDirectory
    PlainPathsExact
    GuardWiderInTwoCases
