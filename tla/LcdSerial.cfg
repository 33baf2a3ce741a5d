SPECIFICATION Spec
CONSTANTS
    Modes = {m1, m2}
    Freqs = {f1}
    None = none
    Preemptible = TRUE
    Rapid = TRUE
    EarlyClock = TRUE
    WithPM = TRUE
INVARIANTS
    TypeOK
    StateMatchesController
PROPERTIES
    ProgramOnlyWhenOff
    OnlyUnblankLights
SYMMETRY Symmetry
