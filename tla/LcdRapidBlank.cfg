SPECIFICATION Spec
CONSTANTS
    Modes = {m1}
    Freqs = {f1}
    None = none
    Preemptible = FALSE
    Rapid = TRUE
    EarlyClock = FALSE
    WithPM = FALSE
INVARIANTS
    UnblankKept
SYMMETRY Symmetry
