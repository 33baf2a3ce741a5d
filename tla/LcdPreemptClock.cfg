SPECIFICATION Spec
CONSTANTS
    Modes = {m1, m2}
    Freqs = {f1, f2}
    None = none
    Preemptible = TRUE
    Rapid = TRUE
    EarlyClock = FALSE
    WithPM = FALSE
PROPERTIES
    ClockChangesDark
SYMMETRY Symmetry
