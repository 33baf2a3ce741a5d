SPECIFICATION Spec
CONSTANTS
    Modes = {m1, m2}
    Freqs = {f1, f2}
    None = none
    Preemptible = FALSE
    Rapid = TRUE
    EarlyClock = TRUE
    WithPM = FALSE
INVARIANTS
    PanelNeedsScan
    DivisorSettled
PROPERTIES
    ClockChangesDark
SYMMETRY Symmetry
